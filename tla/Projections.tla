---------------------------- MODULE Projections ----------------------------
(***************************************************************************)
(* The files the library derives under meta/ and the journal they are      *)
(* published through: crates/llmbase-core/src/maintenance.rs, with the     *)
(* callers that have a model write such a file (maintenance_model.rs,      *)
(* entities_model.rs) and the trails of web_write.rs.                      *)
(*                                                                         *)
(* A batch is committed to SQLite with what each file must hold before it, *)
(* then carried out file by file; every open and every sync first carries  *)
(* out what an earlier process left.  All of it runs under the kernel's    *)
(* writer lock, which a generation gives up while its model answers.       *)
(* People edit the articles and these files, and know nothing of the lock. *)
(*                                                                         *)
(* A derived text is a pair: what kind it is and what it was made from.    *)
(* backlinks stands for index.json, _index.md and backlinks.json, which    *)
(* depend on the public articles alone; aliases also keeps what people     *)
(* wrote into it.                                                          *)
(*                                                                         *)
(* ManifestFirst, KeepsOnlyTheNew and ChecksRowOnly are mutants: slips in   *)
(* the operator that follows each, used by none.                           *)
(***************************************************************************)
EXTENDS Naturals, Sequences, FiniteSets, Functions

CONSTANTS Procs,      \* processes with an open library
          Articles,   \* articles, numbered
          Texts,      \* what an article's file may hold
          Hidden,     \* the texts whose front matter is not public
          None,       \* no file, no process, no text
          Operations, \* what the processes may be asked to do
          MaxBatches, MaxEdits, MaxCrashes  \* bounds, for model checking only

Assumptions == None \notin Procs

VARIABLES text,    \* the file of each article
          row,     \* the indexed row of each article: revision and text
          meta,    \* the derived files
          batches, \* table maintenance_projection_batches, in order
          kept,    \* tables maintenance_generated_revisions, _trail_revisions
          lock,    \* who holds the writer lock
          cursor,  \* the artifact of the first pending batch to do next
          at, op,  \* where each process is, in which operation
          saw,     \* the rows a generation gave to the model
          prev,    \* the files as that generation found them
          locked,  \* whether a person locked the accepted taxonomy
          raced,   \* edits since the check of the artifact being installed
          edits, crashes

library == <<text, row, meta, batches, kept, locked>>
process == <<lock, cursor, at, op, saw, prev>>
vars    == <<library, process, raced, edits, crashes>>

FullBatch == <<"aliases", "backlinks", "manifest">>
Models    == {"taxonomy", "entities", "xici"}  \* what a model writes
Generated == {"taxonomy", "entities", "base", "lang"}
Files     == Range(FullBatch) \cup Generated \cup {"trails", "sources"}
Missing   == <<"none", 0>>
NoFiles   == [f \in Files |-> Missing]

Init == /\ text \in [Articles -> Texts]
        /\ row = [a \in Articles |-> [rev |-> 0, text |-> None]]
        /\ meta = NoFiles
        /\ batches = <<>> /\ kept = {} /\ locked = FALSE
        /\ lock = None /\ cursor = 1
        /\ at = [p \in Procs |-> "idle"] /\ op = [p \in Procs |-> "open"]
        /\ saw = [p \in Procs |-> {}]
        /\ prev = [p \in Procs |-> NoFiles]
        /\ raced = {} /\ edits = 0 /\ crashes = 0

-----------------------------------------------------------------------------
(* What is read from the index.                                            *)

Public(a) == row[a].text \in Texts \ Hidden

\* Snapshot::load(_, false): the public articles.
Snapshot == {<<a, row[a]>> : a \in {b \in Articles : Public(b)}}

\* live_sources refuses to read when a file differs from its row.
Live == \A a \in Articles : Public(a) => text[a] = row[a].text

\* Existing aliases that name one public article outlive a rebuild: a person
\* may have written them.
Override ==
    LET old == CASE meta["aliases"][1] = "human" -> meta["aliases"][2]
                 [] meta["aliases"][1] = "names" -> meta["aliases"][2][2]
                 [] OTHER -> None
    IN  IF old \in Articles /\ Public(old) THEN old ELSE None

-----------------------------------------------------------------------------
(* Batches.                                                                *)

Artifact(f, expected, content, guards) ==
    [file |-> f, expected |-> expected, content |-> content, guards |-> guards]

Pending == {k \in DOMAIN batches : ~batches[k].done}
Next1   == CHOOSE k \in Pending : \A l \in Pending : k <= l
Number  == Len(batches) + 1

Commit(artifacts) ==
    batches' = Append(batches, [artifacts |-> artifacts, done |-> FALSE])

\* The derived files of one rebuild; the manifest lists the others.
Made == [aliases   |-> <<"names", <<Snapshot, Override>>>>,
         backlinks |-> <<"view", Snapshot>>]

Content(f) == IF f = "manifest" THEN <<"generation", <<Number, Made>>>>
              ELSE Made[f]

Whole(order) ==
    [i \in DOMAIN order |->
       Artifact(order[i], meta[order[i]], Content(order[i]), {})]

ManifestFirst == Whole([i \in DOMAIN FullBatch |-> FullBatch[Len(FullBatch) + 1 - i]])

\* rebuild_metadata_inner: every file and, last, the manifest.
Rebuilt == Whole(FullBatch)

KeepsOnlyTheNew(artifacts) ==
    kept' = kept \cup {<<a.file, a.content>> : a \in Range(artifacts)}

\* The bytes replaced and the bytes written become revisions with the batch.
KeepBoth(artifacts) ==
    kept' = kept \cup {<<a.file, a.content>> : a \in Range(artifacts)}
                 \cup {<<a.file, a.expected>> : a \in Range(artifacts)}

-----------------------------------------------------------------------------
(* Operations.  Whoever finds the lock taken fails with Busy, unchanged.   *)

Goto(p, place) == at' = [at EXCEPT ![p] = place]

\* A generation is over, or its process is.
Forget(p) == /\ saw' = [saw EXCEPT ![p] = {}]
             /\ prev' = [prev EXCEPT ![p] = NoFiles]

Release(p, place) == /\ lock' = None /\ cursor' = 1
                     /\ raced' = {}
                     /\ Goto(p, place)

\* Library::open, and the locked sections that replay before they act: sync,
\* which most operations begin with, and the trails.
Start(p, o) ==
    /\ at[p] = "idle" /\ lock = None
    /\ o = "open" \/ Len(batches) < MaxBatches
    /\ lock' = p
    /\ op' = [op EXCEPT ![p] = o]
    /\ Goto(p, "replay")
    /\ UNCHANGED <<library, cursor, saw, prev, raced, edits, crashes>>

\* What follows the replay of a locked section.
AfterReplay(p) ==
    /\ at[p] = "replay" /\ Pending = {}
    /\ \/ /\ op[p] = "open"
          /\ Release(p, "idle")
       \/ /\ op[p] # "open"
          /\ Goto(p, "act")
          /\ UNCHANGED <<lock, cursor, raced>>
    /\ UNCHANGED <<library, op, saw, prev, edits, crashes>>

\* sync_locked takes the files into the index, and the section ends.
Scan(p) ==
    /\ at[p] = "act" /\ op[p] \in {"rebuild", "backlinks"} \cup Models
    /\ row' = [a \in Articles |->
                 IF row[a].text = text[a] THEN row[a]
                 ELSE [rev |-> row[a].rev + 1, text |-> text[a]]]
    /\ Release(p, "synced")
    /\ UNCHANGED <<text, meta, batches, kept, locked, op, saw, prev, edits,
                   crashes>>

\* rebuild_metadata_inner and rebuild_backlinks_compat after their sync.
Second == [rebuild |-> "publish all", backlinks |-> "publish backlinks"]

Reenter(p) ==
    /\ at[p] = "synced" /\ op[p] \in DOMAIN Second /\ lock = None
    /\ lock' = p /\ Goto(p, "replay")
    /\ op' = [op EXCEPT ![p] = Second[@]]
    /\ UNCHANGED <<library, cursor, saw, prev, raced, edits, crashes>>

\* The batch is recorded in the section that replayed, then carried out.
Recording(p, o) ==
    /\ at[p] = "act" /\ op[p] = o /\ Len(batches) < MaxBatches
    /\ op' = [op EXCEPT ![p] = "open"]
    /\ Goto(p, "replay")
    /\ UNCHANGED <<text, row, meta, locked, lock, cursor, saw, prev, raced,
                   edits, crashes>>

RecordAll(p) ==
    /\ Recording(p, "publish all")
    /\ Commit(Rebuilt) /\ UNCHANGED kept

\* rebuild_backlinks_compat renews one file and leaves the manifest alone.
RecordBacklinks(p) ==
    /\ Recording(p, "publish backlinks")
    /\ Commit(<<Artifact("backlinks", meta["backlinks"],
                         <<"view", Snapshot>>, {})>>)
    /\ UNCHANGED kept

\* write_compile_sources_compat: a private list, without revisions.
RecordSources(p) ==
    /\ Recording(p, "sources")
    /\ Commit(<<Artifact("sources", meta["sources"],
                         <<"keys", Number>>, {})>>)
    /\ UNCHANGED kept

\* mutate_trails reads, changes and writes under one lock, so a trail that was
\* saved meanwhile is not lost.
TrailBatch == <<Artifact("trails", meta["trails"], <<"trail", Number>>, {})>>

RecordTrails(p) ==
    /\ Recording(p, "trail")
    /\ Commit(TrailBatch) /\ KeepBoth(TrailBatch)

\* A generation takes its inputs and the files as they are, and lets go.
Captures(p, o) ==
    /\ at[p] = "synced" /\ op[p] = o /\ lock = None
    /\ Live /\ Snapshot # {}
    /\ saw' = [saw EXCEPT ![p] = Snapshot]
    /\ prev' = [prev EXCEPT ![p] = meta]
    /\ Goto(p, "model")
    /\ UNCHANGED <<library, lock, cursor, op, raced, edits, crashes>>

CaptureTaxonomy(p)     == ~locked /\ Captures(p, "taxonomy")
CaptureEntities(p)     == Captures(p, "entities")
CaptureIntroduction(p) == Captures(p, "xici")

\* check_inputs, and the files still as they were; then the revisions and the
\* batch in one transaction.  The lock is held, but nothing is replayed
\* before the batch is recorded.
Publishes(p, o, files) ==
    /\ at[p] = "model" /\ op[p] = o /\ lock = None /\ Len(batches) < MaxBatches
    /\ Live /\ Snapshot = saw[p]
    /\ \A f \in Range(files) : meta[f] = prev[p][f]
    /\ LET made == [i \in DOMAIN files |->
                      Artifact(files[i], prev[p][files[i]],
                               <<"model", <<Number, saw[p]>>>>, saw[p])]
       IN  Commit(made) /\ KeepBoth(made)
    /\ lock' = p /\ Goto(p, "replay") /\ Forget(p)
    /\ op' = [op EXCEPT ![p] = "open"]
    /\ UNCHANGED <<text, row, meta, locked, cursor, raced, edits, crashes>>

\* taxonomy_inner: what a person locked in the meantime is not replaced.
PublishTaxonomy(p) == ~locked /\ Publishes(p, "taxonomy", <<"taxonomy">>)

PublishEntities(p) == Publishes(p, "entities", <<"entities">>)

\* xici_inner reuses the base text made from the same articles; otherwise it
\* writes the base and the language file in one batch.
PublishIntroduction(p) ==
    LET reused == prev[p]["base"][1] = "model" /\ prev[p]["base"][2][2] = saw[p]
    IN  Publishes(p, "xici", IF reused THEN <<"lang">> ELSE <<"base", "lang">>)

\* Busy, a refusal by one of the checks above, a failing model, a cancelled
\* request or a lost lease: the operation ends and has recorded nothing.
GiveUp(p) ==
    /\ at[p] \in {"synced", "model"}
    /\ Goto(p, "idle") /\ Forget(p)
    /\ op' = [op EXCEPT ![p] = "open"]
    /\ UNCHANGED <<library, lock, cursor, raced, edits, crashes>>

-----------------------------------------------------------------------------
(* recover_projections_locked.                                             *)

ChecksRowOnly(a) == \A g \in a.guards : row[g[1]] = g[2]

\* Every article behind a model's text is as the model saw it.
Guarded(a) == \A g \in a.guards : /\ row[g[1]] = g[2]
                                  /\ text[g[1]] = g[2].text

\* install_projection overwrites only what the batch was recorded against.
Expected(a) == meta[a.file] = a.expected

Current == batches[Next1].artifacts[cursor]

\* The guards and the present bytes of one file are checked.
Check(p) ==
    /\ at[p] = "replay" /\ Pending # {}
    /\ cursor <= Len(batches[Next1].artifacts)
    /\ Guarded(Current)
    /\ \/ /\ meta[Current.file] = Current.content
          /\ cursor' = cursor + 1 /\ UNCHANGED at
       \/ /\ meta[Current.file] # Current.content /\ Expected(Current)
          /\ Goto(p, "install") /\ UNCHANGED cursor
    /\ raced' = {}
    /\ UNCHANGED <<library, lock, op, saw, prev, edits, crashes>>

\* The staged file takes the place of the old one.
Install(p) ==
    /\ at[p] = "install"
    /\ meta' = [meta EXCEPT ![Current.file] = Current.content]
    /\ cursor' = cursor + 1
    /\ Goto(p, "replay")
    /\ UNCHANGED <<text, row, batches, kept, locked, lock, op, saw, prev, raced,
                   edits, crashes>>

Complete(p) ==
    /\ at[p] = "replay" /\ Pending # {}
    /\ cursor > Len(batches[Next1].artifacts)
    /\ batches' = [batches EXCEPT ![Next1].done = TRUE]
    /\ cursor' = 1
    /\ UNCHANGED <<text, row, meta, kept, locked, lock, at, op, saw, prev, raced,
                   edits, crashes>>

\* Conflict: the batch stays pending and the operation, an open too, fails.
Refuse(p) ==
    /\ at[p] = "replay" /\ Pending # {}
    /\ cursor <= Len(batches[Next1].artifacts)
    /\ \/ ~Guarded(Current)
       \/ meta[Current.file] # Current.content /\ ~Expected(Current)
    /\ Release(p, "idle")
    /\ op' = [op EXCEPT ![p] = "open"]
    /\ UNCHANGED <<library, saw, prev, edits, crashes>>

-----------------------------------------------------------------------------
(* Crashes, I/O errors that a locked section returns, and people.          *)

Crash(p) ==
    /\ at[p] # "idle" /\ crashes < MaxCrashes
    /\ crashes' = crashes + 1
    /\ IF lock = p THEN Release(p, "idle")
       ELSE Goto(p, "idle") /\ UNCHANGED <<lock, cursor, raced>>
    /\ Forget(p) /\ op' = [op EXCEPT ![p] = "open"]
    /\ UNCHANGED <<library, edits>>

EditArticle(a, t) ==
    /\ edits < MaxEdits /\ t # text[a]
    /\ text' = [text EXCEPT ![a] = t]
    /\ edits' = edits + 1 /\ raced' = raced \cup {<<"article", a>>}
    /\ UNCHANGED <<row, meta, batches, kept, locked, process, crashes>>

\* A person writes an alias, or any other text, into a derived file.
EditFile(f, a) ==
    /\ edits < MaxEdits
    /\ meta' = [meta EXCEPT ![f] = <<"human", a>>]
    /\ edits' = edits + 1 /\ raced' = raced \cup {<<"file", f>>}
    /\ UNCHANGED <<text, row, batches, kept, locked, process, crashes>>

\* set_taxonomy locks what a person accepted.
LockTaxonomy ==
    /\ ~locked /\ lock = None /\ edits < MaxEdits
    /\ locked' = TRUE /\ edits' = edits + 1
    /\ UNCHANGED <<text, row, meta, batches, kept, process, raced, crashes>>

Step(p) == \/ \E o \in Operations : Start(p, o)
           \/ AfterReplay(p) \/ Scan(p) \/ Reenter(p)
           \/ RecordAll(p) \/ RecordBacklinks(p) \/ RecordSources(p)
           \/ RecordTrails(p) \/ GiveUp(p)
           \/ CaptureTaxonomy(p) \/ CaptureEntities(p) \/ CaptureIntroduction(p)
           \/ PublishTaxonomy(p) \/ PublishEntities(p) \/ PublishIntroduction(p)
           \/ Check(p) \/ Install(p) \/ Complete(p) \/ Refuse(p)
           \/ Crash(p)

Next == \/ \E p \in Procs : Step(p)
        \/ \E a \in Articles, t \in Texts : EditArticle(a, t)
        \/ \E f \in Files, a \in Articles : EditFile(f, a)
        \/ LockTaxonomy

Spec == Init /\ [][Next]_vars

-----------------------------------------------------------------------------
(* Properties.                                                             *)

\* A step of the program, and not one that overtakes a person's edit of f
\* between the check of a file and its replacement.
Replaces(f) == edits' = edits /\ meta'[f] # meta[f] /\ <<"file", f>> \notin raced

\* What the program takes out of a generated file or of the trails, a
\* person's version as much as a model's, is a revision by then, whoever
\* crashed in between (write_generated_metadata_batch_locked,
\* write_trails_compat_locked, install_projection).
KeepsReplaced ==
    \A f \in Generated \cup {"trails"} :
      Replaces(f) /\ meta[f] # Missing => <<f, meta[f]>> \in kept
ReplacedIsKept == [][KeepsReplaced]_vars

\* The manifest, once in place, describes the files beside it: each has the
\* content it lists, or a person's, or that of a later batch
\* (rebuild_metadata_inner puts it last).
WholeGeneration ==
    meta["manifest"][1] = "generation" =>
      LET n == meta["manifest"][2][1]
          listed == meta["manifest"][2][2]
      IN  \A f \in DOMAIN listed :
            \/ meta[f] = listed[f] \/ meta[f][1] = "human"
            \/ \E k \in n+1..Len(batches) :
                 \E a \in Range(batches[k].artifacts) : a.file = f

\* A model's text goes into a file only while every article it was made from
\* is unchanged on disk and still public, also when another process carries
\* the batch out long after (recover_projections_locked).
InstallsFresh ==
    \A f \in Generated :
      Replaces(f) /\ meta'[f][1] = "model" /\ raced = {} =>
        \A g \in meta'[f][2][2] :
          row[g[1]] = g[2] /\ text[g[1]] = g[2].text /\ Public(g[1])
FreshWhenInstalled == [][InstallsFresh]_vars

\* maintenance.md: a replay accepts a file that still is what the journal
\* expects, or already what it intends; it refuses when a person changed
\* the file.  A refusal thus has a person's edit behind it.
RefusesWithCause ==
    (\E p \in Procs : at[p] = "replay" /\ lock = p /\ Refuse(p)) => edits > 0
RefusalHasCause == [][RefusesWithCause]_vars

=============================================================================
