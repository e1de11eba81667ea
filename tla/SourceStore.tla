----------------------------- MODULE SourceStore -----------------------------
(***************************************************************************)
(* Files, write intents and the source index of one library:               *)
(* crates/llmbase-core/src/recovery.rs and the lock, open and sync of      *)
(* crates/llmbase-core/src/store.rs.                                       *)
(*                                                                         *)
(* Every operation holds the kernel's writer lock from its first step to   *)
(* its return, and a second caller is refused (Busy) without effect, so    *)
(* there is one operation under way at most: `stage` says where it is.     *)
(* Each step is one effect another party can see or a crash can separate:  *)
(* a commit to SQLite, a rename or unlink of a file, the read of one file. *)
(* An editor outside the program changes files between any two steps.      *)
(* Crash stands for process death and for an I/O error returned to the     *)
(* caller: both release the lock and leave files and tables as they are.   *)
(*                                                                         *)
(* dirty, seen, touched and raced are history variables: they record what  *)
(* the editor did and constrain no step.                                   *)
(*                                                                         *)
(* NeedsNoSync, WantAnything, SourceStays, NeverUnlinked and               *)
(* ChangedUnlessRevived are mutants: plausible slips in the operator that  *)
(* follows each, used by no action.                                        *)
(***************************************************************************)
EXTENDS Naturals, Sequences, FiniteSets

CONSTANTS Sources,   \* indexable text files, numbered in file-name order
          Assets,    \* .original files: written and replayed, never indexed
          Contents,  \* what a file may hold
          Choices,   \* what callers and the editor give each file, of Contents
          Malformed, \* the contents Document::parse rejects
          Absent,    \* no file
          Ids,       \* source ids (uuids) that may be drawn, numbered
          Prints,    \* parser/chunker fingerprints of the processes' configs
          MaxIntents, MaxEdits  \* bounds on the run, for model checking only

Paths == Sources \cup Assets
Held  == Contents \cup {Absent}

ASSUME FileAssumption ==
    /\ Sources \subseteq Nat /\ Assets \subseteq Nat
    /\ Sources \cap Assets = {}
    /\ Malformed \subseteq Contents
    /\ Absent \notin Contents
    /\ Choices \in [Paths -> SUBSET Contents] /\ Ids \subseteq Nat
ASSUME BoundAssumption == MaxIntents \in Nat /\ MaxEdits \in Nat

VARIABLES file,     \* what each file holds on disk
          intents,  \* table write_intents, in the order committed
          rows,     \* table sources, by id
          captured, \* table revisions, by id and revision
          tombs,    \* table tombstones
          active,   \* passages with active=1: id, revision, fingerprint
          stage,    \* the step the operation holding the writer lock takes next
          own,      \* whether that operation has committed its own intent
          cursor,   \* the intent recover_locked is carrying out
          todo,     \* files sync_locked has yet to read
          scan,     \* what it read
          edits,    \* number of outside edits so far
          dirty,    \* files edited since the published scan last read them
          seen,     \* files read by the scan under way and not edited since
          touched,  \* files edited since the last intent was committed
          raced     \* files edited between the check of a step and its effect

disk   == <<file, edits, dirty, touched, raced>>
tables == <<intents, rows, captured, tombs, active>>
work   == <<stage, own, cursor, todo, scan, seen>>
vars   == <<disk, tables, work>>

\* The operations and their outcome are those of the contract.
View(p) ==
    LET waiting == {k \in DOMAIN intents : ~intents[k].applied}
        k == CHOOSE k \in waiting : TRUE
        i == intents[k].op
    IN  IF waiting = {} \/ p \in touched THEN file[p]
        ELSE IF i.op # "delete" /\ p = i.target THEN i.content
        ELSE IF i.op \in {"delete", "rename"} /\ p = i.path THEN Absent
        ELSE file[p]

Accepted ==
    INSTANCE AcceptedFiles
      WITH view    <- [p \in Paths |-> View(p)],
           log     <- [k \in DOMAIN intents |-> intents[k].op],
           settled <- \A k \in DOMAIN intents : intents[k].applied

Intent == [op : Accepted!Operation, applied : BOOLEAN]
Row    == [path : Sources, rev : Nat \ {0}, content : Contents,
           print : Prints, deleted : BOOLEAN]

Stages == {"free", "load", "ready", "install", "replace", "unlink", "drop",
           "read", "publish", "mark"}

Pending == {k \in DOMAIN intents : ~intents[k].applied}

Unread == [p \in Sources |-> Absent]

Init == /\ file \in [Paths -> Held]
        /\ \A p \in Paths : file[p] \in Choices[p] \cup {Absent}
        /\ intents = <<>>
        /\ rows = << >> /\ captured = << >> /\ tombs = {} /\ active = {}
        /\ stage = "free" /\ own = FALSE /\ cursor = 0
        /\ todo = {} /\ scan = Unread
        /\ edits = 0 /\ dirty = Sources
        /\ seen = {} /\ touched = {} /\ raced = {}

-----------------------------------------------------------------------------
(* The writer lock.                                                        *)

Release == /\ stage' = "free" /\ own' = FALSE /\ cursor' = 0
           /\ todo' = {} /\ scan' = Unread /\ seen' = {}

\* WriterLock::acquire: every operation, and Library::open, starts here and
\* goes on to recover_locked.
Acquire == /\ stage = "free"
           /\ stage' = "load"
           /\ UNCHANGED <<disk, tables, own, cursor, todo, scan, seen>>

\* The process dies, or the operation returns an I/O error.
Crash == /\ stage # "free"
         /\ Release
         /\ raced' = {}
         /\ UNCHANGED <<file, edits, dirty, touched, tables>>

-----------------------------------------------------------------------------
(* recover_locked: carry out every pending intent, index, mark applied.    *)

FirstStep(k) == IF intents[k].op.op = "delete" THEN "unlink" ELSE "install"

StartScan == /\ stage' = "read"
             /\ todo' = Sources /\ scan' = Unread /\ seen' = {}

NeedsNoSync == \E k \in Pending : intents[k].op.op = "write_asset"

\* recover_locked's `any(operation != "write_asset")`.
NeedsSync == \E k \in Pending : intents[k].op.op # "write_asset"

\* Go on with the first pending intent after `done`, or with the index.
Proceed(done) ==
    LET later == {k \in Pending : k > done}
        k == CHOOSE k \in later : \A l \in later : k <= l
    IN  IF later # {}
        THEN /\ cursor' = k /\ stage' = FirstStep(k)
             /\ UNCHANGED <<todo, scan, seen>>
        ELSE /\ cursor' = 0
             /\ IF NeedsSync THEN StartScan
                ELSE stage' = "mark" /\ UNCHANGED <<todo, scan, seen>>

Load == /\ stage = "load"
        /\ IF Pending = {}
           THEN stage' = "ready" /\ UNCHANGED <<cursor, todo, scan, seen>>
           ELSE Proceed(0)
        /\ UNCHANGED <<disk, tables, own>>

WantAnything(i) == file[i.target]

\* The content the target must have for the install to go ahead.
Want(i) == IF i.op = "rename" THEN Absent ELSE i.expected

SourceStays(i) == Proceed(cursor)

\* After an install: a rename goes on to remove its source.
AfterInstall(i) ==
    IF i.op = "rename"
    THEN stage' = "unlink" /\ UNCHANGED <<cursor, todo, scan, seen>>
    ELSE Proceed(cursor)

Current(k) == intents[k].op

\* install up to its temporary file: the bytes may be there already, may be
\* the expected ones, or are a conflict that fails the operation.
Install ==
    LET i == Current(cursor)
    IN  /\ stage = "install"
        /\ IF file[i.target] = i.content THEN AfterInstall(i) /\ UNCHANGED own
           ELSE IF file[i.target] = Want(i)
           THEN stage' = "replace"
                /\ UNCHANGED <<own, cursor, todo, scan, seen>>
           ELSE Release
        /\ UNCHANGED <<disk, tables>>

\* install's rename of the temporary file over the target.
Replace ==
    LET i == Current(cursor)
    IN  /\ stage = "replace"
        /\ file' = [file EXCEPT ![i.target] = i.content]
        /\ raced' = {}
        /\ AfterInstall(i)
        /\ UNCHANGED <<edits, dirty, touched, tables, own>>

\* What `remove` asks of the file: gone already, or there as expected.
CanUnlink(i) == file[i.path] = i.expected
NeverUnlinked(i) == FALSE
IsUnlinked(i) == file[i.path] = Absent

Unlink ==
    LET i == Current(cursor)
    IN  /\ stage = "unlink"
        /\ IF IsUnlinked(i) THEN Proceed(cursor) /\ UNCHANGED own
           ELSE IF CanUnlink(i)
           THEN stage' = "drop" /\ UNCHANGED <<own, cursor, todo, scan, seen>>
           ELSE Release
        /\ UNCHANGED <<disk, tables>>

\* remove_file, which fails if the file has gone since the check.
Drop ==
    LET i == Current(cursor)
    IN  /\ stage = "drop"
        /\ file' = [file EXCEPT ![i.path] = Absent]
        /\ raced' = {}
        /\ IF file[i.path] = Absent THEN Release
           ELSE Proceed(cursor) /\ UNCHANGED own
        /\ UNCHANGED <<edits, dirty, touched, tables>>

Mark ==
    /\ stage = "mark"
    /\ intents' = [k \in DOMAIN intents |-> [intents[k] EXCEPT !.applied = TRUE]]
    /\ IF own THEN Release
       ELSE stage' = "ready" /\ UNCHANGED <<own, cursor, todo, scan, seen>>
    /\ UNCHANGED <<disk, rows, captured, tombs, active>>

-----------------------------------------------------------------------------
(* sync_locked: read every source file, then publish in one transaction.   *)

\* Files are read one after another in name order; one that does not parse
\* fails the whole operation.
Read ==
    \E p \in todo :
        /\ stage = "read"
        /\ \A q \in todo : p <= q
        /\ IF file[p] \in Malformed THEN Release
           ELSE /\ scan' = [scan EXCEPT ![p] = file[p]]
                /\ todo' = todo \ {p} /\ seen' = seen \cup {p}
                /\ stage' = IF todo = {p} THEN "publish" ELSE "read"
                /\ UNCHANGED <<own, cursor>>
        /\ UNCHANGED <<disk, tables>>

Present == {p \in Sources : scan[p] # Absent}

\* The source, live or deleted, whose row has path p.
Holder(p) == {s \in DOMAIN rows : rows[s].path = p}

\* Live sources with this content whose file is no longer there.
Missing(c) == {s \in DOMAIN rows : /\ ~rows[s].deleted
                                   /\ rows[s].content = c
                                   /\ rows[s].path \notin Present}

\* The source a file belongs to, if any: the holder of its path, else the one
\* missing source with its bytes, unless an earlier file has claimed that.
Match(p) ==
    IF Holder(p) # {} THEN Holder(p)
    ELSE IF /\ \E s \in DOMAIN rows : Missing(scan[p]) = {s}
            /\ \A q \in Present :
                   q < p /\ Holder(q) = {} => scan[q] # scan[p]
    THEN Missing(scan[p])
    ELSE {}

Unmatched == {p \in Present : Match(p) = {}}

ChangedUnlessRevived(s, p) == rows[s].content # scan[p] \/ rows[s].path # p

\* Whether a source found at p gets a new revision.
Changed(s, p) == \/ rows[s].content # scan[p]
                 \/ rows[s].path # p
                 \/ rows[s].deleted

Revision(s, p) == IF s \notin DOMAIN rows THEN 1
                  ELSE IF Changed(s, p) THEN rows[s].rev + 1 ELSE rows[s].rev

\* The passages and revisions the transaction leaves, given those rewritten.
Passages(retired, written) == {a \in active : a[1] \notin retired} \cup written

\* INSERT OR IGNORE INTO revisions.
Capture(new) ==
    [k \in DOMAIN captured \cup DOMAIN new |->
        IF k \in DOMAIN captured THEN captured[k] ELSE new[k]]

\* Uuids are drawn; which is which does not matter, so they are numbered.
Drawn == {f \in [Unmatched -> Ids \ DOMAIN rows] :
             /\ \A p, q \in Unmatched : p < q => f[p] < f[q]
             /\ \A p \in Unmatched, i \in Ids \ DOMAIN rows :
                    i < f[p] => \E q \in Unmatched : f[q] = i}

Identity(fresh) == [p \in Present |-> IF p \in Unmatched THEN fresh[p]
                                      ELSE CHOOSE s \in Match(p) : TRUE]

\* The rows of what was found.
Found(id, print) ==
    [s \in {id[p] : p \in Present} |->
        LET p == CHOOSE q \in Present : id[q] = s
        IN  [path |-> p, rev |-> Revision(s, p), content |-> scan[p],
             print |-> print, deleted |-> FALSE]]

\* The transaction: a source that is not found is gone, one that is found as
\* its row says is skipped.
Index(new) ==
    LET gone    == {s \in DOMAIN rows \ DOMAIN new : ~rows[s].deleted}
        written == {s \in DOMAIN new : s \in DOMAIN rows => rows[s] # new[s]}
    IN  /\ rows' = [s \in DOMAIN rows \cup DOMAIN new |->
                       IF s \in DOMAIN new THEN new[s]
                       ELSE [rows[s] EXCEPT !.deleted = TRUE]]
        /\ captured' = Capture([k \in {<<s, new[s].rev>> : s \in written} |->
                          [content |-> new[k[1]].content,
                           path    |-> new[k[1]].path]])
        /\ tombs' = tombs \cup {<<s, rows[s].rev>> : s \in gone}
        /\ active' = Passages(gone \cup written,
                              {<<s, new[s].rev, new[s].print>> : s \in written})

Publish ==
    \E print \in Prints, fresh \in Drawn :
        /\ stage = "publish"
        /\ Index(Found(Identity(fresh), print))
        /\ dirty' = dirty \ seen
        /\ IF Pending = {} THEN Release
           ELSE /\ stage' = "mark" /\ scan' = Unread /\ seen' = {}
                /\ UNCHANGED <<own, cursor, todo>>
        /\ UNCHANGED <<file, edits, touched, raced, intents>>

-----------------------------------------------------------------------------
(* The operations, once recover_locked has left nothing pending.           *)

\* Library::open is done, or a check of the operation failed.
Return == /\ stage = "ready"
          /\ Release
          /\ UNCHANGED <<disk, tables>>

\* Library::sync; and a guarded write whose bytes are already in place.
Sync == /\ stage = "ready"
        /\ StartScan
        /\ UNCHANGED <<disk, tables, own, cursor>>

\* record_intent, after which recover_locked runs again.
Record(i) == /\ stage = "ready"
             /\ Len(intents) < MaxIntents
             /\ intents' = Append(intents, [op |-> i, applied |-> FALSE])
             /\ touched' = {}
             /\ own' = TRUE /\ stage' = "load"
             /\ UNCHANGED <<file, edits, dirty, raced, rows, captured, tombs,
                            active, cursor, todo, scan, seen>>

\* write_source: a create or compare-and-swap of parseable bytes.
WriteSource ==
    \E p \in Sources : \E c \in Choices[p] \ Malformed :
        Record([op |-> "write", path |-> p, target |-> p,
                expected |-> file[p], content |-> c])

\* write_raw_asset: any bytes, unless the file has them already.
WriteRawAsset ==
    \E p \in Assets : \E c \in Choices[p] :
        /\ file[p] # c
        /\ Record([op |-> "write_asset", path |-> p, target |-> p,
                   expected |-> file[p], content |-> c])

\* The row and the file of a source agree with the caller's expected hash.
IsCurrent(s) == ~rows[s].deleted /\ file[rows[s].path] = rows[s].content

DeleteSource ==
    \E s \in DOMAIN rows :
        /\ IsCurrent(s)
        /\ Record([op |-> "delete", path |-> rows[s].path,
                   target |-> rows[s].path,
                   expected |-> rows[s].content, content |-> Absent])

RenameSource ==
    \E s \in DOMAIN rows, p \in Sources :
        /\ IsCurrent(s)
        /\ file[p] = Absent
        /\ Record([op |-> "rename", path |-> rows[s].path, target |-> p,
                   expected |-> rows[s].content, content |-> rows[s].content])

-----------------------------------------------------------------------------
(* The editor: a person or another program that does not take the lock.    *)

InWindow(p) ==
    \/ stage = "replace" /\ p = Current(cursor).target
    \/ stage = "drop" /\ p = Current(cursor).path

Edited(ps) == /\ edits < MaxEdits
              /\ edits' = edits + 1
              /\ dirty' = dirty \cup (ps \cap Sources)
              /\ touched' = touched \cup ps
              /\ raced' = raced \cup {p \in ps : InWindow(p)}
              /\ seen' = seen \ ps
              /\ UNCHANGED <<tables, stage, own, cursor, todo, scan>>

Edit == \E p \in Paths : \E c \in Choices[p] \cup {Absent} :
            /\ c # file[p]
            /\ file' = [file EXCEPT ![p] = c]
            /\ Edited({p})

Move == \E p, q \in Sources :
            /\ file[p] # Absent /\ file[q] = Absent
            /\ file' = [file EXCEPT ![p] = Absent, ![q] = file[p]]
            /\ Edited({p, q})

Step == \/ Load \/ Install \/ Replace \/ Unlink \/ Drop \/ Mark
        \/ Read \/ Publish
Call == Return \/ Sync \/ WriteSource \/ WriteRawAsset \/ DeleteSource
        \/ RenameSource

Next == Acquire \/ Crash \/ Step \/ Call \/ Edit \/ Move

Spec == Init /\ [][Next]_vars

\* The library keeps being opened, and an operation that runs goes on.
FairSpec == Spec /\ WF_vars(Acquire) /\ WF_vars(Step)

-----------------------------------------------------------------------------
(* Properties.                                                             *)

\* Types of the variables; each step only works on what it was given.
TypeOK ==
    /\ file \in [Paths -> Held]
    /\ intents \in Seq(Intent)
    /\ DOMAIN rows \subseteq Ids /\ rows \in [DOMAIN rows -> Row]
    /\ DOMAIN captured \subseteq Ids \X (Nat \ {0})
    /\ captured \in [DOMAIN captured -> [content : Contents, path : Sources]]
    /\ tombs \subseteq Ids \X (Nat \ {0})
    /\ active \subseteq Ids \X (Nat \ {0}) \X Prints
    /\ stage \in Stages /\ own \in BOOLEAN
    /\ cursor \in DOMAIN intents \cup {0}
    /\ todo \subseteq Sources
    /\ scan \in [Sources -> Held \ Malformed]
    /\ edits \in Nat
    /\ dirty \subseteq Sources /\ seen \subseteq Sources
    /\ touched \subseteq Paths /\ raced \subseteq Paths

\* No two rows of `sources` hold one path, so the transaction of a sync never
\* runs into UNIQUE(library_id, kind, rel_path), whatever was deleted, moved,
\* revived or edited during the scan.
UniquePaths ==
    \A s, t \in DOMAIN rows : rows[s].path = rows[t].path => s = t

\* The revision a row names was captured with exactly the bytes and the path
\* of the row: INSERT OR IGNORE never meets a number used for other bytes.  A
\* deleted source has the tombstone of its last revision, and one that came
\* back has a revision newer than all of its tombstones, so evidence for a
\* deleted revision never reads as current.
RevisionsAreExact ==
    /\ \A s \in DOMAIN rows :
          LET k == <<s, rows[s].rev>>
          IN  /\ k \in DOMAIN captured
              /\ captured[k] = [content |-> rows[s].content, path |-> rows[s].path]
              /\ rows[s].deleted => k \in tombs
    /\ \A t \in tombs : rows[t[1]].deleted \/ rows[t[1]].rev > t[2]

\* Search sees exactly the passages of the current revision of each live
\* source, cut with the fingerprint its row names.
ActiveIsCurrent ==
    active = {<<s, rows[s].rev, rows[s].print>> :
                  s \in {t \in DOMAIN rows : ~rows[t].deleted}}

\* With no intent pending the index agrees with the disk on every file that
\* was not edited by hand since it was last read: no accepted write is lost
\* from the index by a crash at any point of installing, indexing, marking;
\* and the index agrees with itself.
IndexAgreesWithDisk ==
    /\ TypeOK /\ UniquePaths /\ ActiveIsCurrent
    /\ Pending = {} =>
         \A p \in Sources \ dirty :
            LET live == {s \in Holder(p) : ~rows[s].deleted}
            IN  IF file[p] = Absent THEN live = {}
                ELSE \E s \in live : rows[s].content = file[p]

\* The program replaces or removes a file only if it holds what the intent
\* expects, or was edited after that was checked, between check and rename.
ExpectedBy(i, p) == IF i.op = "rename" /\ p = i.target THEN Absent
                    ELSE i.expected
EditKeptOutsideWindowStep ==
    \A p \in Paths :
        file'[p] # file[p] /\ edits' = edits =>
            p \in raced \/ file[p] = ExpectedBy(Current(cursor), p)
EditKeptOutsideWindow == [][EditKeptOutsideWindowStep]_vars

\* Each accepted operation takes effect once, as a whole and from the content
\* it was accepted against, across crashes and replays (module AcceptedFiles).
ImplementsAcceptedFiles == Accepted!AcceptedSpec

\* What stops an intent: a file of its own that holds neither the expected
\* nor the accepted content, or a source file that does not parse.
Stuck(k) ==
    LET i == Current(k)
    IN  \/ i.op # "delete" /\ file[i.target] \notin {i.content, Want(i)}
        \/ i.op \in {"delete", "rename"}
             /\ file[i.path] \notin {Absent, i.expected}
        \/ i.op # "write_asset" /\ \E p \in Sources : file[p] \in Malformed

\* A pending intent is carried out, once crashes and edits stop, unless a
\* conflict or an unreadable file stands in its way.
PendingSettles ==
    <>[][Acquire \/ Step \/ Call]_vars =>
        []<>(\A k \in Pending : Stuck(k))

\* architecture.md: "Source IDs are durable within a bound library_id".
\* Refuted for a rename, even when nobody edits a file by hand: its
\* destination may be the path of a deleted source, whose id it then takes.
RenameKeepsId ==
    [][\A k \in Pending, s \in DOMAIN rows :
           /\ stage = "publish"
           /\ stage' = "mark"
           /\ edits = 0
           /\ Current(k).op = "rename"
           /\ rows[s].path = Current(k).path
           /\ ~rows[s].deleted
           => rows'[s].path = Current(k).target]_vars

=============================================================================
