---------------------------- MODULE CompileDrafts ----------------------------
(***************************************************************************)
(* From a raw source to reviewed articles: compile_source and apply_draft  *)
(* of crates/llmbase-core/src/compile.rs, the guarded write they share     *)
(* (recovery.rs), and the compile workflow of compat_workflows.rs, which   *)
(* applies every draft of a source and then marks it compiled.             *)
(*                                                                         *)
(* There is one source and a few articles.  A file is told apart by the    *)
(* origin of its bytes, which stands for its revision and hash.  A guarded *)
(* write is one step here, since it holds the writer lock throughout;      *)
(* SourceStore opens it up.  Editors outside the program change files      *)
(* between any two steps.  The ledger's job is left to JobLedger.          *)
(*                                                                         *)
(* `secret` and `sound` of a file and `seen` of a draft are history: they  *)
(* constrain no step.                                                      *)
(*                                                                         *)
(* SeesAll, SourceGuardOnly, BaseAgain, SessionKept and MarksAnyway are    *)
(* mutants: plausible slips in the operator that follows each, used by no  *)
(* action.                                                                 *)
(***************************************************************************)
EXTENDS Naturals, Sequences, FiniteSets

CONSTANTS Slugs,      \* the articles, by file name
          Marks,      \* the visibility people and other programs write
          Found,      \* the marks of the articles there may be at first
          Batches,    \* what the model may answer
          Invalid,    \* an article prepare_draft rejects on its own
          Absent,     \* no file
          Nothing,
          Compilers,  \* calls that may run at the same time
          MaxEdits, MaxRuns  \* bounds on the run, for model checking only

\* `also` holds the articles a title or alias of this one names.
Article == [slug : Slugs, also : SUBSET Slugs]

\* What the front matter says of visibility.  "odd" is a value of another kind
\* than the field is for: `private: "yes"`, `visibility: 3`.  "unknown" is a string
\* that names no level.
Metadata == [private    : {"no", "yes", "odd"},
             visibility : {"public", "internal", "private", "unknown", "odd"}]

ASSUME MarkAssumption  == Marks \subseteq Metadata /\ Found \subseteq [Slugs -> Marks \cup {Absent}]
ASSUME BatchAssumption ==
    \A b \in Batches : b \in Seq(Article \cup {Invalid}) /\ b # <<>>
ASSUME BoundAssumption == MaxEdits \in Nat /\ MaxRuns \in Nat

VARIABLES raw,      \* the source file
          rawRow,   \* its row in the index
          disk,     \* the article files
          row,      \* their rows
          drafts,   \* compile_drafts and compile_draft_guards, by id
          receipts, \* the reports of compile_receipts, by version of the source
          session,  \* the workflow that holds the writer session, or Nothing
          run,      \* what each compiler is doing
          edits,    \* edits from outside so far
          runs,     \* runs begun
          accepted  \* drafts whose bytes were written

files   == <<raw, rawRow, disk, row>>
tables  == <<drafts, receipts>>
counts  == <<edits, runs>>
vars    == <<files, tables, session, run, counts, accepted>>

Ranks      == 0..2      \* 0 public, 1 internal, 2 private
Largest(S) == CHOOSE m \in S : \A n \in S : n <= m

\* The source as first found, as edited, and as marked by a run.
Versions == 0..(MaxEdits + MaxRuns)
Indices  == UNION {DOMAIN b : b \in Batches}
Ids      == Versions \X Indices

\* Origins: an article of a run, or of "run" 0 an edit.
Origins == (0..MaxRuns) \X Nat
File    == [from : Origins, meta : Metadata, secret : Ranks, sound : BOOLEAN]
Raw     == [from : Versions, meta : Metadata, of : Versions \cup {Nothing}]

Seen    == [Slugs -> File \cup {Absent}]
Guards  == UNION {[S -> File] : S \in SUBSET Slugs}
Stored  == [target : Slugs, base : File \cup {Absent}, version : Raw, applied : BOOLEAN,
            file : File, guards : Guards, seen : Seen]

ASSUME NothingAssumption == Nothing \notin Stored \cup Compilers
ASSUME AbsentAssumption  == Absent \notin File

-----------------------------------------------------------------------------
(* Visibility, three times: the policy of visibility.rs, and the ranks by  *)
(* which compile.rs chooses what to read and restricts what it writes.     *)

Policy(m) == IF m.private # "no" THEN 2
             ELSE IF m.visibility = "public" THEN 0
             ELSE IF m.visibility = "internal" THEN 1 ELSE 2

WellFormed(m) == m.private # "odd" /\ m.visibility \in {"public", "internal", "private"}

\* compile.rs knows `private: true`, and a missing level for any value that is no string.
Level(m) == IF m.private = "yes" THEN "private"
            ELSE IF m.visibility = "odd" THEN "public" ELSE m.visibility

\* metadata_visibility_rank: a level without a name is private.
MetadataRank(m) == IF Level(m) = "public" THEN 0 ELSE IF Level(m) = "internal" THEN 1 ELSE 2

\* prepare_draft's rank: it is public.
DraftRank(m) == IF Level(m) = "private" THEN 2 ELSE IF Level(m) = "internal" THEN 1 ELSE 0

\* The draft keeps its target's metadata, but for the level.
Merged(source, target) ==
    [target EXCEPT !.visibility = IF DraftRank(source) > DraftRank(target)
                                  THEN Level(source) ELSE Level(target)]

\* The metadata of a new article says nothing of visibility.
Unmarked == [private |-> "no", visibility |-> "public"]

-----------------------------------------------------------------------------
\* `secret` is how restricted the policy has all that went into a file, `sound`
\* whether all of it was well-formed.
ByHand(n, m) == [from |-> <<0, n>>, meta |-> m, secret |-> Policy(m), sound |-> WellFormed(m)]
NewRaw(n, m) == [from |-> n, meta |-> m, of |-> Nothing]

Idle == [stage |-> "idle"]

Init == /\ raw \in {NewRaw(0, m) : m \in Marks} /\ rawRow = raw
        /\ \E f \in Found :
              disk = [s \in Slugs |-> IF f[s] = Absent THEN Absent ELSE ByHand(0, f[s])]
        /\ row = disk
        /\ drafts = [id \in Ids |-> Nothing]
        /\ receipts = [v \in Versions |-> Nothing]
        /\ session = Nothing
        /\ run = [c \in Compilers |-> Idle]
        /\ edits = 0 /\ runs = 0
        /\ accepted = {}

-----------------------------------------------------------------------------
(* Files.                                                                  *)

\* Another program edits or deletes an article, or edits the source, whose mark
\* it may leave in place.
EditArticle(s, m) ==
    /\ edits < MaxEdits
    /\ edits' = edits + 1
    /\ disk' = [disk EXCEPT ![s] = ByHand(edits', m)]
    /\ UNCHANGED <<raw, rawRow, row, tables, session, run, runs, accepted>>

DeleteArticle(s) ==
    /\ edits < MaxEdits /\ disk[s] # Absent
    /\ edits' = edits + 1
    /\ disk' = [disk EXCEPT ![s] = Absent]
    /\ UNCHANGED <<raw, rawRow, row, tables, session, run, runs, accepted>>

EditRaw(m) ==
    /\ edits < MaxEdits
    /\ edits' = edits + 1
    /\ \E of \in {Nothing, raw.of} : raw' = [NewRaw(edits', m) EXCEPT !.of = of]
    /\ UNCHANGED <<rawRow, disk, row, tables, session, run, runs, accepted>>

\* Library::sync, refused while a workflow holds the writer session.
Indexed == rawRow' = raw' /\ row' = disk'

Sync ==
    /\ session = Nothing
    /\ UNCHANGED <<raw, disk>> /\ Indexed
    /\ UNCHANGED <<tables, session, run, counts, accepted>>

-----------------------------------------------------------------------------
(* compile_source.                                                         *)

Stage(c, s) == run[c].stage = s
Turn(c, r)  == run' = [run EXCEPT ![c] = r]

Reported(v) == receipts[v] # Nothing
Reusable(v) == Reported(v) /\ receipts[v].ok /\ receipts[v].ids # <<>>

Started(v, flow, s, ids) ==
    [stage |-> s, flow |-> flow, version |-> v, name |-> runs',
     seen |-> [t \in Slugs |-> Absent], batch |-> <<>>, i |-> 1,
     ids |-> ids, targets |-> {}, failed |-> FALSE]

\* A report that succeeded stands for the call; any other is thrown away.
Compile(c, flow) ==
    LET v == rawRow'
    IN  IF Reusable(v.from)
        THEN /\ Turn(c, IF flow THEN Started(v, flow, "apply", receipts[v.from].ids) ELSE Idle)
             /\ UNCHANGED receipts
        ELSE /\ receipts' = [receipts EXCEPT ![v.from] = Nothing]
             /\ Turn(c, Started(v, flow, "read", <<>>))

Begin(c) ==
    /\ Stage(c, "idle") /\ runs < MaxRuns
    /\ runs' = runs + 1
    /\ UNCHANGED files
    /\ Compile(c, FALSE)
    /\ UNCHANGED <<drafts, session, edits, accepted>>

\* Library::list: for a public source, the articles that are public by the policy,
\* and an error if one of them is not public in its file by now.
Listed(v) == {s \in Slugs : /\ row[s] # Absent
                            /\ MetadataRank(v.meta) = 0 => Policy(row[s].meta) = 0}

Listable(v) == MetadataRank(v.meta) = 0 =>
                  \A s \in Listed(v) : disk[s] # Absent /\ Policy(disk[s].meta) = 0

\* Articles that are more restricted than the source stay out of the prompt.
SeesAll(v) == row
Visible(v) == [s \in Slugs |->
                  IF s \in Listed(v) /\ MetadataRank(row[s].meta) <= MetadataRank(v.meta)
                  THEN row[s] ELSE Absent]

Answered(r, b) == [r EXCEPT !.seen = Visible(r.version), !.batch = b, !.stage = "draft"]

\* The model sees them and, some time later, answers with articles.  Nothing is
\* read in between.
Ask(c, b) ==
    /\ Stage(c, "read") /\ Listable(run[c].version)
    /\ Turn(c, Answered(run[c], b))
    /\ UNCHANGED <<files, tables, session, counts, accepted>>

\* resolve_target: the existing articles this one is a version of.
Targets(seen, a) ==
    IF seen[a.slug] # Absent THEN {a.slug} ELSE {s \in a.also : seen[s] # Absent}

Target(seen, a) == CHOOSE s \in Targets(seen, a) \cup {a.slug} :
                      Targets(seen, a) # {} => s \in Targets(seen, a)

Resolves(seen, a) == a # Invalid /\ Cardinality(Targets(seen, a)) <= 1

Consulted(seen) == {s \in Slugs : seen[s] # Absent}

\* prepare_draft: the article merged into its target.
Prepared(r, a) ==
    LET t == Target(r.seen, a)
        base == r.seen[t]
    IN  [target |-> t, base |-> base, version |-> r.version, applied |-> FALSE,
         file |-> [from   |-> <<r.name, r.i>>,
                   meta   |-> Merged(r.version.meta,
                                     IF base = Absent THEN Unmarked ELSE base.meta),
                   secret |-> Largest({Policy(r.version.meta)} \cup
                                      {r.seen[s].secret : s \in Consulted(r.seen)}),
                   sound  |-> /\ WellFormed(r.version.meta)
                              /\ \A s \in Consulted(r.seen) : r.seen[s].sound],
         guards |-> [s \in Consulted(r.seen) \ {t} |-> r.seen[s]],
         seen   |-> r.seen]

\* persist_guarded_compile_draft: whichever draft came first at this index
\* stays, and its guards must be the ones it would get now.
First(old, new) == IF old = Nothing THEN new ELSE old
SameGuards(old, new) == First(old, new).guards = new.guards

\* An article is left out, or its draft is on the report.
Skipped(r) == [r EXCEPT !.i = r.i + 1, !.failed = TRUE]
Drafted(r, id, t) == [r EXCEPT !.i = r.i + 1, !.ids = Append(r.ids, id),
                                !.targets = r.targets \cup {t}]

Draft(c) ==
    LET r  == run[c]
        a  == r.batch[r.i]
        d  == Prepared(r, a)
        id == <<r.version.from, r.i>>
    IN  /\ Stage(c, "draft") /\ r.i <= Len(r.batch)
        /\ IF ~Resolves(r.seen, a) \/ d.target \in r.targets
           THEN Turn(c, Skipped(r)) /\ UNCHANGED drafts
           ELSE /\ SameGuards(drafts[id], d)
                /\ drafts' = [drafts EXCEPT ![id] = First(drafts[id], d)]
                /\ Turn(c, Drafted(r, id, d.target))
        /\ UNCHANGED <<files, receipts, session, counts, accepted>>

\* The request is cancelled between two articles, after some drafts.
CutOff(r) == [r EXCEPT !.batch = SubSeq(@, 1, r.i - 1), !.failed = TRUE]

Cancel(c) ==
    /\ Stage(c, "draft") /\ run[c].i <= Len(run[c].batch) /\ run[c].ids # <<>>
    /\ Turn(c, CutOff(run[c]))
    /\ UNCHANGED <<files, tables, session, counts, accepted>>

\* All articles are handled and some were drafted: the job ends and the
\* receipt gets the report.
Applying(r) == [r EXCEPT !.stage = "apply", !.i = 1]

Report(c) ==
    LET r == run[c]
    IN  /\ Stage(c, "draft") /\ r.i > Len(r.batch) /\ r.ids # <<>>
        /\ receipts' = [receipts EXCEPT ![r.version.from] =
                                           [ids |-> r.ids, ok |-> ~r.failed]]
        /\ Turn(c, IF r.flow THEN Applying(r) ELSE Idle)
        /\ UNCHANGED <<files, drafts, session, counts, accepted>>

\* The call fails or the process dies: the model's error, a cancelled request,
\* no valid article, other guards, a lost lease, an I/O error.  What is stored
\* stays, and a workflow's session goes.
SessionKept(c) == session
Freed(c) == IF session = c THEN Nothing ELSE session

Fail(c) ==
    /\ ~Stage(c, "idle")
    /\ Turn(c, Idle)
    /\ session' = Freed(c)
    /\ UNCHANGED <<files, tables, counts, accepted>>

-----------------------------------------------------------------------------
(* apply_draft.                                                            *)

\* Every guard holds of the row and of the file.
SourceGuardOnly(d) == rawRow = d.version /\ raw = d.version
GuardsHold(d) ==
    /\ rawRow = d.version /\ raw = d.version
    /\ \A s \in DOMAIN d.guards : row[s] = d.guards[s] /\ disk[s] = d.guards[s]

BaseAgain(d) == d.base
Expected(d) == IF d.applied THEN d.file ELSE d.base

\* Bytes that are there already are not written again.
Applicable(id) ==
    LET d == drafts[id]
    IN  /\ d # Nothing /\ GuardsHold(d)
        /\ disk[d.target] \in {d.file, Expected(d)}

Write(id) ==
    /\ disk' = [disk EXCEPT ![drafts[id].target] = drafts[id].file]
    /\ UNCHANGED raw /\ Indexed
    /\ accepted' = accepted \cup {id}

\* A reviewer accepts a draft.  Its status follows in a transaction of its
\* own, or never if the process dies first.
Accept(id) ==
    /\ session = Nothing
    /\ Applicable(id) /\ Write(id)
    /\ UNCHANGED <<tables, session, run, counts>>

Applied(id) == drafts' = [drafts EXCEPT ![id].applied = TRUE]

Note(id) ==
    /\ id \in accepted /\ ~drafts[id].applied
    /\ Applied(id)
    /\ UNCHANGED <<files, receipts, session, run, counts, accepted>>

-----------------------------------------------------------------------------
(* The compile workflow: one source at a time, under the writer session.   *)

BeginFlow(c) ==
    /\ Stage(c, "idle") /\ runs < MaxRuns /\ session = Nothing
    /\ raw.of = Nothing
    /\ runs' = runs + 1
    /\ session' = c
    /\ UNCHANGED <<raw, disk>> /\ Indexed
    /\ Compile(c, TRUE)
    /\ UNCHANGED <<drafts, edits, accepted>>

ToApply(c) == Stage(c, "apply") /\ run[c].i <= Len(run[c].ids)

Written(r) == [r EXCEPT !.stage = "note"]
Noted(r)   == [r EXCEPT !.stage = "apply", !.i = r.i + 1]

\* A draft that cannot be applied is an error of the source.
AcceptNext(c) ==
    LET id == run[c].ids[run[c].i]
    IN  /\ ToApply(c)
        /\ IF Applicable(id) THEN Write(id) /\ Turn(c, Written(run[c]))
           ELSE Turn(c, Skipped(run[c])) /\ UNCHANGED <<files, accepted>>
        /\ UNCHANGED <<tables, session, counts>>

NoteNext(c) ==
    /\ Stage(c, "note")
    /\ Applied(run[c].ids[run[c].i])
    /\ Turn(c, Noted(run[c]))
    /\ UNCHANGED <<files, receipts, session, counts, accepted>>

\* compat_compile_mark: the source says compiled, if it was compiled whole and
\* still is what was compiled.
MarksAnyway(c) == TRUE
Complete(c) == ~run[c].failed

Mark(c) ==
    /\ Stage(c, "apply") /\ run[c].i > Len(run[c].ids)
    /\ IF Complete(c) /\ raw = run[c].version
       THEN /\ raw' = [raw EXCEPT !.from = MaxEdits + run[c].name, !.of = raw.from]
            /\ UNCHANGED disk /\ Indexed
       ELSE UNCHANGED files
    /\ session' = Freed(c)
    /\ Turn(c, Idle)
    /\ UNCHANGED <<tables, counts, accepted>>

Next ==
    \/ \E s \in Slugs : DeleteArticle(s) \/ \E m \in Marks : EditArticle(s, m)
    \/ \E m \in Marks : EditRaw(m)
    \/ Sync
    \/ \E c \in Compilers :
          \/ Begin(c) \/ Draft(c) \/ Cancel(c) \/ Report(c) \/ Fail(c)
          \/ BeginFlow(c) \/ AcceptNext(c) \/ NoteNext(c) \/ Mark(c)
          \/ \E b \in Batches : Ask(c, b)
    \/ \E id \in Ids : Accept(id) \/ Note(id)

Spec == Init /\ [][Next]_vars

-----------------------------------------------------------------------------
(* Properties.                                                             *)

Stages == {"read", "draft", "apply", "note"}

IsDraft(d) ==
    /\ d.target \in Slugs /\ d.base \in File \cup {Absent} /\ d.file \in File
    /\ d.version \in Raw /\ d.applied \in BOOLEAN
    /\ DOMAIN d.guards \subseteq Slugs \ {d.target}

\* Types; a receipt names stored drafts only; a workflow holds the writer
\* session from its first step to its last, and nobody else ever does.
TypeOK ==
    /\ raw \in Raw /\ rawRow \in Raw
    /\ disk \in [Slugs -> File \cup {Absent}] /\ row \in [Slugs -> File \cup {Absent}]
    /\ edits \in Nat /\ runs \in Nat
    /\ \A id \in Ids : drafts[id] # Nothing => IsDraft(drafts[id]) /\ drafts[id].version.from = id[1]
    /\ \A id \in accepted : drafts[id] # Nothing
    /\ \A v \in Versions : Reported(v) =>
          \A k \in DOMAIN receipts[v].ids : drafts[receipts[v].ids[k]] # Nothing
    /\ \A c \in Compilers :
          /\ run[c] = Idle \/ run[c].stage \in Stages
          /\ session = c <=> run[c] # Idle /\ run[c].flow

\* prepare_draft: "A private/internal source must never make its content
\* public by merging."  No article is less restricted, by the policy, than anything
\* that went into it: the source, the text it was merged into, and the
\* descriptions the model saw, if the flags of all of those are well-formed.
NoLeak ==
    /\ TypeOK
    /\ \A s \in Slugs : disk[s] # Absent /\ disk[s].sound =>
                           disk[s].secret <= Policy(disk[s].meta)

\* visibility.rs: "One fail-closed policy for accepted and live metadata across
\* transports."  The same of malformed flags too, which the code does not keep: to
\* prepare_draft a source with `private: "yes"` is a public one.
FailsClosed ==
    \A s \in Slugs : disk[s] # Absent => disk[s].secret <= Policy(disk[s].meta)

\* Bytes reach a file only by the acceptance of a draft, or by hand.
Writes(id) ==
    LET d == drafts[id]
    IN  d # Nothing /\ disk'[d.target] = d.file /\ disk[d.target] # d.file

AcceptedAsReviewedStep ==
    \A id \in Ids : Writes(id) =>
        LET d == drafts[id]
        IN  /\ raw = d.version
            /\ disk[d.target] = d.base
            /\ \A s \in Consulted(d.seen) \ {d.target} : disk[s] = d.seen[s]

\* A draft is published only over the text it was merged into, and while the
\* source and every article its model saw are what the model saw: however many
\* runs, of whichever calls, came to store it.
AcceptedAsReviewed == [][AcceptedAsReviewedStep]_vars

AppliedIsFinalStep == \A id \in Ids : Writes(id) => ~drafts[id].applied

\* "changed accepted bytes are never overwritten as a supposed retry": once a
\* draft reads applied it is not written again, though its file be edited or
\* deleted and the workflow come back to it from a cached report.
AppliedIsFinal == [][AppliedIsFinalStep]_vars

MarkedIsCompleteStep ==
    raw'.of \notin {Nothing, raw.of} =>
        /\ raw.from = raw'.of
        /\ \E c \in Compilers :
              /\ session = c /\ run[c].ids # <<>> /\ run[c].version = raw
              /\ \A k \in DOMAIN run[c].ids : drafts[run[c].ids[k]].applied

\* A source says it is compiled only if this very text was, and every draft of
\* its report has been accepted, some of them perhaps before a crash.
MarkedIsComplete == [][MarkedIsCompleteStep]_vars

\* docs/rust-migration/compile.md: "Partial receipts can be retried; existing
\* deterministically identified drafts are preserved while valid missing
\* articles can be added."  A batch that reports no error has a draft for every
\* article of the answer.
RetryAddsMissing ==
    \A c \in Compilers :
        LET r == run[c]
        IN  Stage(c, "draft") /\ r.i > Len(r.batch) /\ ~r.failed =>
                {Target(r.seen, r.batch[k]) : k \in DOMAIN r.batch}
                    = {drafts[r.ids[k]].target : k \in DOMAIN r.ids}

=============================================================================
