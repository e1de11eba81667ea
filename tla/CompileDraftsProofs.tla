------------------------- MODULE CompileDraftsProofs --------------------------
(***************************************************************************)
(* Theorems about CompileDrafts, for all articles, answers and compilers,  *)
(* any number of edits and runs.                                           *)
(***************************************************************************)
EXTENDS CompileDrafts, SequenceTheorems, TLAPS

Runs ==
    [stage : Stages, flow : BOOLEAN, version : Raw, name : Nat, seen : Seen,
     batch : Seq(Article \cup {Invalid}), i : Nat, ids : Seq(Ids), targets : SUBSET Slugs,
     failed : BOOLEAN]

Receipt == [ids : Seq(Ids), ok : BOOLEAN]

Types ==
    /\ raw \in Raw /\ rawRow \in Raw
    /\ disk \in Seen /\ row \in Seen
    /\ edits \in 0..MaxEdits /\ runs \in 0..MaxRuns
    /\ drafts \in [Ids -> Stored \cup {Nothing}]
    /\ receipts \in [Versions -> Receipt \cup {Nothing}]
    /\ session \in Compilers \cup {Nothing}
    /\ run \in [Compilers -> Runs \cup {Idle}]
    /\ accepted \subseteq Ids

Busy(c) == run[c].stage # "idle"

-----------------------------------------------------------------------------
\* A compiler is idle or has a run.
LEMMA IdleOrRun ==
  ASSUME Types, NEW c \in Compilers
  PROVE  /\ run[c] = Idle <=> run[c].stage = "idle"
         /\ Busy(c) <=> run[c] \in Runs
         /\ Busy(c) => run[c].stage \in Stages
<1>1. Idle.stage = "idle"
  BY DEF Idle
<1>2. run[c] \in Runs \/ run[c] = Idle
  BY DEF Types
<1>3. ASSUME NEW r \in Runs PROVE r.stage \in Stages /\ r.stage # "idle"
  BY DEF Runs, Stages
<1> QED
  BY <1>1, <1>2, <1>3 DEF Busy

\* What the updates of a run leave alone.
LEMMA AnsweredRun ==
  ASSUME NEW r \in Runs, NEW b \in Seq(Article \cup {Invalid}), row \in Seen
  PROVE  LET q == Answered(r, b)
         IN  /\ q \in Runs /\ q.stage = "draft" /\ q.flow = r.flow /\ q.version = r.version
             /\ q.name = r.name /\ q.seen = Visible(r.version) /\ q.batch = b /\ q.i = r.i
             /\ q.ids = r.ids /\ q.failed = r.failed
<1>1. Visible(r.version) \in Seen
  BY DEF Visible, Seen, Listed
<1> QED
  BY <1>1 DEF Answered, Runs, Stages

LEMMA SkippedRun ==
  ASSUME NEW r \in Runs
  PROVE  LET q == Skipped(r)
         IN  /\ q \in Runs /\ q.stage = r.stage /\ q.flow = r.flow /\ q.version = r.version
             /\ q.name = r.name /\ q.seen = r.seen /\ q.batch = r.batch /\ q.i = r.i + 1
             /\ q.ids = r.ids /\ q.failed
<1>1. r.i + 1 \in Nat
  BY DEF Runs
<1> QED
  BY <1>1 DEF Skipped, Runs

LEMMA DraftedRun ==
  ASSUME NEW r \in Runs, NEW id \in Ids, NEW t \in Slugs
  PROVE  LET q == Drafted(r, id, t)
         IN  /\ q \in Runs /\ q.stage = r.stage /\ q.flow = r.flow /\ q.version = r.version
             /\ q.name = r.name /\ q.seen = r.seen /\ q.batch = r.batch /\ q.i = r.i + 1
             /\ q.ids = Append(r.ids, id) /\ q.failed = r.failed
<1>1. /\ Append(r.ids, id) \in Seq(Ids) /\ r.targets \cup {t} \in SUBSET Slugs
      /\ r.i + 1 \in Nat
  BY DEF Runs
<1> QED
  BY <1>1 DEF Drafted, Runs

LEMMA CutOffRun ==
  ASSUME NEW r \in Runs, r.i <= Len(r.batch), r.i >= 1
  PROVE  LET q == CutOff(r)
         IN  /\ q \in Runs /\ q.stage = r.stage /\ q.flow = r.flow /\ q.version = r.version
             /\ q.name = r.name /\ q.seen = r.seen /\ DOMAIN q.batch \subseteq DOMAIN r.batch
             /\ q.i = r.i /\ q.ids = r.ids /\ q.failed
<1>1. /\ r.batch \in Seq(Article \cup {Invalid}) /\ r.i \in Nat /\ Len(r.batch) \in Nat
      /\ DOMAIN r.batch = 1..Len(r.batch)
  BY LenProperties DEF Runs
<1>2. /\ SubSeq(r.batch, 1, r.i - 1) \in Seq(Article \cup {Invalid})
      /\ DOMAIN SubSeq(r.batch, 1, r.i - 1) \subseteq DOMAIN r.batch
  BY <1>1, SubSeqProperties
<1> QED
  BY <1>2 DEF CutOff, Runs

LEMMA ApplyingRun ==
  ASSUME NEW r \in Runs
  PROVE  LET q == Applying(r)
         IN  /\ q \in Runs /\ q.stage = "apply" /\ q.flow = r.flow /\ q.version = r.version
             /\ q.name = r.name /\ q.seen = r.seen /\ q.batch = r.batch /\ q.i = 1
             /\ q.ids = r.ids /\ q.failed = r.failed
  BY DEF Applying, Runs, Stages

LEMMA WrittenRun ==
  ASSUME NEW r \in Runs
  PROVE  LET q == Written(r)
         IN  /\ q \in Runs /\ q.stage = "note" /\ q.flow = r.flow /\ q.version = r.version
             /\ q.name = r.name /\ q.seen = r.seen /\ q.batch = r.batch /\ q.i = r.i
             /\ q.ids = r.ids /\ q.failed = r.failed
  BY DEF Written, Runs, Stages

LEMMA NotedRun ==
  ASSUME NEW r \in Runs
  PROVE  LET q == Noted(r)
         IN  /\ q \in Runs /\ q.stage = "apply" /\ q.flow = r.flow /\ q.version = r.version
             /\ q.name = r.name /\ q.seen = r.seen /\ q.batch = r.batch /\ q.i = r.i + 1
             /\ q.ids = r.ids /\ q.failed = r.failed
<1>1. r.i + 1 \in Nat
  BY DEF Runs
<1> QED
  BY <1>1 DEF Noted, Runs, Stages

LEMMA StartedRun ==
  ASSUME NEW v \in Raw, NEW flow \in BOOLEAN, NEW s \in Stages, NEW ids \in Seq(Ids),
         runs' \in Nat
  PROVE  LET q == Started(v, flow, s, ids)
         IN  /\ q \in Runs /\ q.stage = s /\ q.flow = flow /\ q.version = v
             /\ q.name = runs' /\ q.batch = <<>> /\ q.i = 1 /\ q.ids = ids /\ ~q.failed
             /\ \A t \in Slugs : q.seen[t] = Absent
  BY DEF Started, Runs, Seen

-----------------------------------------------------------------------------
\* A file of well-formed parts is well-formed, and as restricted as what went into it.
Tight(f) == f # Absent /\ f.sound => WellFormed(f.meta) /\ f.secret <= Policy(f.meta)

\* What a run may read of its articles.
Readable(r) ==
    \A s \in Slugs : r.seen[s] # Absent =>
        Tight(r.seen[s]) /\ MetadataRank(r.seen[s].meta) <= MetadataRank(r.version.meta)

\* What a run knows of its answer, its drafts and what it may read.
RunIsSane(c) ==
    LET r == run[c]
    IN  Busy(c) =>
          /\ DOMAIN r.batch \subseteq Indices /\ r.i >= 1
          /\ r.name >= 1 /\ r.name <= runs
          /\ \A k \in DOMAIN r.ids : drafts[r.ids[k]] # Nothing
          /\ Readable(r)
          /\ r.stage \in {"apply", "note"} =>
                /\ r.flow /\ r.ids # <<>>
                /\ r.failed \/ \A k \in DOMAIN r.ids : k < r.i => drafts[r.ids[k]].applied
          /\ r.stage = "note" => r.i <= Len(r.ids)

\* A draft is of the run and the place its bytes are of, is no more public than
\* what it was made of, and guards what its run saw.
DraftIsSane(id) ==
    LET d == drafts[id]
    IN  d # Nothing =>
          /\ d.version.from = id[1] /\ d.file.from[2] = id[2]
          /\ d.file.from[1] >= 1 /\ d.file.from[1] <= runs
          /\ Tight(d.file)
          /\ d.guards = [s \in Consulted(d.seen) \ {d.target} |-> d.seen[s]]

\* A run is named once, and reads one version of the source.
NamesAreOwn ==
    /\ \A id, jd \in Ids :
          drafts[id] # Nothing /\ drafts[jd] # Nothing
            /\ drafts[id].file.from[1] = drafts[jd].file.from[1] => id[1] = jd[1]
    /\ \A c \in Compilers : Busy(c) =>
          /\ \A d \in Compilers : Busy(d) /\ run[d].name = run[c].name => d = c
          /\ \A id \in Ids :
                drafts[id] # Nothing /\ drafts[id].file.from[1] = run[c].name
                  => id[1] = run[c].version.from

FilesAreTight == \A s \in Slugs : Tight(disk[s]) /\ Tight(row[s])

\* What is accepted or reported is stored.
KeptIsStored ==
    /\ \A id \in accepted : drafts[id] # Nothing
    /\ \A v \in Versions : Reported(v) =>
          \A k \in DOMAIN receipts[v].ids : drafts[receipts[v].ids[k]] # Nothing

\* The writer session is with the workflow that runs.
SessionIsFlow == \A c \in Compilers : session = c <=> Busy(c) /\ run[c].flow

IInv ==
    /\ Types /\ KeptIsStored /\ SessionIsFlow /\ FilesAreTight /\ NamesAreOwn
    /\ \A c \in Compilers : RunIsSane(c)
    /\ \A id \in Ids : DraftIsSane(id)

-----------------------------------------------------------------------------
\* Stored drafts stay, but for being applied.
DraftsStay ==
    /\ drafts' \in [Ids -> Stored \cup {Nothing}]
    /\ \A id \in Ids : drafts[id] # Nothing =>
          /\ drafts'[id] # Nothing
          /\ drafts'[id].file = drafts[id].file /\ drafts'[id].version = drafts[id].version
          /\ drafts'[id].target = drafts[id].target /\ drafts'[id].base = drafts[id].base
          /\ drafts'[id].guards = drafts[id].guards /\ drafts'[id].seen = drafts[id].seen
          /\ drafts[id].applied => drafts'[id].applied

NoneStored == \A id \in Ids : drafts'[id] # Nothing => drafts[id] # Nothing

LEMMA AsTheyAre == ASSUME Types, UNCHANGED drafts PROVE DraftsStay /\ NoneStored
  BY DEF Types, DraftsStay, NoneStored

\* Marking a draft applied.
LEMMA AppliedDraft ==
  ASSUME Types, NEW id \in Ids, drafts[id] # Nothing, Applied(id)
  PROVE  DraftsStay /\ NoneStored /\ drafts'[id].applied
<1>1. drafts[id] \in Stored
  BY DEF Types
<1>2. /\ [drafts[id] EXCEPT !.applied = TRUE] \in Stored
      /\ [drafts[id] EXCEPT !.applied = TRUE].file = drafts[id].file
      /\ [drafts[id] EXCEPT !.applied = TRUE].version = drafts[id].version
      /\ [drafts[id] EXCEPT !.applied = TRUE].target = drafts[id].target
      /\ [drafts[id] EXCEPT !.applied = TRUE].base = drafts[id].base
      /\ [drafts[id] EXCEPT !.applied = TRUE].guards = drafts[id].guards
      /\ [drafts[id] EXCEPT !.applied = TRUE].seen = drafts[id].seen
      /\ [drafts[id] EXCEPT !.applied = TRUE].applied
  BY <1>1 DEF Stored
<1>3. /\ drafts' \in [Ids -> Stored \cup {Nothing}]
      /\ drafts'[id] = [drafts[id] EXCEPT !.applied = TRUE]
      /\ \A jd \in Ids : jd # id => drafts'[jd] = drafts[jd]
  BY <1>2, Zenon DEF Types, Applied
<1> QED
  BY <1>2, <1>3, NothingAssumption DEF DraftsStay, NoneStored

\* A run whose compiler does nothing stays sane.
LEMMA RunStaysSane ==
  ASSUME Types, DraftsStay, runs <= runs', runs \in Nat, runs' \in Nat,
         NEW c \in Compilers, RunIsSane(c), run'[c] = run[c]
  PROVE  RunIsSane(c)'
<1>1. CASE Busy(c)
  <2>1. run[c] \in Runs
    BY <1>1, IdleOrRun
  <2>2. run[c].ids \in Seq(Ids) /\ run[c].name \in Nat
    BY <2>1 DEF Runs
  <2>3. \A k \in DOMAIN run[c].ids : run[c].ids[k] \in Ids
    BY <2>2, ElementOfSeq, LenProperties
  <2>4. run[c].name <= runs => run[c].name <= runs'
    BY <2>2
  <2>5. \A k \in DOMAIN run[c].ids : drafts[run[c].ids[k]] # Nothing =>
            /\ drafts'[run[c].ids[k]] # Nothing
            /\ drafts[run[c].ids[k]].applied => drafts'[run[c].ids[k]].applied
    BY <2>3 DEF DraftsStay
  <2> QED
    BY <1>1, <2>4, <2>5 DEF RunIsSane, Busy
<1>2. CASE ~Busy(c)
  BY <1>2 DEF RunIsSane, Busy
<1> QED
  BY <1>1, <1>2

\* So does a draft.
LEMMA DraftStaysSane ==
  ASSUME Types, DraftsStay, runs <= runs', runs \in Nat, runs' \in Nat,
         NEW id \in Ids, DraftIsSane(id), drafts'[id] # Nothing => drafts[id] # Nothing
  PROVE  DraftIsSane(id)'
<1>1. CASE drafts[id] # Nothing
  <2>1. drafts[id] \in Stored
    BY <1>1 DEF Types
  <2>2. drafts[id].file.from[1] \in Nat
    BY <2>1 DEF Stored, File, Origins
  <2> QED
    BY <1>1, <2>2 DEF DraftIsSane, DraftsStay
<1>2. CASE drafts[id] = Nothing
  BY <1>2 DEF DraftIsSane
<1> QED
  BY <1>1, <1>2

\* The run goes on with the version it reads, or ends.
Continues(c) ==
    Busy(c)' => Busy(c) /\ run'[c].name = run[c].name /\ run'[c].version = run[c].version

LEMMA Keeps ==
  ASSUME IInv, Types', KeptIsStored', SessionIsFlow', FilesAreTight', DraftsStay, NoneStored,
         runs <= runs', \A c \in Compilers : RunIsSane(c)' /\ Continues(c)
  PROVE  IInv'
<1>1. runs \in Nat /\ runs' \in Nat
  BY BoundAssumption DEF IInv, Types
<1>2. \A id \in Ids : DraftIsSane(id)'
  BY <1>1, DraftStaysSane DEF IInv, NoneStored
<1>3. NamesAreOwn'
  BY DEF IInv, NamesAreOwn, Continues, DraftsStay, NoneStored
<1> QED
  BY <1>2, <1>3 DEF IInv

\* The same where no run does anything.
LEMMA KeepsRuns ==
  ASSUME IInv, Types', KeptIsStored', FilesAreTight', DraftsStay, NoneStored,
         UNCHANGED <<runs, run, session>>
  PROVE  IInv'
<1>1. runs \in Nat /\ runs' \in Nat /\ runs <= runs'
  BY BoundAssumption DEF IInv, Types
<1>2. \A c \in Compilers : RunIsSane(c)' /\ Continues(c)
  BY <1>1, RunStaysSane DEF IInv, Continues, Busy
<1>3. SessionIsFlow'
  BY DEF IInv, SessionIsFlow, Busy
<1> QED
  BY <1>1, <1>2, <1>3, Keeps

\* And where one does.
LEMMA KeepsOthers ==
  ASSUME IInv, Types', KeptIsStored', FilesAreTight', DraftsStay, NoneStored, UNCHANGED runs,
         NEW c \in Compilers, NEW r, Turn(c, r), Continues(c), RunIsSane(c)',
         SessionIsFlow'
  PROVE  IInv'
<1>1. runs \in Nat /\ runs' \in Nat /\ runs <= runs'
  BY BoundAssumption DEF IInv, Types
<1>2. \A d \in Compilers : d # c => run'[d] = run[d]
  BY DEF IInv, Types, Turn
<1>3. \A d \in Compilers : RunIsSane(d)' /\ Continues(d)
  BY <1>1, <1>2, RunStaysSane DEF IInv, Continues, Busy
<1> QED
  BY <1>1, <1>3, Keeps

\* Only what is stored is accepted.
AcceptsStored == \A id \in accepted' : id \in accepted \/ (id \in Ids /\ drafts[id] # Nothing)

LEMMA NoneAccepted == ASSUME UNCHANGED accepted PROVE AcceptsStored
  BY DEF AcceptsStored

LEMMA StoredStay ==
  ASSUME IInv, DraftsStay, UNCHANGED receipts, AcceptsStored
  PROVE  KeptIsStored'
<1>1. ASSUME NEW v \in Versions, Reported(v), NEW k \in DOMAIN receipts[v].ids
      PROVE  receipts[v].ids[k] \in Ids
  <2>1. receipts[v] \in Receipt
    BY <1>1 DEF IInv, Types, Reported
  <2> QED
    BY <1>1, <2>1, ElementOfSeq, LenProperties DEF Receipt
<1>2. Types /\ KeptIsStored /\ accepted \subseteq Ids
  BY DEF IInv, Types
<1> QED
  BY <1>1, <1>2 DEF KeptIsStored, DraftsStay, Reported, AcceptsStored

-----------------------------------------------------------------------------
LEMMA PolicyIsRank == ASSUME NEW m PROVE Policy(m) \in Ranks /\ Policy(m) \in Int
  BY DEF Policy, Ranks

\* On well-formed metadata the ranks of compile.rs are the policy, and the draft's
\* visibility is the stricter of two.
LEMMA RanksAgree ==
  ASSUME NEW m \in Metadata, WellFormed(m)
  PROVE  MetadataRank(m) = Policy(m) /\ DraftRank(m) = Policy(m)
  BY DEF WellFormed, Metadata, MetadataRank, DraftRank, Policy, Level

LEMMA MergedIsMetadata ==
  ASSUME NEW m \in Metadata, NEW t \in Metadata
  PROVE  Merged(m, t) \in Metadata
<1>1. Level(m) \in {"public", "internal", "private", "unknown"}
  BY DEF Level, Metadata
<1>2. Level(t) \in {"public", "internal", "private", "unknown"}
  BY DEF Level, Metadata
<1> QED
  BY <1>1, <1>2 DEF Merged, Metadata

LEMMA MergedIsStricter ==
  ASSUME NEW m \in Metadata, NEW t \in Metadata, WellFormed(m), WellFormed(t)
  PROVE  WellFormed(Merged(m, t)) /\ Policy(m) <= Policy(Merged(m, t))
<1> DEFINE l == IF DraftRank(m) > DraftRank(t) THEN Level(m) ELSE Level(t)
<1>1. /\ m.private \in {"no", "yes"} /\ m.visibility \in {"public", "internal", "private"}
      /\ t.private \in {"no", "yes"} /\ t.visibility \in {"public", "internal", "private"}
  BY DEF WellFormed, Metadata
<1>2. Merged(m, t).private = t.private /\ Merged(m, t).visibility = l
  BY DEF Merged, Metadata
<1>3. l \in {"public", "internal", "private"}
  BY <1>1 DEF Level
<1>4. \/ Policy(m) = 0
      \/ Policy(m) = 1 /\ (l = "internal" \/ l = "private")
      \/ Policy(m) = 2 /\ l = "private"
  BY <1>1 DEF Policy, Level, DraftRank
<1> HIDE DEF l
<1>5. Policy(m) <= Policy(Merged(m, t))
  BY <1>2, <1>4, PolicyIsRank DEF Policy, Ranks
<1> QED
  BY <1>1, <1>2, <1>3, <1>5 DEF WellFormed

\* What another program writes is as restricted as it says.
LEMMA HandsAreTight ==
  ASSUME NEW n \in Nat, NEW r \in Marks
  PROVE  ByHand(n, r) \in File /\ Tight(ByHand(n, r))
<1>1. <<0, n>> \in Origins
  BY BoundAssumption DEF Origins
<1>2. r \in Metadata /\ WellFormed(r) \in BOOLEAN
  BY MarkAssumption DEF WellFormed
<1>3. Policy(r) \in Ranks /\ Policy(r) <= Policy(r)
  BY PolicyIsRank DEF Ranks
<1> QED
  BY <1>1, <1>2, <1>3 DEF ByHand, File, Tight

LEMMA EditArticleKeeps ==
  ASSUME IInv, NEW s \in Slugs, NEW r \in Marks, EditArticle(s, r)
  PROVE  IInv'
<1>1. /\ Types /\ edits' = edits + 1 /\ edits' \in 0..MaxEdits /\ edits' \in Nat
      /\ disk' = [disk EXCEPT ![s] = ByHand(edits', r)]
      /\ UNCHANGED <<raw, rawRow, row, drafts, receipts, session, run, runs, accepted>>
  BY BoundAssumption DEF IInv, Types, EditArticle, tables
<1>2. ByHand(edits', r) \in File /\ Tight(ByHand(edits', r))
  BY <1>1, HandsAreTight
<1>3. /\ disk' \in Seen /\ disk'[s] = ByHand(edits', r)
      /\ \A t \in Slugs : t # s => disk'[t] = disk[t]
  BY <1>1, <1>2 DEF Types, Seen
<1>4. Types'
  BY <1>1, <1>3 DEF Types
<1>5. FilesAreTight'
  BY <1>1, <1>2, <1>3 DEF IInv, FilesAreTight, Tight
<1> QED
  <2>0. DraftsStay /\ NoneStored
    BY <1>1, AsTheyAre
  <2>1. KeptIsStored'
    BY <1>1, <2>0, NoneAccepted, StoredStay
  <2> QED
    BY <1>1, <1>4, <1>5, <2>0, <2>1, KeepsRuns

LEMMA DeleteArticleKeeps ==
  ASSUME IInv, NEW s \in Slugs, DeleteArticle(s)
  PROVE  IInv'
<1>1. /\ Types /\ edits' \in 0..MaxEdits
      /\ disk' = [disk EXCEPT ![s] = Absent]
      /\ UNCHANGED <<raw, rawRow, row, drafts, receipts, session, run, runs, accepted>>
  BY BoundAssumption DEF IInv, Types, DeleteArticle, tables
<1>2. /\ disk' \in Seen /\ disk'[s] = Absent
      /\ \A t \in Slugs : t # s => disk'[t] = disk[t]
  BY <1>1 DEF Types, Seen
<1>3. Types'
  BY <1>1, <1>2 DEF Types
<1>4. FilesAreTight'
  BY <1>1, <1>2 DEF IInv, FilesAreTight, Tight
<1> QED
  <2>0. DraftsStay /\ NoneStored
    BY <1>1, AsTheyAre
  <2>1. KeptIsStored'
    BY <1>1, <2>0, NoneAccepted, StoredStay
  <2> QED
    BY <1>1, <1>3, <1>4, <2>0, <2>1, KeepsRuns

LEMMA EditRawKeeps ==
  ASSUME IInv, NEW r \in Marks, EditRaw(r)
  PROVE  IInv'
<1>1. /\ Types /\ edits' = edits + 1 /\ edits' \in 0..MaxEdits /\ edits' \in Versions
      /\ UNCHANGED <<rawRow, disk, row, drafts, receipts, session, run, runs, accepted>>
  BY BoundAssumption DEF IInv, Types, EditRaw, tables, Versions
<1>2. PICK of \in {Nothing, raw.of} : raw' = [NewRaw(edits', r) EXCEPT !.of = of]
  BY DEF EditRaw
<1>3. of \in Versions \cup {Nothing}
  BY <1>1 DEF Types, Raw
<1>4. raw' \in Raw
  BY MarkAssumption, <1>1, <1>2, <1>3 DEF NewRaw, Raw
<1>5. Types' /\ FilesAreTight'
  BY <1>1, <1>4 DEF Types, IInv, FilesAreTight, Tight
<1> QED
  <2>0. DraftsStay /\ NoneStored
    BY <1>1, AsTheyAre
  <2>1. KeptIsStored'
    BY <1>1, <2>0, NoneAccepted, StoredStay
  <2> QED
    BY <1>1, <1>5, <2>0, <2>1, KeepsRuns

LEMMA SyncKeeps == ASSUME IInv, Sync PROVE IInv'
<1>1. /\ Types /\ rawRow' = raw /\ row' = disk
      /\ UNCHANGED <<raw, disk, drafts, receipts, session, run, edits, runs, accepted>>
  BY DEF IInv, Sync, Indexed, tables, counts
<1>2. Types' /\ FilesAreTight'
  BY <1>1 DEF Types, IInv, FilesAreTight, Tight
<1> QED
  <2>0. DraftsStay /\ NoneStored
    BY <1>1, AsTheyAre
  <2>1. KeptIsStored'
    BY <1>1, <2>0, NoneAccepted, StoredStay
  <2> QED
    BY <1>1, <1>2, <2>0, <2>1, KeepsRuns

\* The bytes of a draft are as restricted as the draft is.
LEMMA WriteKeeps ==
  ASSUME IInv, NEW id \in Ids, drafts[id] # Nothing, Write(id)
  PROVE  /\ raw' \in Raw /\ rawRow' \in Raw /\ disk' \in Seen /\ row' \in Seen
         /\ accepted' \subseteq Ids /\ FilesAreTight'
         /\ AcceptsStored
         /\ disk'[drafts[id].target] = drafts[id].file
         /\ \A t \in Slugs : t # drafts[id].target => disk'[t] = disk[t]
<1>1. /\ Types /\ drafts[id] \in Stored /\ Tight(drafts[id].file)
  BY DEF IInv, Types, DraftIsSane
<1>2. drafts[id].target \in Slugs /\ drafts[id].file \in File
  BY <1>1 DEF Stored
<1>3. /\ disk' = [disk EXCEPT ![drafts[id].target] = drafts[id].file] /\ raw' = raw
      /\ rawRow' = raw' /\ row' = disk' /\ accepted' = accepted \cup {id}
  BY DEF Write, Indexed
<1>4. /\ disk' \in Seen /\ disk'[drafts[id].target] = drafts[id].file
      /\ \A t \in Slugs : t # drafts[id].target => disk'[t] = disk[t]
  BY <1>1, <1>2, <1>3 DEF Types, Seen
<1>5. FilesAreTight'
  BY <1>1, <1>3, <1>4 DEF IInv, FilesAreTight, Tight
<1> QED
  BY <1>1, <1>3, <1>4, <1>5 DEF Types, AcceptsStored

LEMMA AcceptKeeps == ASSUME IInv, NEW id \in Ids, Accept(id) PROVE IInv'
<1>1. /\ Types /\ drafts[id] # Nothing /\ Write(id)
      /\ UNCHANGED <<drafts, receipts, session, run, edits, runs>>
  BY DEF IInv, Accept, Applicable, tables, counts
<1>2. Types' /\ FilesAreTight'
  BY <1>1, WriteKeeps DEF Types
<1>3. KeptIsStored'
  BY <1>1, WriteKeeps, AsTheyAre, StoredStay
<1> QED
  BY <1>1, <1>2, <1>3, AsTheyAre, KeepsRuns

LEMMA NoteKeeps == ASSUME IInv, NEW id \in Ids, Note(id) PROVE IInv'
<1>1. /\ Types /\ drafts[id] # Nothing /\ Applied(id)
      /\ UNCHANGED <<raw, rawRow, disk, row, receipts, session, run, edits, runs, accepted>>
  BY DEF IInv, Note, KeptIsStored, files, counts
<1>2. DraftsStay /\ NoneStored
  BY <1>1, AppliedDraft
<1>3. Types' /\ FilesAreTight'
  BY <1>1, <1>2 DEF IInv, Types, FilesAreTight, Tight, DraftsStay
<1> QED
  BY <1>1, <1>2, <1>3, NoneAccepted, StoredStay, KeepsRuns

-----------------------------------------------------------------------------
LEMMA Turns ==
  ASSUME Types, NEW c \in Compilers, NEW r \in Runs \cup {Idle}, Turn(c, r)
  PROVE  /\ run' \in [Compilers -> Runs \cup {Idle}] /\ run'[c] = r
         /\ \A d \in Compilers : d # c => run'[d] = run[d]
  BY DEF Types, Turn

\* A run that goes on keeps the session, or that it has none.
LEMMA SessionStays ==
  ASSUME IInv, NEW c \in Compilers, Busy(c), NEW r \in Runs, Turn(c, r), r.flow = run[c].flow,
         UNCHANGED session
  PROVE  SessionIsFlow'
<1>1. run'[c] = r /\ \A d \in Compilers : d # c => run'[d] = run[d]
  BY Turns DEF IInv
<1>2. r.stage # "idle"
  BY DEF Runs, Stages
<1> QED
  BY <1>1, <1>2 DEF IInv, SessionIsFlow, Busy

\* One that ends gives it back.
LEMMA SessionGoes ==
  ASSUME IInv, NEW c \in Compilers, Turn(c, Idle), session' = Freed(c)
  PROVE  SessionIsFlow' /\ session' \in Compilers \cup {Nothing}
<1>1. run'[c] = Idle /\ \A d \in Compilers : d # c => run'[d] = run[d]
  BY Turns DEF IInv
<1>2. ~Busy(c)' /\ Types
  BY <1>1 DEF Busy, Idle, IInv
<1>3. Nothing \notin Compilers /\ session' \in Compilers \cup {Nothing}
  BY <1>2, NothingAssumption DEF Types, Freed
<1> QED
  BY <1>1, <1>2, <1>3 DEF IInv, SessionIsFlow, Busy, Freed

LEMMA IdleIsSane == ASSUME NEW c \in Compilers, Types, Turn(c, Idle) PROVE RunIsSane(c)' /\ Continues(c)
<1>1. ~Busy(c)'
  BY Turns DEF Busy, Idle
<1> QED
  BY <1>1 DEF RunIsSane, Continues

\* What is stored, however often the run goes on.
LEMMA AllStay ==
  ASSUME IInv, UNCHANGED <<drafts, receipts, accepted>>
  PROVE  DraftsStay /\ NoneStored /\ KeptIsStored'
<1>1. DraftsStay /\ NoneStored /\ AcceptsStored
  BY AsTheyAre, NoneAccepted DEF IInv
<1> QED
  BY <1>1, StoredStay

LEMMA FailKeeps == ASSUME IInv, NEW c \in Compilers, Fail(c) PROVE IInv'
<1>1. /\ Types /\ Turn(c, Idle) /\ session' = Freed(c)
      /\ UNCHANGED <<raw, rawRow, disk, row, drafts, receipts, edits, runs, accepted>>
  BY DEF IInv, Fail, files, tables, counts
<1>2. DraftsStay /\ NoneStored /\ KeptIsStored'
  BY <1>1, AllStay
<1>3. Types' /\ FilesAreTight' /\ SessionIsFlow'
  BY <1>1, Turns, SessionGoes DEF Types, IInv, FilesAreTight, Tight
<1>4. RunIsSane(c)' /\ Continues(c)
  BY <1>1, IdleIsSane
<1> QED
  BY <1>1, <1>2, <1>3, <1>4, KeepsOthers

\* A step of c that touches neither files nor drafts.
LEMMA QuietTurn ==
  ASSUME IInv, NEW c \in Compilers, Busy(c), NEW r \in Runs, Turn(c, r), r.flow = run[c].flow,
         r.name = run[c].name, r.version = run[c].version,
         UNCHANGED <<raw, rawRow, disk, row, drafts, receipts, session, edits, runs, accepted>>,
         RunIsSane(c)'
  PROVE  IInv'
<1>1. Types /\ run'[c] = r
  BY Turns DEF IInv
<1>2. DraftsStay /\ NoneStored /\ KeptIsStored'
  BY AllStay
<1>3. Types' /\ FilesAreTight' /\ SessionIsFlow'
  BY <1>1, Turns, SessionStays DEF Types, IInv, FilesAreTight, Tight
<1>4. Continues(c)
  BY <1>1 DEF Continues
<1> QED
  BY <1>2, <1>3, <1>4, KeepsOthers

LEMMA AskKeeps == ASSUME IInv, NEW c \in Compilers, NEW b \in Batches, Ask(c, b) PROVE IInv'
<1> DEFINE r == run[c]
           q == Answered(r, b)
<1>1. /\ Types /\ RunIsSane(c) /\ r.stage = "read" /\ Turn(c, q)
      /\ UNCHANGED <<raw, rawRow, disk, row, drafts, receipts, session, edits, runs, accepted>>
  BY DEF IInv, Ask, files, tables, counts, Stage
<1>2. Busy(c) /\ r \in Runs
  BY <1>1, IdleOrRun DEF Busy
<1>3. b \in Seq(Article \cup {Invalid}) /\ DOMAIN b \subseteq Indices
  BY BatchAssumption DEF Indices
<1>4. /\ q \in Runs /\ q.stage = "draft" /\ q.flow = r.flow /\ q.version = r.version
      /\ q.name = r.name /\ q.seen = Visible(r.version) /\ q.batch = b /\ q.i = r.i
      /\ q.ids = r.ids
  BY <1>1, <1>2, <1>3, AnsweredRun DEF Types
<1> HIDE DEF q
<1>5. Readable(q)
  BY <1>4 DEF Readable, Visible, Listed, IInv, FilesAreTight
<1>6. run'[c] = q
  BY <1>1, <1>4, Turns
<1>7. RunIsSane(c)'
  BY <1>1, <1>2, <1>3, <1>4, <1>5, <1>6 DEF RunIsSane, Busy
<1> QED
  BY <1>1, <1>2, <1>4, <1>7, QuietTurn

LEMMA CancelKeeps == ASSUME IInv, NEW c \in Compilers, Cancel(c) PROVE IInv'
<1> DEFINE r == run[c]
           q == CutOff(r)
<1>1. /\ Types /\ RunIsSane(c) /\ r.stage = "draft" /\ r.i <= Len(r.batch) /\ Turn(c, q)
      /\ UNCHANGED <<raw, rawRow, disk, row, drafts, receipts, session, edits, runs, accepted>>
  BY DEF IInv, Cancel, files, tables, counts, Stage
<1>2. Busy(c) /\ r \in Runs /\ r.i >= 1
  BY <1>1, IdleOrRun DEF Busy, RunIsSane
<1>3. /\ q \in Runs /\ q.stage = r.stage /\ q.flow = r.flow /\ q.version = r.version
      /\ q.name = r.name /\ q.seen = r.seen /\ DOMAIN q.batch \subseteq DOMAIN r.batch
      /\ q.i = r.i /\ q.ids = r.ids
  BY <1>1, <1>2, CutOffRun
<1> HIDE DEF q
<1>4. run'[c] = q
  BY <1>1, <1>3, Turns
<1>5. RunIsSane(c)'
  BY <1>1, <1>2, <1>3, <1>4 DEF RunIsSane, Readable, Busy
<1> QED
  BY <1>1, <1>2, <1>3, <1>5, QuietTurn

-----------------------------------------------------------------------------
LEMMA LargestIs ==
  ASSUME NEW S, S \subseteq Int, NEW m \in S, \A n \in S : n <= m
  PROVE  Largest(S) = m
<1>1. Largest(S) \in S /\ \A n \in S : n <= Largest(S)
  BY DEF Largest
<1>2. PICK n \in S : n = Largest(S) /\ \A k \in S : k <= n
  BY <1>1
<1>3. n \in Int /\ m \in Int /\ n <= m /\ m <= n
  BY <1>2
<1>4. n = m
  BY <1>3
<1> QED
  BY <1>2, <1>4

LEMMA TargetIsSlug ==
  ASSUME NEW seen \in Seen, NEW a \in Article
  PROVE  Target(seen, a) \in Slugs
<1>1. Targets(seen, a) \subseteq Slugs /\ a.slug \in Slugs
  <2>1. a.slug \in Slugs /\ a.also \in SUBSET Slugs
    BY DEF Article
  <2>2. {s \in a.also : seen[s] # Absent} \subseteq Slugs
    BY <2>1
  <2> QED
    BY <2>1, <2>2 DEF Targets
<1>2. \E s \in Targets(seen, a) \cup {a.slug} : Targets(seen, a) # {} => s \in Targets(seen, a)
  OBVIOUS
<1>3. Target(seen, a) \in Targets(seen, a) \cup {a.slug}
  BY <1>2 DEF Target
<1> QED
  BY <1>1, <1>3

LEMMA LargestRank == ASSUME NEW S, S \subseteq Ranks, S # {} PROVE Largest(S) \in Ranks
<1>1. \A n \in S : n = 0 \/ n = 1 \/ n = 2
  BY DEF Ranks
<1>2. \E m \in S : \A n \in S : n <= m
  BY <1>1
<1> QED
  BY <1>2 DEF Largest

\* A draft is as restricted as what its run read.
LEMMA PreparedDraft ==
  ASSUME NEW r \in Runs, NEW a \in Article, r.name <= MaxRuns, Readable(r)
  PROVE  LET d == Prepared(r, a)
         IN  /\ d \in Stored /\ d.version = r.version /\ Tight(d.file) /\ ~d.applied
             /\ d.file.from = <<r.name, r.i>> /\ d.seen = r.seen
             /\ d.guards = [s \in Consulted(d.seen) \ {d.target} |-> d.seen[s]]
<1> DEFINE t == Target(r.seen, a)
           base == r.seen[t]
           under == IF base = Absent THEN Unmarked ELSE base.meta
           meta == Merged(r.version.meta, under)
           S == {Policy(r.version.meta)} \cup {r.seen[s].secret : s \in Consulted(r.seen)}
           sound == /\ WellFormed(r.version.meta)
                    /\ \A s \in Consulted(r.seen) : r.seen[s].sound
           guards == [s \in Consulted(r.seen) \ {t} |-> r.seen[s]]
<1>1. /\ r.seen \in Seen /\ r.version \in Raw /\ r.version.meta \in Metadata
      /\ r.name \in 0..MaxRuns /\ r.i \in Nat
  BY BoundAssumption DEF Runs, Raw
<1>2. t \in Slugs /\ base \in File \cup {Absent}
  BY <1>1, TargetIsSlug DEF Seen
<1>3. \A s \in Consulted(r.seen) : s \in Slugs /\ r.seen[s] \in File /\ r.seen[s] # Absent
  BY <1>1 DEF Consulted, Seen
<1>4. \A s \in Consulted(r.seen) :
         /\ r.seen[s].secret \in Ranks /\ r.seen[s].meta \in Metadata
         /\ r.seen[s].sound \in BOOLEAN
  BY <1>3 DEF File
<1>5. S \subseteq Ranks /\ S # {} /\ Largest(S) \in Ranks
  <2>1. S \subseteq Ranks /\ S # {}
    BY <1>4, PolicyIsRank
  <2> QED
    BY <2>1, LargestRank
<1>6. sound => Largest(S) = Policy(r.version.meta)
  <2>1. SUFFICES ASSUME sound PROVE Largest(S) = Policy(r.version.meta)
    OBVIOUS
  <2>2. S \subseteq Int /\ Policy(r.version.meta) \in S
    BY <1>5 DEF Ranks
  <2>3. MetadataRank(r.version.meta) = Policy(r.version.meta)
    BY <1>1, <2>1, RanksAgree
  <2>4. ASSUME NEW s \in Consulted(r.seen)
        PROVE  r.seen[s].secret <= Policy(r.version.meta)
    <3>1. /\ r.seen[s].sound /\ Tight(r.seen[s])
          /\ MetadataRank(r.seen[s].meta) <= MetadataRank(r.version.meta)
      BY <1>3, <2>1 DEF Readable
    <3>2. WellFormed(r.seen[s].meta) /\ r.seen[s].secret <= Policy(r.seen[s].meta)
      BY <1>3, <3>1 DEF Tight
    <3>3. MetadataRank(r.seen[s].meta) = Policy(r.seen[s].meta)
      BY <1>4, <3>2, RanksAgree
    <3>4. r.seen[s].secret \in Int
      BY <1>4 DEF Ranks
    <3> QED
      BY <2>3, <3>1, <3>2, <3>3, <3>4, PolicyIsRank
  <2>5. Policy(r.version.meta) <= Policy(r.version.meta)
    BY PolicyIsRank
  <2>6. \A n \in S : n <= Policy(r.version.meta)
    BY <2>4, <2>5
  <2> QED
    BY <2>2, <2>6, LargestIs
<1>7. /\ meta \in Metadata /\ sound \in BOOLEAN
      /\ sound => WellFormed(meta) /\ Policy(r.version.meta) <= Policy(meta)
  <2>1. under \in Metadata
    BY <1>2 DEF Unmarked, Metadata, File
  <2>2. sound => WellFormed(under)
    <3>1. CASE base = Absent
      BY <3>1 DEF Unmarked, WellFormed
    <3>2. CASE base # Absent
      <4>1. t \in Consulted(r.seen) /\ Tight(base)
        BY <1>2, <3>2 DEF Consulted, Readable
      <4> QED
        BY <3>2, <4>1 DEF Tight
    <3> QED
      BY <3>1, <3>2
  <2>3. sound \in BOOLEAN
    BY DEF WellFormed
  <2> HIDE DEF under
  <2> QED
    BY <1>1, <2>1, <2>2, <2>3, MergedIsMetadata, MergedIsStricter
<1>8. guards \in Guards
  <2>1. guards \in [Consulted(r.seen) \ {t} -> File]
    BY <1>3
  <2>2. Consulted(r.seen) \ {t} \in SUBSET Slugs
    BY <1>3
  <2> QED
    BY <2>1, <2>2 DEF Guards
<1>9. <<r.name, r.i>> \in Origins
  BY <1>1 DEF Origins
<1> HIDE DEF t, base, under, meta, S, sound, guards
<1> DEFINE f == [from |-> <<r.name, r.i>>, meta |-> meta, secret |-> Largest(S), sound |-> sound]
<1>10. f \in File /\ Tight(f) /\ f.from = <<r.name, r.i>>
  BY <1>1, <1>5, <1>6, <1>7, <1>9 DEF File, Tight
<1> HIDE DEF f
<1>11. Prepared(r, a) = [target |-> t, base |-> base, version |-> r.version,
                         applied |-> FALSE, file |-> f, guards |-> guards, seen |-> r.seen]
  BY Zenon DEF Prepared, t, base, under, meta, S, sound, guards, f
<1>12. /\ Prepared(r, a) \in Stored /\ Prepared(r, a).version = r.version
       /\ Prepared(r, a).file = f /\ ~Prepared(r, a).applied
       /\ Prepared(r, a).seen = r.seen /\ Prepared(r, a).target = t
       /\ Prepared(r, a).guards = guards
  BY <1>1, <1>2, <1>8, <1>10, <1>11 DEF Stored
<1> QED
  BY <1>10, <1>12 DEF guards

\* The first draft of an article.
LEMMA NewDraft ==
  ASSUME IInv, NEW c \in Compilers, Busy(c), NEW id \in Ids, drafts[id] = Nothing,
         NEW d \in Stored, drafts' = [drafts EXCEPT ![id] = d], ~d.applied,
         id = <<run[c].version.from, run[c].i>>, d.version = run[c].version, Tight(d.file),
         d.file.from = <<run[c].name, run[c].i>>,
         d.guards = [s \in Consulted(d.seen) \ {d.target} |-> d.seen[s]],
         NEW r \in Runs, Turn(c, r), r.flow = run[c].flow, r.name = run[c].name,
         r.version = run[c].version, RunIsSane(c)',
         UNCHANGED <<raw, rawRow, disk, row, receipts, session, edits, runs, accepted>>
  PROVE  IInv'
<1>1. /\ Types /\ drafts' \in [Ids -> Stored \cup {Nothing}] /\ drafts'[id] = d
      /\ \A jd \in Ids : jd # id => drafts'[jd] = drafts[jd]
  BY DEF IInv, Types
<1>2. d # Nothing
  BY NothingAssumption
<1>3. DraftsStay
  BY <1>1, <1>2 DEF DraftsStay
<1>4. KeptIsStored'
  BY <1>3, NoneAccepted, StoredStay
<1>5. run'[c] = r /\ \A e \in Compilers : e # c => run'[e] = run[e]
  BY <1>1, Turns
<1>6. Types' /\ FilesAreTight' /\ SessionIsFlow'
  BY <1>1, Turns, SessionStays DEF Types, IInv, FilesAreTight, Tight
<1>7. runs \in Nat /\ runs' \in Nat /\ runs <= runs'
  BY <1>1, BoundAssumption DEF Types
<1>8. \A e \in Compilers : RunIsSane(e)'
  BY <1>1, <1>3, <1>5, <1>7, RunStaysSane DEF IInv
<1>9. \A jd \in Ids : DraftIsSane(jd)'
  <2>1. ASSUME NEW jd \in Ids, jd # id PROVE DraftIsSane(jd)'
    BY <1>1, <1>3, <1>7, <2>1, DraftStaysSane DEF IInv
  <2>2. RunIsSane(c)
    BY DEF IInv
  <2>3. DraftIsSane(id)'
    BY <1>1, <2>2 DEF DraftIsSane, RunIsSane
  <2> QED
    BY <2>1, <2>3
<1>10. NamesAreOwn'
  <2>1. NamesAreOwn
    BY DEF IInv
  <2>2. id[1] = run[c].version.from /\ d.file.from[1] = run[c].name
    OBVIOUS
  <2>3. \A jd, kd \in Ids :
           drafts'[jd] # Nothing /\ drafts'[kd] # Nothing
             /\ drafts'[jd].file.from[1] = drafts'[kd].file.from[1] => jd[1] = kd[1]
    BY <1>1, <2>1, <2>2 DEF NamesAreOwn
  <2>4. \A e \in Compilers :
           /\ Busy(e)' => Busy(e)
           /\ Busy(e)' => run'[e].name = run[e].name /\ run'[e].version = run[e].version
    BY <1>5 DEF Busy
  <2>5. ASSUME NEW e \in Compilers, Busy(e)', NEW jd \in Ids, drafts'[jd] # Nothing,
               drafts'[jd].file.from[1] = run'[e].name
        PROVE  jd[1] = run'[e].version.from
    BY <1>1, <2>1, <2>2, <2>4, <2>5 DEF NamesAreOwn
  <2>6. \A e, f \in Compilers : Busy(e)' /\ Busy(f)' /\ run'[f].name = run'[e].name => f = e
    BY <2>1, <2>4 DEF NamesAreOwn
  <2> QED
    BY <2>3, <2>5, <2>6 DEF NamesAreOwn
<1> QED
  BY <1>4, <1>6, <1>8, <1>9, <1>10 DEF IInv

LEMMA DraftKeeps == ASSUME IInv, NEW c \in Compilers, Draft(c) PROVE IInv'
<1> DEFINE r == run[c]
           a == r.batch[r.i]
           d == Prepared(r, a)
           id == <<r.version.from, r.i>>
           left == ~Resolves(r.seen, a) \/ d.target \in r.targets
<1>1. /\ Types /\ RunIsSane(c) /\ r.stage = "draft" /\ r.i <= Len(r.batch)
      /\ UNCHANGED <<raw, rawRow, disk, row, receipts, session, edits, runs, accepted>>
  BY DEF IInv, Draft, files, tables, counts, Stage
<1>2. Busy(c) /\ r \in Runs /\ r.i >= 1
  BY <1>1, IdleOrRun DEF Busy, RunIsSane
<1>3. CASE left
  <2>1. Turn(c, Skipped(r)) /\ UNCHANGED drafts
    BY <1>3 DEF Draft
  <2> DEFINE q == Skipped(r)
  <2>2. /\ q \in Runs /\ q.stage = r.stage /\ q.flow = r.flow /\ q.version = r.version
        /\ q.name = r.name /\ q.seen = r.seen /\ q.batch = r.batch /\ q.i = r.i + 1
        /\ q.ids = r.ids
    BY <1>2, SkippedRun
  <2> HIDE DEF q
  <2>3. run'[c] = q /\ r.i + 1 >= 1
    BY <1>1, <1>2, <2>1, <2>2, Turns DEF Runs, q
  <2>4. RunIsSane(c)'
    BY <1>1, <1>2, <2>1, <2>2, <2>3 DEF RunIsSane, Readable, Busy
  <2> QED
    BY <1>1, <1>2, <2>1, <2>2, <2>4, QuietTurn DEF q
<1>4. CASE ~left
  <2>1. /\ Turn(c, Drafted(r, id, d.target)) /\ a # Invalid
        /\ drafts' = [drafts EXCEPT ![id] = First(drafts[id], d)]
    BY <1>4 DEF Draft, Resolves
  <2>2. r.i \in DOMAIN r.batch /\ a \in Article \cup {Invalid}
    BY <1>1, <1>2, LenProperties, ElementOfSeq DEF Runs
  <2>3. a \in Article
    BY <2>1, <2>2
  <2>4. id \in Ids
    BY <1>1, <1>2, <2>2 DEF RunIsSane, Ids, Runs, Raw
  <2>5. r.name <= MaxRuns
    BY <1>1, <1>2, BoundAssumption DEF RunIsSane, Types, Runs
  <2>6. /\ d \in Stored /\ d.version = r.version /\ Tight(d.file) /\ ~d.applied
        /\ d.file.from = <<r.name, r.i>> /\ d.target \in Slugs
        /\ d.guards = [s \in Consulted(d.seen) \ {d.target} |-> d.seen[s]]
    <3>1. Readable(r)
      BY <1>1, <1>2 DEF RunIsSane
    <3>2. \A e \in Stored : e.target \in Slugs
      BY DEF Stored
    <3> HIDE DEF a
    <3> QED
      BY <1>2, <2>3, <2>5, <3>1, <3>2, PreparedDraft
  <2> HIDE DEF d, a
  <2> DEFINE q == Drafted(r, id, d.target)
  <2>7. /\ q \in Runs /\ q.stage = r.stage /\ q.flow = r.flow /\ q.version = r.version
        /\ q.name = r.name /\ q.seen = r.seen /\ q.batch = r.batch /\ q.i = r.i + 1
        /\ q.ids = Append(r.ids, id)
    BY <1>2, <2>4, <2>6, DraftedRun
  <2>8. Turn(c, q)
    BY <2>1
  <2> HIDE DEF q
  <2>9. run'[c] = q /\ r.i + 1 >= 1
    BY <1>1, <1>2, <2>7, <2>8, Turns DEF Runs
  <2>10. /\ drafts'[id] = First(drafts[id], d) /\ drafts'[id] # Nothing
         /\ \A jd \in Ids : jd # id => drafts'[jd] = drafts[jd]
    <3>1. drafts'[id] = First(drafts[id], d)
          /\ \A jd \in Ids : jd # id => drafts'[jd] = drafts[jd]
      BY <1>1, <2>1, <2>4 DEF Types
    <3> QED
      BY <3>1, <2>6, NothingAssumption DEF First
  <2>11. \A k \in DOMAIN q.ids : drafts'[q.ids[k]] # Nothing
    <3>1. r.ids \in Seq(Ids) /\ \A k \in DOMAIN r.ids : r.ids[k] \in Ids
      BY <1>2, LenProperties, ElementOfSeq DEF Runs
    <3>2. \A k \in DOMAIN r.ids : drafts'[r.ids[k]] # Nothing
      BY <1>1, <1>2, <2>10, <3>1 DEF RunIsSane
    <3>3. \A k \in DOMAIN q.ids : q.ids[k] = id \/ (k \in DOMAIN r.ids /\ q.ids[k] = r.ids[k])
      BY <2>4, <2>7, <3>1, AppendProperties, LenProperties
    <3> QED
      BY <2>10, <3>2, <3>3
  <2>12. RunIsSane(c)'
    BY <1>1, <1>2, <2>7, <2>9, <2>11 DEF RunIsSane, Readable, Busy
  <2>13. CASE drafts[id] # Nothing
    <3>1. UNCHANGED drafts
      BY <1>1, <2>1, <2>4, <2>13 DEF First, Types
    <3> QED
      BY <1>1, <1>2, <2>7, <2>8, <2>12, <3>1, QuietTurn
  <2>14. CASE drafts[id] = Nothing
    <3>1. drafts' = [drafts EXCEPT ![id] = d]
      BY <2>1, <2>14 DEF First
    <3> HIDE DEF id
    <3>2. id = <<run[c].version.from, run[c].i>>
      BY DEF id
    <3> QED
      BY <1>1, <1>2, <2>4, <2>6, <2>7, <2>8, <2>12, <2>14, <3>1, <3>2, NewDraft
  <2> QED
    BY <2>13, <2>14
<1> QED
  BY <1>3, <1>4

-----------------------------------------------------------------------------
\* The steps of a run, one lemma each.
LEMMA ReportKeeps == ASSUME IInv, NEW c \in Compilers, Report(c) PROVE IInv'
<1> DEFINE r == run[c]
           v == r.version.from
           done == [ids |-> r.ids, ok |-> ~r.failed]
           q == IF r.flow THEN Applying(r) ELSE Idle
<1>1. /\ Types /\ RunIsSane(c) /\ r.stage = "draft" /\ r.ids # <<>> /\ Turn(c, q)
      /\ receipts' = [receipts EXCEPT ![v] = done]
      /\ UNCHANGED <<raw, rawRow, disk, row, drafts, session, edits, runs, accepted>>
  BY DEF IInv, Report, files, counts, Stage
<1>2. Busy(c) /\ r \in Runs
  BY <1>1, IdleOrRun DEF Busy
<1>3. v \in Versions /\ done \in Receipt
  BY <1>2 DEF Runs, Raw, Receipt
<1> DEFINE p == Applying(r)
<1>4. /\ p \in Runs /\ p.stage = "apply" /\ p.flow = r.flow /\ p.version = r.version
      /\ p.name = r.name /\ p.seen = r.seen /\ p.batch = r.batch /\ p.i = 1
      /\ p.ids = r.ids
  BY <1>2, ApplyingRun
<1> HIDE DEF p, done
<1>5. /\ receipts' \in [Versions -> Receipt \cup {Nothing}] /\ receipts'[v] = done
      /\ \A w \in Versions : w # v => receipts'[w] = receipts[w]
  BY <1>1, <1>3 DEF Types
<1>6. DraftsStay /\ NoneStored
  BY <1>1, AsTheyAre
<1>7. KeptIsStored'
  <2>1. done.ids = r.ids /\ \A k \in DOMAIN r.ids : drafts[r.ids[k]] # Nothing
    BY <1>1, <1>2 DEF done, RunIsSane
  <2> QED
    BY <1>1, <1>5, <2>1 DEF IInv, KeptIsStored, Reported
<1>8. CASE r.flow
  <2>1. Turn(c, p)
    BY <1>1, <1>8 DEF p
  <2>2. run'[c] = p
    BY <1>1, <1>4, <2>1, Turns
  <2>3. RunIsSane(c)'
    <3>1. \A k \in DOMAIN r.ids : ~(k < 1)
      BY <1>2, LenProperties DEF Runs
    <3>2. 1 >= 1 /\ \A k \in DOMAIN r.ids : k < 1 => drafts[r.ids[k]].applied
      BY <3>1
    <3> QED
      BY <1>1, <1>2, <1>4, <1>8, <2>2, <3>2 DEF RunIsSane, Readable, Busy
  <2>4. Types' /\ FilesAreTight' /\ SessionIsFlow'
    BY <1>1, <1>2, <1>4, <1>5, <2>1, Turns, SessionStays DEF Types, IInv, FilesAreTight, Tight
  <2>5. Continues(c)
    BY <1>2, <1>4, <2>2 DEF Continues
  <2> QED
    BY <1>1, <1>6, <1>7, <2>1, <2>3, <2>4, <2>5, KeepsOthers
<1>9. CASE ~r.flow
  <2>1. Turn(c, Idle)
    BY <1>1, <1>9
  <2>2. session # c
    BY <1>9 DEF IInv, SessionIsFlow
  <2>3. session' = Freed(c)
    BY <1>1, <2>2 DEF Freed
  <2>4. Types' /\ FilesAreTight' /\ SessionIsFlow'
    BY <1>1, <1>5, <2>1, <2>3, Turns, SessionGoes DEF Types, IInv, FilesAreTight, Tight
  <2>5. RunIsSane(c)' /\ Continues(c)
    BY <1>1, <2>1, IdleIsSane
  <2> QED
    BY <1>1, <1>6, <1>7, <2>1, <2>4, <2>5, KeepsOthers
<1> QED
  BY <1>8, <1>9

LEMMA AcceptNextKeeps == ASSUME IInv, NEW c \in Compilers, AcceptNext(c) PROVE IInv'
<1> DEFINE r == run[c]
           id == r.ids[r.i]
<1>1. /\ Types /\ RunIsSane(c) /\ r.stage = "apply" /\ r.i <= Len(r.ids)
      /\ UNCHANGED <<drafts, receipts, session, edits, runs>>
  BY DEF IInv, AcceptNext, ToApply, tables, counts, Stage
<1>2. Busy(c) /\ r \in Runs /\ r.i >= 1
  BY <1>1, IdleOrRun DEF Busy, RunIsSane
<1>3. r.i \in DOMAIN r.ids /\ id \in Ids
  BY <1>1, <1>2, LenProperties, ElementOfSeq DEF Runs
<1>4. CASE Applicable(id)
  <2> DEFINE q == Written(r)
  <2>1. Write(id) /\ Turn(c, q) /\ drafts[id] # Nothing
    BY <1>4 DEF AcceptNext, Applicable
  <2>2. /\ q \in Runs /\ q.stage = "note" /\ q.flow = r.flow /\ q.version = r.version
        /\ q.name = r.name /\ q.seen = r.seen /\ q.batch = r.batch /\ q.i = r.i
        /\ q.ids = r.ids /\ q.failed = r.failed
    BY <1>2, WrittenRun
  <2> HIDE DEF q
  <2>3. run'[c] = q
    BY <1>1, <2>1, <2>2, Turns
  <2>4. RunIsSane(c)'
    BY <1>1, <1>2, <2>2, <2>3 DEF RunIsSane, Readable, Busy
  <2> HIDE DEF id
  <2>5. Types' /\ FilesAreTight' /\ AcceptsStored
    BY <1>1, <1>3, <2>1, <2>2, Turns, WriteKeeps DEF Types
  <2>6. DraftsStay /\ NoneStored /\ KeptIsStored'
    BY <1>1, <2>5, AsTheyAre, StoredStay
  <2>7. SessionIsFlow' /\ Continues(c)
    BY <1>1, <1>2, <2>1, <2>2, <2>3, SessionStays DEF Continues
  <2> QED
    BY <1>1, <2>1, <2>4, <2>5, <2>6, <2>7, KeepsOthers
<1>5. CASE ~Applicable(id)
  <2> DEFINE q == Skipped(r)
  <2>1. Turn(c, q) /\ UNCHANGED <<raw, rawRow, disk, row, accepted>>
    BY <1>5 DEF AcceptNext, files
  <2>2. /\ q \in Runs /\ q.stage = r.stage /\ q.flow = r.flow /\ q.version = r.version
        /\ q.name = r.name /\ q.seen = r.seen /\ q.batch = r.batch /\ q.i = r.i + 1
        /\ q.ids = r.ids /\ q.failed
    BY <1>2, SkippedRun
  <2> HIDE DEF q
  <2>3. run'[c] = q /\ r.i + 1 >= 1
    BY <1>1, <1>2, <2>1, <2>2, Turns DEF Runs
  <2>4. RunIsSane(c)'
    BY <1>1, <1>2, <2>2, <2>3 DEF RunIsSane, Readable, Busy
  <2> QED
    BY <1>1, <1>2, <2>1, <2>2, <2>4, QuietTurn
<1> QED
  BY <1>4, <1>5

LEMMA NoteNextKeeps == ASSUME IInv, NEW c \in Compilers, NoteNext(c) PROVE IInv'
<1> DEFINE r == run[c]
           id == r.ids[r.i]
           q == Noted(r)
<1>1. /\ Types /\ RunIsSane(c) /\ r.stage = "note" /\ Applied(id) /\ Turn(c, q)
      /\ UNCHANGED <<raw, rawRow, disk, row, receipts, session, edits, runs, accepted>>
  BY DEF IInv, NoteNext, files, counts, Stage
<1>2. /\ Busy(c) /\ r \in Runs /\ r.i >= 1 /\ r.i <= Len(r.ids) /\ r.flow /\ r.ids # <<>>
      /\ r.failed \/ \A k \in DOMAIN r.ids : k < r.i => drafts[r.ids[k]].applied
  BY <1>1, IdleOrRun DEF Busy, RunIsSane
<1>3. /\ r.i \in DOMAIN r.ids /\ id \in Ids /\ r.i \in Nat
      /\ \A k \in DOMAIN r.ids : k \in Nat /\ r.ids[k] \in Ids
  BY <1>1, <1>2, LenProperties, ElementOfSeq DEF Runs
<1>4. drafts[id] # Nothing
  BY <1>1, <1>2, <1>3 DEF RunIsSane
<1>5. DraftsStay /\ NoneStored /\ drafts'[id].applied
  <2> HIDE DEF id
  <2> QED
    BY <1>1, <1>3, <1>4, AppliedDraft
<1>6. /\ q \in Runs /\ q.stage = "apply" /\ q.flow = r.flow /\ q.version = r.version
      /\ q.name = r.name /\ q.seen = r.seen /\ q.batch = r.batch /\ q.i = r.i + 1
      /\ q.ids = r.ids /\ q.failed = r.failed
  BY <1>2, NotedRun
<1> HIDE DEF q
<1>7. run'[c] = q
  BY <1>1, <1>6, Turns
<1>8. RunIsSane(c)'
  <2>1. \A k \in DOMAIN r.ids : drafts[r.ids[k]] # Nothing
    BY <1>1, <1>2 DEF RunIsSane
  <2>2. \A k \in DOMAIN r.ids :
           /\ drafts'[r.ids[k]] # Nothing
           /\ drafts[r.ids[k]].applied => drafts'[r.ids[k]].applied
    BY <1>3, <1>5, <2>1 DEF DraftsStay
  <2>3. \A k \in DOMAIN r.ids : k < r.i + 1 => k < r.i \/ k = r.i
    BY <1>3
  <2>4. r.failed \/ \A k \in DOMAIN r.ids : k < r.i + 1 => drafts'[r.ids[k]].applied
    BY <1>2, <1>5, <2>2, <2>3
  <2>5. r.i + 1 >= 1
    BY <1>3
  <2> QED
    BY <1>1, <1>2, <1>6, <1>7, <2>2, <2>4, <2>5 DEF RunIsSane, Readable, Busy
<1>9. Types' /\ FilesAreTight' /\ SessionIsFlow' /\ Continues(c)
  BY <1>1, <1>2, <1>5, <1>6, <1>7, Turns, SessionStays
     DEF Types, IInv, FilesAreTight, Tight, DraftsStay, Continues
<1> QED
  BY <1>1, <1>5, <1>8, <1>9, NoneAccepted, StoredStay, KeepsOthers

LEMMA MarkKeeps == ASSUME IInv, NEW c \in Compilers, Mark(c) PROVE IInv'
<1>1. /\ Types /\ RunIsSane(c) /\ run[c].stage = "apply" /\ Turn(c, Idle)
      /\ session' = Freed(c) /\ UNCHANGED <<disk, drafts, receipts, edits, runs, accepted>>
  BY DEF IInv, Mark, Stage, files, tables, counts
<1>2. Busy(c) /\ run[c] \in Runs
  BY <1>1, IdleOrRun DEF Busy
<1>3. MaxEdits + run[c].name \in Versions /\ raw.from \in Versions
  BY <1>1, <1>2, BoundAssumption DEF RunIsSane, Runs, Types, Versions, Raw
<1>4. raw' \in Raw /\ rawRow' \in Raw /\ row' \in Seen /\ FilesAreTight'
  <2>1. CASE UNCHANGED files
    BY <1>1, <2>1 DEF files, IInv, Types, FilesAreTight, Tight
  <2>2. CASE ~UNCHANGED files
    <3>1. /\ raw' = [raw EXCEPT !.from = MaxEdits + run[c].name, !.of = raw.from]
          /\ rawRow' = raw' /\ row' = disk'
      BY <2>2 DEF Mark, Indexed
    <3>2. raw' \in Raw
      BY <1>1, <1>3, <3>1 DEF Types, Raw
    <3> QED
      BY <1>1, <3>1, <3>2 DEF IInv, Types, FilesAreTight, Tight
  <2> QED
    BY <2>1, <2>2
<1>5. DraftsStay /\ NoneStored /\ KeptIsStored'
  BY <1>1, AllStay
<1>6. Types' /\ SessionIsFlow'
  BY <1>1, <1>4, Turns, SessionGoes DEF Types
<1>7. RunIsSane(c)' /\ Continues(c)
  BY <1>1, IdleIsSane
<1> QED
  BY <1>1, <1>4, <1>5, <1>6, <1>7, KeepsOthers

-----------------------------------------------------------------------------
\* A new run: it has a name of its own, and has read nothing yet.
IsNew(r, flow) ==
    /\ r \in Runs /\ r.name = runs' /\ r.flow = flow /\ r.batch = <<>> /\ r.i = 1
    /\ \A t \in Slugs : r.seen[t] = Absent
    /\ \A k \in DOMAIN r.ids : drafts[r.ids[k]] # Nothing
    /\ r.stage = "read" \/ (r.stage = "apply" /\ flow /\ r.ids # <<>>)

LEMMA CompileStarts ==
  ASSUME IInv, NEW c \in Compilers, NEW flow \in BOOLEAN, rawRow' \in Raw, runs' \in Nat,
         Compile(c, flow)
  PROVE  /\ receipts' \in [Versions -> Receipt \cup {Nothing}]
         /\ \A w \in Versions : receipts'[w] \in {receipts[w], Nothing}
         /\ (~flow /\ Turn(c, Idle)) \/ \E r \in Runs : Turn(c, r) /\ IsNew(r, flow)
<1> DEFINE v == rawRow'
<1>1. Types /\ KeptIsStored /\ v \in Raw /\ v.from \in Versions
  BY DEF IInv, Raw
<1>2. CASE Reusable(v.from)
  <2> DEFINE ids == receipts[v.from].ids
             r == Started(v, flow, "apply", ids)
  <2>1. UNCHANGED receipts /\ Turn(c, IF flow THEN r ELSE Idle)
    BY <1>2 DEF Compile
  <2>2. /\ receipts[v.from] \in Receipt /\ ids # <<>>
        /\ \A k \in DOMAIN ids : drafts[ids[k]] # Nothing
    BY <1>1, <1>2 DEF Types, Reusable, Reported, KeptIsStored
  <2>3. ids \in Seq(Ids)
    BY <2>2 DEF Receipt
  <2> HIDE DEF ids, v
  <2>4. /\ r \in Runs /\ r.stage = "apply" /\ r.flow = flow /\ r.name = runs'
        /\ r.batch = <<>> /\ r.i = 1 /\ r.ids = ids /\ \A t \in Slugs : r.seen[t] = Absent
    BY <1>1, <2>3, StartedRun DEF Stages
  <2> HIDE DEF r
  <2>5. flow => IsNew(r, flow)
    BY <2>2, <2>4 DEF IsNew, ids
  <2>6. \/ ~flow /\ Turn(c, Idle)
        \/ \E p \in Runs : Turn(c, p) /\ IsNew(p, flow)
    BY <2>1, <2>4, <2>5
  <2> QED
    BY <1>1, <2>1, <2>6 DEF Types
<1>3. CASE ~Reusable(v.from)
  <2>1. receipts' = [receipts EXCEPT ![v.from] = Nothing]
        /\ Turn(c, Started(v, flow, "read", <<>>))
    BY <1>3 DEF Compile
  <2>2. PICK ids \in Seq(Ids) : ids = <<>> /\ \A k \in DOMAIN ids : FALSE
    <3>1. <<>> \in Seq(Ids) /\ \A k \in DOMAIN <<>> : FALSE
      OBVIOUS
    <3> QED
      BY <3>1
  <2> HIDE DEF v
  <2> DEFINE r == Started(v, flow, "read", ids)
  <2>3. /\ r \in Runs /\ r.stage = "read" /\ r.flow = flow /\ r.name = runs'
        /\ r.batch = <<>> /\ r.i = 1 /\ r.ids = ids /\ \A t \in Slugs : r.seen[t] = Absent
    BY <1>1, StartedRun DEF Stages
  <2> HIDE DEF r
  <2>4. IsNew(r, flow)
    BY <2>2, <2>3 DEF IsNew
  <2>5. /\ receipts' \in [Versions -> Receipt \cup {Nothing}]
        /\ \A w \in Versions : receipts'[w] \in {receipts[w], Nothing}
    BY <1>1, <2>1 DEF Types
  <2> QED
    BY <2>1, <2>2, <2>3, <2>4, <2>5 DEF r
<1> QED
  BY <1>2, <1>3

\* A step that starts a run.
LEMMA StartKeeps ==
  ASSUME IInv, NEW c \in Compilers, NEW flow \in BOOLEAN, Stage(c, "idle"), runs < MaxRuns,
         runs' = runs + 1, Compile(c, flow), raw' \in Raw, rawRow' \in Raw, disk' \in Seen,
         row' \in Seen, FilesAreTight', UNCHANGED <<drafts, edits, accepted>>,
         IF flow THEN session = Nothing /\ session' = c ELSE UNCHANGED session
  PROVE  IInv'
<1>1. /\ Types /\ NamesAreOwn /\ SessionIsFlow /\ ~Busy(c)
      /\ \A e \in Compilers : RunIsSane(e)
      /\ \A id \in Ids : DraftIsSane(id)
  BY DEF IInv, Stage, Busy
<1>2. runs \in Nat /\ runs' \in 0..MaxRuns /\ runs' \in Nat /\ runs <= runs' /\ runs' >= 1
  BY <1>1, BoundAssumption DEF Types
<1>3. /\ receipts' \in [Versions -> Receipt \cup {Nothing}]
      /\ \A w \in Versions : receipts'[w] \in {receipts[w], Nothing}
      /\ (~flow /\ Turn(c, Idle)) \/ \E r \in Runs : Turn(c, r) /\ IsNew(r, flow)
  BY <1>2, CompileStarts
<1>4. DraftsStay /\ NoneStored
  BY <1>1, AsTheyAre
<1>5. KeptIsStored'
  BY <1>3 DEF IInv, KeptIsStored, Reported
<1>6. PICK r \in Runs \cup {Idle} : Turn(c, r) /\ ((~flow /\ r = Idle) \/ (r \in Runs /\ IsNew(r, flow)))
  BY <1>3
<1>7. /\ run' \in [Compilers -> Runs \cup {Idle}] /\ run'[c] = r
      /\ \A e \in Compilers : e # c => run'[e] = run[e]
  BY <1>1, <1>6, Turns
<1>8. session' \in Compilers \cup {Nothing}
  BY <1>1 DEF Types
<1>9. Types'
  BY <1>1, <1>2, <1>3, <1>4, <1>7, <1>8 DEF Types, DraftsStay
<1>10. Nothing \notin Compilers
  BY NothingAssumption
<1>11. Idle.stage = "idle" /\ \A p \in Runs : p.stage # "idle"
  BY DEF Idle, Runs, Stages
<1>12. SessionIsFlow'
  <2>1. CASE flow
    <3>1. run'[c].flow /\ Busy(c)' /\ session' = c /\ session = Nothing
      BY <1>6, <1>7, <1>11, <2>1 DEF IsNew, Busy
    <3>2. \A e \in Compilers : ~(Busy(e) /\ run[e].flow)
      BY <1>1, <1>10, <3>1 DEF SessionIsFlow
    <3> QED
      BY <1>7, <3>1, <3>2 DEF SessionIsFlow, Busy
  <2>2. CASE ~flow
    <3>1. session' = session /\ session # c /\ ~(Busy(c)' /\ run'[c].flow)
      BY <1>1, <1>6, <1>7, <1>11, <2>2 DEF IsNew, Busy, SessionIsFlow
    <3> QED
      BY <1>1, <1>7, <3>1 DEF SessionIsFlow, Busy
  <2> QED
    BY <2>1, <2>2
<1>13. RunIsSane(c)'
  <2>1. CASE r = Idle
    BY <1>7, <1>11, <2>1 DEF RunIsSane, Busy
  <2>2. CASE r \in Runs /\ IsNew(r, flow)
    <3>1. DOMAIN <<>> = {} /\ 1 >= 1 /\ r.name <= runs' /\ r.name >= 1
      BY <1>2, <2>2 DEF IsNew
    <3>2. \A k \in DOMAIN r.ids : ~(k < 1)
      BY <2>2, LenProperties DEF Runs
    <3>3. \A k \in DOMAIN r.ids : k < 1 => drafts'[r.ids[k]].applied
      BY <3>2
    <3> QED
      BY <1>7, <2>2, <3>1, <3>3 DEF RunIsSane, Readable, IsNew
  <2> QED
    BY <1>6, <2>1, <2>2
<1>14. \A e \in Compilers : RunIsSane(e)'
  BY <1>1, <1>2, <1>4, <1>7, <1>13, RunStaysSane
<1>15. \A id \in Ids : DraftIsSane(id)'
  BY <1>1, <1>2, <1>4, DraftStaysSane DEF NoneStored
<1>16. NamesAreOwn'
  <2>1. Busy(c)' => run'[c].name = runs'
    BY <1>6, <1>7, <1>11 DEF IsNew, Busy
  <2>2. ASSUME NEW e \in Compilers, e # c, Busy(e) PROVE run[e].name # runs'
    <3>1. run[e].name \in Nat /\ run[e].name <= runs
      BY <1>1, <2>2, IdleOrRun DEF RunIsSane, Runs
    <3> QED
      BY <1>2, <3>1
  <2>3. ASSUME NEW id \in Ids, drafts[id] # Nothing PROVE drafts[id].file.from[1] # runs'
    <3>1. drafts[id].file.from[1] \in Nat
      BY <1>1, <2>3 DEF Types, Stored, File, Origins
    <3>2. drafts[id].file.from[1] <= runs
      BY <1>1, <2>3 DEF DraftIsSane
    <3> QED
      BY <1>2, <3>1, <3>2
  <2>4. \A e \in Compilers : e # c => (Busy(e)' <=> Busy(e))
    BY <1>7 DEF Busy
  <2>5. \A e, f \in Compilers : Busy(e)' /\ Busy(f)' /\ run'[f].name = run'[e].name => f = e
    BY <1>1, <1>7, <2>1, <2>2, <2>4 DEF NamesAreOwn
  <2>6. ASSUME NEW e \in Compilers, Busy(e)', NEW id \in Ids, drafts[id] # Nothing,
               drafts[id].file.from[1] = run'[e].name
        PROVE  id[1] = run'[e].version.from
    <3>1. e # c
      BY <2>1, <2>3, <2>6
    <3> QED
      BY <1>1, <1>7, <2>4, <2>6, <3>1 DEF NamesAreOwn
  <2> QED
    BY <1>1, <2>5, <2>6 DEF NamesAreOwn
<1> QED
  BY <1>5, <1>9, <1>12, <1>14, <1>15, <1>16 DEF IInv

LEMMA BeginKeeps == ASSUME IInv, NEW c \in Compilers, Begin(c) PROVE IInv'
<1>1. /\ Stage(c, "idle") /\ runs < MaxRuns /\ runs' = runs + 1 /\ Compile(c, FALSE)
      /\ UNCHANGED <<raw, rawRow, disk, row, drafts, session, edits, accepted>>
  BY DEF Begin, files
<1>2. raw' \in Raw /\ rawRow' \in Raw /\ disk' \in Seen /\ row' \in Seen /\ FilesAreTight'
  BY <1>1 DEF IInv, Types, FilesAreTight, Tight
<1> QED
  BY <1>1, <1>2, StartKeeps

LEMMA BeginFlowKeeps == ASSUME IInv, NEW c \in Compilers, BeginFlow(c) PROVE IInv'
<1>1. /\ Stage(c, "idle") /\ runs < MaxRuns /\ runs' = runs + 1 /\ Compile(c, TRUE)
      /\ session = Nothing /\ session' = c /\ rawRow' = raw' /\ row' = disk'
      /\ UNCHANGED <<raw, disk, drafts, edits, accepted>>
  BY DEF BeginFlow, Indexed
<1>2. raw' \in Raw /\ rawRow' \in Raw /\ disk' \in Seen /\ row' \in Seen /\ FilesAreTight'
  BY <1>1 DEF IInv, Types, FilesAreTight, Tight
<1> QED
  BY <1>1, <1>2, StartKeeps

-----------------------------------------------------------------------------
LEMMA IInvInit == ASSUME Init PROVE IInv
<1>1. /\ edits = 0 /\ runs = 0 /\ session = Nothing /\ accepted = {}
      /\ drafts = [id \in Ids |-> Nothing] /\ receipts = [v \in Versions |-> Nothing]
      /\ run = [c \in Compilers |-> Idle] /\ rawRow = raw /\ row = disk
      /\ \E r \in Marks : raw = NewRaw(0, r)
      /\ \E f \in Found :
            disk = [s \in Slugs |-> IF f[s] = Absent THEN Absent ELSE ByHand(0, f[s])]
  BY DEF Init
<1>2. raw \in Raw
  <2>1. PICK r \in Marks : raw = NewRaw(0, r)
    BY <1>1
  <2>2. 0 \in Versions
    BY BoundAssumption DEF Versions
  <2> QED
    BY MarkAssumption, <2>1, <2>2 DEF NewRaw, Raw
<1>3. \A f \in {Absent} \cup {ByHand(0, r) : r \in Marks} : f \in File \cup {Absent} /\ Tight(f)
  <2>1. ASSUME NEW r \in Marks PROVE ByHand(0, r) \in File /\ Tight(ByHand(0, r))
    BY HandsAreTight
  <2> QED
    BY <2>1 DEF Tight
<1>4. disk \in Seen /\ FilesAreTight
  <2>1. PICK f \in Found :
           disk = [s \in Slugs |-> IF f[s] = Absent THEN Absent ELSE ByHand(0, f[s])]
    BY <1>1
  <2>2. f \in [Slugs -> Marks \cup {Absent}]
    BY MarkAssumption
  <2>3. disk \in [Slugs -> {Absent} \cup {ByHand(0, r) : r \in Marks}]
    BY <2>1, <2>2
  <2>4. \A s \in Slugs : disk[s] \in File \cup {Absent} /\ Tight(disk[s])
    BY <2>3, <1>3
  <2>5. row = disk
    BY <1>1
  <2> QED
    BY <2>3, <2>4, <2>5 DEF Seen, FilesAreTight
<1>5. Types
  BY <1>1, <1>2, <1>4, BoundAssumption DEF Types
<1>6. \A c \in Compilers : ~Busy(c)
  BY <1>1 DEF Busy, Idle
<1>7. SessionIsFlow
  BY <1>1, <1>6, NothingAssumption DEF SessionIsFlow
<1>8. KeptIsStored
  BY <1>1 DEF KeptIsStored, Reported
<1>9. NamesAreOwn /\ \A id \in Ids : DraftIsSane(id)
  BY <1>1, <1>6 DEF NamesAreOwn, DraftIsSane
<1>10. \A c \in Compilers : RunIsSane(c)
  BY <1>6 DEF RunIsSane
<1> QED
  BY <1>4, <1>5, <1>7, <1>8, <1>9, <1>10 DEF IInv

LEMMA IInvNext == ASSUME IInv, [Next]_vars PROVE IInv'
<1>1. CASE UNCHANGED vars
  <2>1. UNCHANGED <<raw, rawRow, disk, row, drafts, receipts, session, run, edits, runs, accepted>>
    BY <1>1 DEF vars, files, tables, counts
  <2>2. Types' /\ FilesAreTight'
    BY <2>1 DEF IInv, Types, FilesAreTight, Tight
  <2>3. DraftsStay /\ NoneStored /\ KeptIsStored'
    BY <2>1, AllStay
  <2> QED
    BY <2>1, <2>2, <2>3, KeepsRuns
<1>2. ASSUME NEW s \in Slugs, DeleteArticle(s) \/ \E r \in Marks : EditArticle(s, r) PROVE IInv'
  BY <1>2, DeleteArticleKeeps, EditArticleKeeps
<1>3. CASE Sync \/ \E r \in Marks : EditRaw(r)
  BY <1>3, SyncKeeps, EditRawKeeps
<1>4. ASSUME NEW c \in Compilers,
             \/ Begin(c) \/ Draft(c) \/ Cancel(c) \/ Report(c) \/ Fail(c)
             \/ BeginFlow(c) \/ AcceptNext(c) \/ NoteNext(c) \/ Mark(c)
             \/ \E b \in Batches : Ask(c, b)
      PROVE  IInv'
  BY <1>4, BeginKeeps, DraftKeeps, CancelKeeps, ReportKeeps, FailKeeps, BeginFlowKeeps,
     AcceptNextKeeps, NoteNextKeeps, MarkKeeps, AskKeeps
<1>5. ASSUME NEW id \in Ids, Accept(id) \/ Note(id) PROVE IInv'
  BY <1>5, AcceptKeeps, NoteKeeps
<1> QED
  BY <1>1, <1>2, <1>3, <1>4, <1>5 DEF Next

\* The invariant the theorems rest on: every step of a compiler, reviewer, workflow
\* or editor keeps it.
THEOREM IInvHolds == Spec => []IInv
<1>1. Init => IInv
  BY IInvInit
<1>2. IInv /\ [Next]_vars => IInv'
  BY IInvNext
<1> QED
  BY <1>1, <1>2, PTL DEF Spec

-----------------------------------------------------------------------------
\* No article is less restricted, by the policy, than what went into it, if the
\* flags of all of that are well-formed, whatever runs, edits and crashes came
\* before; and the types.
THEOREM NothingLeaks == Spec => []NoLeak
<1>1. IInv => NoLeak
  <2> SUFFICES ASSUME IInv PROVE NoLeak
    OBVIOUS
  <2>1. /\ Types /\ KeptIsStored /\ SessionIsFlow /\ FilesAreTight
        /\ \A id \in Ids : DraftIsSane(id)
    BY DEF IInv
  <2>2. /\ raw \in Raw /\ rawRow \in Raw
        /\ disk \in [Slugs -> File \cup {Absent}] /\ row \in [Slugs -> File \cup {Absent}]
        /\ edits \in Nat /\ runs \in Nat
    BY <2>1, BoundAssumption DEF Types, Seen
  <2>3. ASSUME NEW id \in Ids, drafts[id] # Nothing
        PROVE  IsDraft(drafts[id]) /\ drafts[id].version.from = id[1]
    <3>1. drafts[id] \in Stored /\ DraftIsSane(id)
      BY <2>1, <2>3 DEF Types
    <3>2. DOMAIN drafts[id].guards \subseteq Slugs \ {drafts[id].target}
      BY <2>3, <3>1 DEF DraftIsSane, Consulted
    <3> QED
      BY <2>3, <3>1, <3>2 DEF Stored, IsDraft, DraftIsSane
  <2>4. ASSUME NEW c \in Compilers
        PROVE  /\ run[c] = Idle \/ run[c].stage \in Stages
               /\ session = c <=> run[c] # Idle /\ run[c].flow
    BY <2>1, IdleOrRun DEF SessionIsFlow, Busy
  <2>5. TypeOK
    BY <2>1, <2>2, <2>3, <2>4 DEF TypeOK, KeptIsStored
  <2>6. ASSUME NEW s \in Slugs, disk[s] # Absent, disk[s].sound
        PROVE  disk[s].secret <= Policy(disk[s].meta)
    BY <2>1, <2>6 DEF FilesAreTight, Tight
  <2> QED
    BY <2>5, <2>6 DEF NoLeak
<1> QED
  BY <1>1, IInvHolds, PTL

-----------------------------------------------------------------------------
\* The steps that change an article by hand, or by accepting a draft.
LEMMA DiskSteps ==
  ASSUME IInv, [Next]_vars
  PROVE  \/ UNCHANGED disk
         \/ \E s \in Slugs : disk' = [disk EXCEPT ![s] = Absent]
         \/ \E s \in Slugs, r \in Marks : disk' = [disk EXCEPT ![s] = ByHand(edits', r)]
         \/ \E id \in Ids : Applicable(id) /\ disk' = [disk EXCEPT ![drafts[id].target] = drafts[id].file]
<1>1. CASE UNCHANGED vars
  BY <1>1 DEF vars, files
<1>2. ASSUME NEW s \in Slugs, DeleteArticle(s) \/ \E r \in Marks : EditArticle(s, r)
      PROVE  \/ disk' = [disk EXCEPT ![s] = Absent]
             \/ \E r \in Marks : disk' = [disk EXCEPT ![s] = ByHand(edits', r)]
  BY <1>2 DEF DeleteArticle, EditArticle
<1>3. CASE Sync \/ \E r \in Marks : EditRaw(r)
  BY <1>3 DEF Sync, EditRaw
<1>4. ASSUME NEW c \in Compilers, AcceptNext(c)
      PROVE  \/ UNCHANGED disk
             \/ \E id \in Ids : Applicable(id) /\ disk' = [disk EXCEPT ![drafts[id].target] = drafts[id].file]
  <2> DEFINE id == run[c].ids[run[c].i]
  <2>1. CASE Applicable(id)
    <3>1. Types /\ RunIsSane(c) /\ run[c].stage = "apply" /\ run[c].i <= Len(run[c].ids)
      BY <1>4 DEF IInv, AcceptNext, ToApply, Stage
    <3>2. run[c] \in Runs /\ run[c].i >= 1
      BY <3>1, IdleOrRun DEF Busy, RunIsSane
    <3>3. id \in Ids
      BY <3>1, <3>2, LenProperties, ElementOfSeq DEF Runs
    <3>4. disk' = [disk EXCEPT ![drafts[id].target] = drafts[id].file]
      BY <1>4, <2>1 DEF AcceptNext, Write
    <3> QED
      BY <2>1, <3>3, <3>4
  <2>2. CASE ~Applicable(id)
    BY <1>4, <2>2 DEF AcceptNext, files
  <2> QED
    BY <2>1, <2>2
<1>5. ASSUME NEW c \in Compilers,
             \/ Begin(c) \/ Draft(c) \/ Cancel(c) \/ Report(c) \/ Fail(c)
             \/ BeginFlow(c) \/ NoteNext(c) \/ Mark(c) \/ \E b \in Batches : Ask(c, b)
      PROVE  UNCHANGED disk
  BY <1>5 DEF Begin, Draft, Cancel, Report, Fail, BeginFlow, NoteNext, Mark, Ask, files
<1>6. ASSUME NEW id \in Ids, Accept(id) \/ Note(id)
      PROVE  \/ UNCHANGED disk
             \/ Applicable(id) /\ disk' = [disk EXCEPT ![drafts[id].target] = drafts[id].file]
  BY <1>6 DEF Accept, Write, Note, files
<1> QED
  BY <1>1, <1>2, <1>3, <1>4, <1>5, <1>6 DEF Next

\* Bytes that reach a file as those of a draft are written by its acceptance:
\* no other draft and no hand has bytes of that origin.
LEMMA WritesAreApplied ==
  ASSUME IInv, [Next]_vars, NEW id \in Ids, Writes(id)
  PROVE  Applicable(id)
<1> DEFINE d == drafts[id]
<1>1. /\ Types /\ NamesAreOwn /\ \A jd \in Ids : DraftIsSane(jd)
      /\ d # Nothing /\ disk'[d.target] = d.file /\ disk[d.target] # d.file
  BY DEF IInv, Writes
<1>2. d \in Stored
  BY <1>1 DEF Types
<1>3. d.target \in Slugs /\ d.file \in File /\ d.file.from[1] # 0
  <2>1. d.target \in Slugs /\ d.file \in File
    BY <1>2 DEF Stored
  <2>2. d.file.from[1] >= 1
    BY <1>1 DEF DraftIsSane
  <2> QED
    BY <2>1, <2>2
<1>4. DOMAIN disk = Slugs
  BY <1>1 DEF Types, Seen
<1>5. disk' # disk
  BY <1>1
<1>6. ASSUME NEW s \in Slugs, disk' = [disk EXCEPT ![s] = Absent] PROVE FALSE
  <2>1. disk'[d.target] \in {disk[d.target], Absent}
    BY <1>3, <1>4, <1>6
  <2> QED
    BY <1>1, <1>3, <2>1, AbsentAssumption
<1>7. ASSUME NEW s \in Slugs, NEW r \in Marks, disk' = [disk EXCEPT ![s] = ByHand(edits', r)]
      PROVE  FALSE
  <2>1. disk'[d.target] \in {disk[d.target], ByHand(edits', r)}
    BY <1>3, <1>4, <1>7
  <2>2. ByHand(edits', r).from[1] = 0
    BY DEF ByHand
  <2> QED
    BY <1>1, <1>3, <2>1, <2>2
<1>8. ASSUME NEW jd \in Ids, Applicable(jd),
             disk' = [disk EXCEPT ![drafts[jd].target] = drafts[jd].file]
      PROVE  jd = id
  <2>1. drafts[jd] # Nothing
    BY <1>8 DEF Applicable
  <2>2. disk'[d.target] \in {disk[d.target], drafts[jd].file}
    BY <1>3, <1>4, <1>8
  <2>3. d.file = drafts[jd].file
    BY <1>1, <2>2
  <2>4. jd[1] = id[1]
    BY <1>1, <2>1, <2>3 DEF NamesAreOwn
  <2>5. jd[2] = id[2]
    BY <1>1, <2>1, <2>3 DEF DraftIsSane
  <2> QED
    BY <2>4, <2>5 DEF Ids
<1> QED
  BY <1>5, <1>6, <1>7, <1>8, DiskSteps

\* A draft is published only over the text it was merged into, and while the
\* source and every article its model saw are what the model saw.
THEOREM ReviewedOnly == Spec => AcceptedAsReviewed
<1>1. ASSUME IInv, [Next]_vars PROVE AcceptedAsReviewedStep
  <2> SUFFICES ASSUME NEW id \in Ids, Writes(id)
               PROVE  LET d == drafts[id]
                      IN  /\ raw = d.version /\ disk[d.target] = d.base
                          /\ \A s \in Consulted(d.seen) \ {d.target} : disk[s] = d.seen[s]
    BY DEF AcceptedAsReviewedStep
  <2> DEFINE d == drafts[id]
  <2>1. /\ d # Nothing /\ raw = d.version /\ disk[d.target] = Expected(d)
        /\ \A s \in DOMAIN d.guards : disk[s] = d.guards[s]
        /\ disk[d.target] # d.file
    BY <1>1, WritesAreApplied DEF Applicable, GuardsHold, Writes
  <2>2. disk[d.target] = d.base
    BY <2>1 DEF Expected
  <2>3. d.guards = [s \in Consulted(d.seen) \ {d.target} |-> d.seen[s]]
    BY <1>1, <2>1 DEF IInv, DraftIsSane
  <2> QED
    BY <2>1, <2>2, <2>3
<1> QED
  BY <1>1, IInvHolds, PTL DEF Spec, AcceptedAsReviewed

\* Once a draft reads applied it is not written again.
THEOREM AppliedOnce == Spec => AppliedIsFinal
<1>1. ASSUME IInv, [Next]_vars PROVE AppliedIsFinalStep
  <2> SUFFICES ASSUME NEW id \in Ids, Writes(id) PROVE ~drafts[id].applied
    BY DEF AppliedIsFinalStep
  <2>1. Applicable(id) /\ disk[drafts[id].target] # drafts[id].file
    BY <1>1, WritesAreApplied DEF Writes
  <2> QED
    BY <2>1 DEF Applicable, Expected
<1> QED
  BY <1>1, IInvHolds, PTL DEF Spec, AppliedIsFinal

-----------------------------------------------------------------------------
\* Only a hand or a mark changes the source.
LEMMA RawSteps ==
  ASSUME [Next]_vars
  PROVE  \/ UNCHANGED raw \/ (\E r \in Marks : EditRaw(r)) \/ \E c \in Compilers : Mark(c)
<1>1. CASE UNCHANGED vars
  BY <1>1 DEF vars, files
<1>2. ASSUME NEW s \in Slugs, DeleteArticle(s) \/ \E r \in Marks : EditArticle(s, r)
      PROVE  UNCHANGED raw
  BY <1>2 DEF DeleteArticle, EditArticle
<1>3. CASE Sync
  BY <1>3 DEF Sync
<1>4. ASSUME NEW c \in Compilers,
             \/ Begin(c) \/ Draft(c) \/ Cancel(c) \/ Report(c) \/ Fail(c)
             \/ BeginFlow(c) \/ AcceptNext(c) \/ NoteNext(c) \/ \E b \in Batches : Ask(c, b)
      PROVE  UNCHANGED raw
  BY <1>4 DEF Begin, Draft, Cancel, Report, Fail, BeginFlow, AcceptNext, Write, NoteNext, Ask,
              files
<1>5. ASSUME NEW id \in Ids, Accept(id) \/ Note(id) PROVE UNCHANGED raw
  BY <1>5 DEF Accept, Write, Note, files
<1> QED
  BY <1>1, <1>2, <1>3, <1>4, <1>5 DEF Next

\* A source says it is compiled only if this very text was, and every draft of
\* its report has been accepted.
THEOREM CompiledWhole == Spec => MarkedIsComplete
<1>1. ASSUME IInv, [Next]_vars PROVE MarkedIsCompleteStep
  <2> SUFFICES ASSUME raw'.of \notin {Nothing, raw.of}
               PROVE  /\ raw.from = raw'.of
                      /\ \E c \in Compilers :
                            /\ session = c /\ run[c].ids # <<>> /\ run[c].version = raw
                            /\ \A k \in DOMAIN run[c].ids : drafts[run[c].ids[k]].applied
    BY DEF MarkedIsCompleteStep
  <2>1. Types /\ raw \in Raw
    BY <1>1 DEF IInv, Types
  <2>2. ASSUME NEW r \in Marks, EditRaw(r) PROVE FALSE
    BY <2>2 DEF EditRaw, NewRaw
  <2>3. PICK c \in Compilers : Mark(c)
    BY <1>1, <2>2, RawSteps
  <2>4. /\ Complete(c) /\ raw = run[c].version
        /\ raw' = [raw EXCEPT !.from = MaxEdits + run[c].name, !.of = raw.from]
    BY <2>3 DEF Mark, files
  <2>5. raw'.of = raw.from
    BY <2>1, <2>4 DEF Raw
  <2>6. Stage(c, "apply") /\ run[c].i > Len(run[c].ids)
    BY <2>3 DEF Mark
  <2>7. /\ Busy(c) /\ run[c] \in Runs /\ run[c].flow /\ run[c].ids # <<>>
        /\ \A k \in DOMAIN run[c].ids : k < run[c].i => drafts[run[c].ids[k]].applied
    BY <1>1, <2>1, <2>4, <2>6, IdleOrRun DEF IInv, RunIsSane, Busy, Stage, Complete
  <2>8. \A k \in DOMAIN run[c].ids : k < run[c].i
    BY <2>6, <2>7, LenProperties DEF Runs
  <2>9. session = c
    BY <1>1, <2>7 DEF IInv, SessionIsFlow
  <2> QED
    BY <2>4, <2>5, <2>7, <2>8, <2>9
<1> QED
  BY <1>1, IInvHolds, PTL DEF Spec, MarkedIsComplete
=============================================================================
