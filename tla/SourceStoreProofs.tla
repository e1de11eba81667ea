--------------------------- MODULE SourceStoreProofs ---------------------------
(***************************************************************************)
(* Theorems about SourceStore, for any files, contents and callers, any    *)
(* number of intents and edits: what the index says of the files, and that *)
(* the store implements AcceptedFiles.                                     *)
(***************************************************************************)
EXTENDS SourceStore, SequenceTheorems, TLAPS

Last == Len(intents)

\* An intent is of the files its operation is for.
OfItsFiles(i) ==
    /\ i.op = "write_asset" => i.path \in Assets
    /\ i.op # "write_asset" => i.path \in Sources /\ i.target \in Sources
    /\ i.op = "rename" => i.path # i.target
    /\ i.op # "rename" => i.target = i.path

IntentsAreSane ==
    /\ \A k \in DOMAIN intents : OfItsFiles(intents[k].op)
    /\ \A k \in Pending : k = Last

\* The files, where nobody edited them, as far as the operation has come.
Done(p) == \A k \in Pending :
              p \in touched \/ file[p] = Accepted!Outcome(intents[k].op, p, file[p])

StepIsSane ==
    LET i == Current(cursor)
    IN  /\ stage = "ready" => Pending = {}
        /\ stage = "mark" => Pending # {}
        /\ stage \in {"install", "replace", "unlink", "drop"} => cursor \in Pending
        /\ stage \in {"install", "replace"} => i.op # "delete"
        /\ stage \in {"unlink", "drop"} => i.op \in {"delete", "rename"}
        /\ stage = "replace" => i.target \in raced \/ file[i.target] = Want(i)
        /\ stage = "drop" => i.path \in raced \/ file[i.path] = i.expected
        /\ stage \in {"unlink", "drop"} /\ i.op = "rename" => Done(i.target)
        /\ stage \in {"read", "publish", "mark"} => \A p \in Paths : Done(p)

\* What was read is in the file still, or was edited.
ScanIsSane ==
    /\ stage \in {"read", "publish"} =>
          /\ seen \subseteq Sources \ todo /\ Sources \ todo \subseteq seen \cup dirty
          /\ \A p \in seen : scan[p] = file[p]
    /\ stage = "publish" => todo = {}

\* Revisions and tombstones are of rows, and none is newer than its row.
NoneIsNewer ==
    /\ \A k \in DOMAIN captured : k[1] \in DOMAIN rows /\ k[2] <= rows[k[1]].rev
    /\ \A t \in tombs : t[1] \in DOMAIN rows /\ t[2] <= rows[t[1]].rev

IndexIsSane == UniquePaths /\ ActiveIsCurrent /\ RevisionsAreExact /\ NoneIsNewer

\* The index agrees with a file.
Agrees(p) ==
    LET live == {s \in Holder(p) : ~rows[s].deleted}
    IN  IF file[p] = Absent THEN live = {} ELSE \E s \in live : rows[s].content = file[p]

IndexAgrees == ~NeedsSync \/ stage = "mark" => \A p \in Sources \ dirty : Agrees(p)

IInv == TypeOK /\ IntentsAreSane /\ StepIsSane /\ ScanIsSane /\ IndexIsSane /\ IndexAgrees

-----------------------------------------------------------------------------
\* At most the last intent is pending.
LEMMA PendingIsLast ==
  ASSUME TypeOK, IntentsAreSane
  PROVE  /\ Last \in Nat /\ DOMAIN intents = 1..Last /\ Pending \subseteq {Last}
         /\ \A k \in DOMAIN intents : intents[k] \in Intent /\ intents[k].op \in Accepted!Operation
<1>1. intents \in Seq(Intent)
  BY DEF TypeOK
<1>2. Last \in Nat /\ DOMAIN intents = 1..Last /\ \A k \in DOMAIN intents : intents[k] \in Intent
  BY <1>1, LenProperties, ElementOfSeq DEF Last
<1> QED
  BY <1>2 DEF IntentsAreSane, Intent

LEMMA CursorsIntent ==
  ASSUME TypeOK, IntentsAreSane, cursor \in Pending
  PROVE  /\ Pending = {cursor} /\ cursor \in DOMAIN intents
         /\ Current(cursor) \in Accepted!Operation /\ OfItsFiles(Current(cursor))
         /\ Current(cursor).path \in Paths /\ Current(cursor).target \in Paths
         /\ Current(cursor).content \in Held /\ Current(cursor).expected \in Held
<1>1. Pending = {cursor} /\ cursor \in DOMAIN intents
  BY PendingIsLast DEF Pending
<1>2. Current(cursor) \in Accepted!Operation /\ OfItsFiles(Current(cursor))
  BY <1>1, PendingIsLast DEF Current, IntentsAreSane
<1> QED
  BY <1>1, <1>2 DEF Accepted!Operation, Held

\* recover_locked begins with the pending intent.
LEMMA ProceedStarts ==
  ASSUME TypeOK, IntentsAreSane, Pending # {}, Proceed(0)
  PROVE  /\ cursor' \in Pending /\ stage' = FirstStep(cursor')
         /\ UNCHANGED <<todo, scan, seen>>
<1>1. Pending = {Last} /\ Last \in Nat /\ Last > 0
  BY PendingIsLast DEF Pending
<1>2. {k \in Pending : k > 0} = {Last}
  BY <1>1
<1>3. (CHOOSE k \in {Last} : \A l \in {Last} : k <= l) = Last
  BY <1>1
<1> QED
  BY <1>1, <1>2, <1>3 DEF Proceed

\* And ends when that is carried out.
LEMMA ProceedEnds ==
  ASSUME TypeOK, IntentsAreSane, cursor \in Pending, Proceed(cursor)
  PROVE  /\ cursor' = 0
         /\ IF NeedsSync THEN StartScan ELSE stage' = "mark" /\ UNCHANGED <<todo, scan, seen>>
<1>1. Pending = {cursor} /\ cursor \in Nat
  BY PendingIsLast DEF Pending
<1>2. {k \in Pending : k > cursor} = {}
  BY <1>1
<1> QED
  BY <1>2 DEF Proceed

\* Where the tables but for the intents stay, the index is as sane as it was.
LEMMA IndexStaysSane ==
  ASSUME IndexIsSane, UNCHANGED <<rows, captured, tombs, active>>
  PROVE  IndexIsSane'
BY DEF IndexIsSane, UniquePaths, ActiveIsCurrent, RevisionsAreExact, NoneIsNewer

LEMMA NothingMalformed == Absent \notin Malformed /\ Unread \in [Sources -> Held \ Malformed]
BY FileAssumption DEF Unread, Held

LEMMA ReleaseTypes ==
  ASSUME TypeOK, Release, UNCHANGED <<intents>>
  PROVE  /\ stage' = "free" /\ own' \in BOOLEAN /\ cursor' = 0 /\ todo' \subseteq Sources
         /\ scan' \in [Sources -> Held \ Malformed] /\ seen' \subseteq Sources
BY NothingMalformed DEF Release

\* Nothing is asked of a state where no operation is under way.
LEMMA FreeIsSane ==
  ASSUME stage' \in {"free", "load"} PROVE StepIsSane' /\ ScanIsSane'
BY DEF StepIsSane, ScanIsSane

LEMMA AgreesStays ==
  ASSUME IndexAgrees, UNCHANGED <<file, rows, intents, dirty>>, stage' = "mark" => stage = "mark" \/ ~NeedsSync
  PROVE  IndexAgrees'
BY DEF IndexAgrees, Agrees, Holder, NeedsSync, Pending

LEMMA IntentsStay == ASSUME IntentsAreSane, UNCHANGED intents PROVE IntentsAreSane'
BY DEF IntentsAreSane, Pending, Last

LEMMA InitIsSane == ASSUME Init PROVE IInv
<1>1. DOMAIN rows = {} /\ DOMAIN captured = {} /\ DOMAIN intents = {} /\ intents \in Seq(Intent)
  BY DEF Init
<1>2. Pending = {} /\ Sources \subseteq Paths
  BY <1>1 DEF Pending, Paths
<1>3. TypeOK
  <2>1. rows = [s \in {} |-> s] /\ captured = [s \in {} |-> s]
    BY DEF Init
  <2>2. rows \in [DOMAIN rows -> Row] /\ captured \in [DOMAIN captured -> [content : Contents, path : Sources]]
    BY <2>1
  <2> QED
    BY <1>1, <2>2, NothingMalformed DEF Init, TypeOK, Stages
<1>4. IntentsAreSane
  BY <1>1, <1>2 DEF IntentsAreSane
<1>5. StepIsSane
  BY <1>2 DEF StepIsSane, Init
<1>6. ScanIsSane
  BY DEF ScanIsSane, Init
<1>7. UniquePaths /\ RevisionsAreExact /\ NoneIsNewer
  BY <1>1 DEF UniquePaths, RevisionsAreExact, NoneIsNewer, Init
<1>8. ActiveIsCurrent
  BY <1>1 DEF ActiveIsCurrent, Init
<1>9. IndexAgrees
  BY DEF IndexAgrees, Init
<1> QED
  BY <1>3, <1>4, <1>5, <1>6, <1>7, <1>8, <1>9 DEF IInv, IndexIsSane

\* What is left to show of a step that changes neither tables nor files.
LEMMA TablesStay ==
  ASSUME IInv, UNCHANGED <<disk, tables>>, stage' = "mark" => stage = "mark" \/ ~NeedsSync
  PROVE  IntentsAreSane' /\ IndexIsSane' /\ IndexAgrees' /\ Pending' = Pending
<1>1. UNCHANGED <<file, dirty, intents, rows, captured, tombs, active>>
  BY DEF disk, tables
<1>2. IntentsAreSane'
  BY <1>1, IntentsStay DEF IInv
<1>3. IndexIsSane'
  BY <1>1, IndexStaysSane DEF IInv
<1>4. IndexAgrees'
  BY <1>1, AgreesStays DEF IInv
<1>5. Pending' = Pending
  BY <1>1 DEF Pending
<1> QED
  BY <1>2, <1>3, <1>4, <1>5

LEMMA AcquireKeeps == ASSUME IInv, Acquire PROVE IInv'
<1>1. TypeOK'
  BY DEF IInv, Acquire, TypeOK, Stages, disk, tables
<1>2. StepIsSane' /\ ScanIsSane'
  BY FreeIsSane DEF Acquire
<1>3. IntentsAreSane' /\ IndexIsSane' /\ IndexAgrees'
  BY TablesStay DEF Acquire
<1> QED
  BY <1>1, <1>2, <1>3 DEF IInv

\* A step after which no operation is under way.
LEMMA ReleaseKeeps ==
  ASSUME IInv, Release, UNCHANGED <<file, edits, dirty, touched, tables>>, raced' \subseteq Paths
  PROVE  IInv'
<1>1. UNCHANGED <<intents, rows, captured, tombs, active>>
  BY DEF tables
<1>2. stage' = "free" /\ TypeOK'
  BY <1>1, ReleaseTypes DEF IInv, TypeOK, Stages
<1>3. StepIsSane' /\ ScanIsSane'
  BY <1>2, FreeIsSane
<1>4. IntentsAreSane'
  BY <1>1, IntentsStay DEF IInv
<1>5. IndexIsSane'
  BY <1>1, IndexStaysSane DEF IInv
<1>6. IndexAgrees'
  BY <1>1, <1>2, AgreesStays DEF IInv
<1> QED
  BY <1>2, <1>3, <1>4, <1>5, <1>6 DEF IInv

LEMMA CrashKeeps == ASSUME IInv, Crash PROVE IInv'
BY ReleaseKeeps DEF Crash

LEMMA StopKeeps == ASSUME IInv, Release, UNCHANGED <<disk, tables>> PROVE IInv'
<1>1. UNCHANGED <<file, edits, dirty, touched>> /\ raced' = raced
  BY DEF disk
<1>2. raced' \subseteq Paths
  BY <1>1 DEF IInv, TypeOK
<1> QED
  BY <1>1, <1>2, ReleaseKeeps

LEMMA ReturnKeeps == ASSUME IInv, Return PROVE IInv'
BY StopKeeps DEF Return

LEMMA StartScanKeeps ==
  ASSUME IInv, StartScan, UNCHANGED <<disk, tables, own>>, cursor' \in {0, cursor},
         \A p \in Paths : Done(p)
  PROVE  IInv'
<1>1. UNCHANGED <<file, edits, dirty, touched, raced, intents, rows, captured, tombs, active, own>>
  BY DEF disk, tables
<1>2. stage' = "read" /\ todo' = Sources /\ scan' = Unread /\ seen' = {}
  BY DEF StartScan
<1>3. TypeOK'
  BY <1>1, <1>2, NothingMalformed DEF IInv, TypeOK, Stages
<1>4. IntentsAreSane' /\ IndexIsSane' /\ IndexAgrees' /\ Pending' = Pending
  BY <1>2, TablesStay
<1>5. \A p \in Paths : Done(p)'
  BY <1>1, <1>4 DEF Done
<1>6. StepIsSane'
  BY <1>2, <1>5 DEF StepIsSane
<1>7. ScanIsSane'
  BY <1>2 DEF ScanIsSane
<1> QED
  BY <1>3, <1>4, <1>6, <1>7 DEF IInv

LEMMA SyncKeeps == ASSUME IInv, Sync PROVE IInv'
<1>1. Pending = {}
  BY DEF IInv, StepIsSane, Sync
<1>2. \A p \in Paths : Done(p)
  BY <1>1 DEF Done
<1> QED
  BY <1>2, StartScanKeeps DEF Sync

\* The intent is carried out: the index is next, or the mark.
LEMMA CarriedOutKeeps ==
  ASSUME IInv, cursor \in Pending, Proceed(cursor), UNCHANGED <<edits, dirty, touched, tables, own>>,
         file' \in [Paths -> Held], raced' \subseteq Paths, \A p \in Paths : Done(p)',
         ~NeedsSync => \A p \in Sources : file'[p] = file[p]
  PROVE  IInv'
<1>1. UNCHANGED <<intents, rows, captured, tombs, active>> /\ Pending' = Pending /\ NeedsSync' = NeedsSync
  BY DEF tables, Pending, NeedsSync
<1>2. /\ cursor' = 0
      /\ IF NeedsSync THEN StartScan ELSE stage' = "mark" /\ UNCHANGED <<todo, scan, seen>>
  BY ProceedEnds DEF IInv
<1>3. stage' \in {"read", "mark"} /\ todo' \subseteq Sources /\ seen' \subseteq Sources
      /\ scan' \in [Sources -> Held \ Malformed]
  BY <1>2, NothingMalformed DEF StartScan, IInv, TypeOK
<1>4. TypeOK'
  BY <1>1, <1>2, <1>3 DEF IInv, TypeOK, Stages
<1>5. IntentsAreSane'
  BY <1>1, IntentsStay DEF IInv
<1>6. IndexIsSane'
  BY <1>1, IndexStaysSane DEF IInv
<1>7. StepIsSane'
  BY <1>1, <1>3 DEF StepIsSane
<1>8. ScanIsSane'
  BY <1>2 DEF ScanIsSane, StartScan
<1>9. IndexAgrees'
  <2>1. CASE NeedsSync
    BY <2>1, <1>1, <1>2 DEF IndexAgrees, StartScan
  <2>2. CASE ~NeedsSync
    <3>1. \A p \in Sources \ dirty : Agrees(p)
      BY <2>2 DEF IInv, IndexAgrees
    <3>2. \A p \in Sources : Agrees(p) => Agrees(p)'
      BY <2>2, <1>1 DEF Agrees, Holder
    <3> QED
      BY <3>1, <3>2 DEF IndexAgrees
  <2> QED
    BY <2>1, <2>2
<1> QED
  BY <1>4, <1>5, <1>6, <1>7, <1>8, <1>9 DEF IInv

\* A step of the intent that leaves more of it to do.
LEMMA StepOnKeeps ==
  ASSUME IInv, UNCHANGED <<edits, dirty, touched, tables, own, todo, scan, seen>>,
         file' \in [Paths -> Held], raced' \subseteq Paths, cursor' \in DOMAIN intents,
         stage' \in {"install", "replace", "unlink", "drop"}, StepIsSane',
         ~NeedsSync => \A p \in Sources : file'[p] = file[p]
  PROVE  IInv'
<1>1. UNCHANGED <<intents, rows, captured, tombs, active>> /\ NeedsSync' = NeedsSync
  BY DEF tables, Pending, NeedsSync
<1>2. TypeOK'
  BY <1>1 DEF IInv, TypeOK, Stages
<1>3. IntentsAreSane'
  BY <1>1, IntentsStay DEF IInv
<1>4. IndexIsSane'
  BY <1>1, IndexStaysSane DEF IInv
<1>5. ScanIsSane'
  BY DEF ScanIsSane
<1>6. IndexAgrees'
  <2>1. \A p \in Sources : ~NeedsSync /\ Agrees(p) => Agrees(p)'
    BY <1>1 DEF Agrees, Holder
  <2> QED
    BY <2>1, <1>1 DEF IndexAgrees, IInv
<1> QED
  BY <1>2, <1>3, <1>4, <1>5, <1>6 DEF IInv

LEMMA LoadKeeps == ASSUME IInv, Load PROVE IInv'
<1>1. UNCHANGED <<file, edits, dirty, touched, raced, tables, own>> /\ Pending' = Pending /\ intents' = intents
  BY DEF Load, disk, tables, Pending
<1>2. CASE Pending = {}
  <2>1. stage' = "ready" /\ UNCHANGED <<cursor, todo, scan, seen>>
    BY <1>2 DEF Load
  <2>2. TypeOK'
    BY <1>1, <2>1 DEF IInv, TypeOK, Stages, tables
  <2>3. StepIsSane' /\ ScanIsSane'
    BY <1>1, <1>2, <2>1 DEF StepIsSane, ScanIsSane
  <2>4. IntentsAreSane' /\ IndexIsSane' /\ IndexAgrees'
    BY <2>1, TablesStay DEF Load
  <2> QED
    BY <2>2, <2>3, <2>4 DEF IInv
<1>3. CASE Pending # {}
  <2>1. cursor' \in Pending /\ stage' = FirstStep(cursor') /\ UNCHANGED <<todo, scan, seen>>
    BY <1>3, ProceedStarts DEF Load, IInv
  <2>2. PICK k \in Pending : k = cursor'
    BY <2>1
  <2>3. k \in DOMAIN intents /\ intents[k].op.op \in {"write", "write_asset", "delete", "rename"}
    BY PendingIsLast DEF IInv, Pending, Accepted!Operation
  <2>4. stage' \in {"install", "unlink"} /\ (stage' = "install" <=> intents[k].op.op # "delete")
        /\ (stage' = "unlink" <=> intents[k].op.op = "delete")
    BY <2>1, <2>2 DEF FirstStep
  <2>5. StepIsSane'
    BY <1>1, <2>2, <2>4 DEF StepIsSane, Current
  <2> QED
    BY <1>1, <2>1, <2>2, <2>3, <2>4, <2>5, StepOnKeeps DEF IInv, TypeOK
<1> QED
  BY <1>2, <1>3

\* What is done of the one pending intent.
LEMMA DoneIs ==
  ASSUME IInv, cursor \in Pending, UNCHANGED <<intents, touched>>, NEW p \in Paths
  PROVE  /\ Done(p) <=> p \in touched \/ file[p] = Accepted!Outcome(Current(cursor), p, file[p])
         /\ Done(p)' <=> p \in touched \/ file'[p] = Accepted!Outcome(Current(cursor), p, file'[p])
<1>1. Pending = {cursor} /\ Pending' = Pending
  BY CursorsIntent DEF IInv, Pending
<1> QED
  BY <1>1 DEF Done, Current

LEMMA InstalledKeeps ==
  ASSUME IInv, cursor \in Pending, AfterInstall(Current(cursor)), Current(cursor).op # "delete",
         UNCHANGED <<edits, dirty, touched, tables, own>>, file' \in [Paths -> Held], raced' \subseteq Paths,
         file'[Current(cursor).target] = Current(cursor).content,
         \A p \in Paths \ {Current(cursor).target} : file'[p] = file[p]
  PROVE  IInv'
<1> DEFINE i == Current(cursor)
<1>1. /\ OfItsFiles(i) /\ i.path \in Paths /\ i.target \in Paths /\ i \in Accepted!Operation
      /\ Pending = {cursor} /\ cursor \in DOMAIN intents
  BY CursorsIntent DEF IInv
<1>2. UNCHANGED <<intents, touched>> /\ Pending' = Pending
  BY DEF tables, Pending
<1>3. ~NeedsSync => \A p \in Sources : file'[p] = file[p]
  <2>1. ~NeedsSync => i.op = "write_asset"
    BY DEF NeedsSync, Current
  <2>2. ~NeedsSync => i.target \in Assets
    BY <1>1, <2>1 DEF OfItsFiles
  <2>3. \A p \in Sources : p \in Paths /\ p \notin Assets
    BY FileAssumption DEF Paths
  <2> QED
    BY <2>2, <2>3
<1>t. PICK t \in Paths : t = i.target
  BY <1>1
<1>4. Done(t)'
  BY <1>1, <1>2, <1>t, DoneIs DEF Accepted!Outcome, Accepted!Installs
<1>5. CASE i.op = "rename"
  <2>1. stage' = "unlink" /\ UNCHANGED <<cursor, todo, scan, seen>>
    BY <1>5 DEF AfterInstall
  <2>2. StepIsSane'
    BY <1>1, <1>2, <1>t, <1>4, <1>5, <2>1 DEF StepIsSane, Current
  <2> QED
    BY <1>1, <1>3, <2>1, <2>2, StepOnKeeps
<1>6. CASE i.op # "rename"
  <2>1. Proceed(cursor)
    BY <1>6 DEF AfterInstall
  <2>2. ASSUME NEW p \in Paths PROVE Done(p)'
    <3>1. CASE p = t
      BY <3>1, <1>4
    <3>2. CASE p # t
      BY <3>2, <1>2, <1>t, <1>6, DoneIs DEF Accepted!Outcome, Accepted!Removes, Accepted!Installs
    <3> QED
      BY <3>1, <3>2
  <2> QED
    BY <1>3, <2>1, <2>2, CarriedOutKeeps
<1> QED
  BY <1>5, <1>6

LEMMA InstallKeeps == ASSUME IInv, Install PROVE IInv'
<1> DEFINE i == Current(cursor)
<1>1. UNCHANGED <<file, edits, dirty, touched, raced, tables>> /\ stage = "install"
  BY DEF Install, disk
<1>2. cursor \in Pending /\ i.op # "delete" /\ file \in [Paths -> Held] /\ raced \subseteq Paths
      /\ cursor \in DOMAIN intents
  BY <1>1, CursorsIntent DEF IInv, StepIsSane, TypeOK
<1>3. CASE file[i.target] = i.content
  <2>1. AfterInstall(i) /\ own' = own
    BY <1>3 DEF Install
  <2> QED
    BY <1>1, <1>2, <1>3, <2>1, InstalledKeeps
<1>4. CASE file[i.target] # i.content /\ file[i.target] = Want(i)
  <2>1. stage' = "replace" /\ UNCHANGED <<own, cursor, todo, scan, seen>>
    BY <1>4 DEF Install
  <2>2. StepIsSane'
    BY <1>1, <1>2, <1>4, <2>1 DEF StepIsSane, Current, tables, Pending, Want
  <2> QED
    BY <1>1, <1>2, <2>1, <2>2, StepOnKeeps
<1>5. CASE file[i.target] # i.content /\ file[i.target] # Want(i)
  BY <1>5, StopKeeps DEF Install
<1> QED
  BY <1>3, <1>4, <1>5

LEMMA ReplaceKeeps == ASSUME IInv, Replace PROVE IInv'
<1> DEFINE i == Current(cursor)
<1>1. cursor \in Pending /\ i.op # "delete" /\ file \in [Paths -> Held]
  BY DEF IInv, StepIsSane, Replace, TypeOK
<1>2. i.target \in Paths /\ i.content \in Held
  BY <1>1, CursorsIntent DEF IInv
<1>3. /\ file' = [file EXCEPT ![i.target] = i.content] /\ AfterInstall(i) /\ raced' = {}
      /\ UNCHANGED <<edits, dirty, touched, tables, own>>
  BY DEF Replace
<1> HIDE DEF i
<1>4. /\ file' \in [Paths -> Held] /\ file'[i.target] = i.content
      /\ \A p \in Paths \ {i.target} : file'[p] = file[p]
  BY <1>1, <1>2, <1>3
<1> QED
  BY <1>1, <1>3, <1>4, InstalledKeeps DEF i

LEMMA RemovedKeeps ==
  ASSUME IInv, stage \in {"unlink", "drop"}, Proceed(cursor),
         UNCHANGED <<edits, dirty, touched, tables, own>>, file' \in [Paths -> Held], raced' \subseteq Paths,
         file'[Current(cursor).path] = Absent,
         \A p \in Paths \ {Current(cursor).path} : file'[p] = file[p]
  PROVE  IInv'
<1> DEFINE i == Current(cursor)
<1>1. cursor \in Pending /\ i.op \in {"delete", "rename"} /\ (i.op = "rename" => Done(i.target))
  BY DEF IInv, StepIsSane
<1>2. OfItsFiles(i) /\ i.path \in Paths /\ i.target \in Paths
  BY <1>1, CursorsIntent DEF IInv
<1>3. UNCHANGED <<intents, touched>>
  BY DEF tables
<1>4. NeedsSync
  BY <1>1 DEF NeedsSync, Current
<1>5. ASSUME NEW p \in Paths PROVE Done(p)'
  <2>1. CASE p = i.path
    BY <2>1, <1>1, <1>2, <1>3, DoneIs DEF Accepted!Outcome, Accepted!Removes, Accepted!Installs, OfItsFiles
  <2>2. CASE p # i.path /\ i.op = "rename" /\ p = i.target
    BY <2>2, <1>1, <1>2, <1>3, DoneIs DEF Accepted!Outcome, Accepted!Removes, Accepted!Installs
  <2>3. CASE p # i.path /\ ~(i.op = "rename" /\ p = i.target)
    BY <2>3, <1>1, <1>2, <1>3, DoneIs DEF Accepted!Outcome, Accepted!Removes, Accepted!Installs
  <2> QED
    BY <2>1, <2>2, <2>3
<1> QED
  BY <1>1, <1>4, <1>5, CarriedOutKeeps

LEMMA UnlinkKeeps == ASSUME IInv, Unlink PROVE IInv'
<1> DEFINE i == Current(cursor)
<1>1. UNCHANGED <<file, edits, dirty, touched, raced, tables>> /\ stage = "unlink"
  BY DEF Unlink, disk
<1>2. /\ cursor \in Pending /\ i.op \in {"delete", "rename"} /\ (i.op = "rename" => Done(i.target))
      /\ file \in [Paths -> Held] /\ raced \subseteq Paths /\ cursor \in DOMAIN intents
  BY <1>1, CursorsIntent DEF IInv, StepIsSane, TypeOK
<1>3. CASE IsUnlinked(i)
  BY <1>1, <1>2, <1>3, RemovedKeeps DEF Unlink, IsUnlinked
<1>4. CASE ~IsUnlinked(i) /\ CanUnlink(i)
  <2>1. stage' = "drop" /\ UNCHANGED <<own, cursor, todo, scan, seen>>
    BY <1>4 DEF Unlink
  <2>2. Pending' = Pending /\ intents' = intents
    BY <1>1 DEF tables, Pending
  <2>3. StepIsSane'
    BY <1>1, <1>2, <1>4, <2>1, <2>2 DEF StepIsSane, Current, CanUnlink, Done
  <2> QED
    BY <1>1, <1>2, <2>1, <2>3, StepOnKeeps
<1>5. CASE ~IsUnlinked(i) /\ ~CanUnlink(i)
  BY <1>5, StopKeeps DEF Unlink
<1> QED
  BY <1>3, <1>4, <1>5

LEMMA DropKeeps == ASSUME IInv, Drop PROVE IInv'
<1> DEFINE i == Current(cursor)
<1>1. cursor \in Pending /\ file \in [Paths -> Held] /\ stage = "drop"
  BY DEF IInv, StepIsSane, Drop, TypeOK
<1>2. i.path \in Paths /\ Absent \in Held
  BY <1>1, CursorsIntent DEF IInv, Held
<1>3. /\ file' = [file EXCEPT ![i.path] = Absent] /\ raced' = {}
      /\ UNCHANGED <<edits, dirty, touched, tables>>
      /\ IF file[i.path] = Absent THEN Release ELSE Proceed(cursor) /\ UNCHANGED own
  BY DEF Drop
<1> HIDE DEF i
<1>4. /\ file' \in [Paths -> Held] /\ file'[i.path] = Absent
      /\ \A p \in Paths \ {i.path} : file'[p] = file[p]
  BY <1>1, <1>2, <1>3
<1>5. CASE file[i.path] = Absent
  <2>1. file' = file
    BY <1>1, <1>3, <1>5
  <2> QED
    BY <1>3, <1>5, <2>1, ReleaseKeeps
<1>6. CASE file[i.path] # Absent
  BY <1>1, <1>3, <1>4, <1>6, RemovedKeeps DEF i
<1> QED
  BY <1>5, <1>6

LEMMA MarkKeeps == ASSUME IInv, Mark PROVE IInv'
<1>1. /\ UNCHANGED <<file, edits, dirty, touched, raced, rows, captured, tombs, active>>
      /\ stage = "mark" /\ DOMAIN intents' = DOMAIN intents
      /\ \A k \in DOMAIN intents : intents'[k] \in Intent /\ intents'[k].op = intents[k].op /\ intents'[k].applied
  <2>1. intents' = [k \in DOMAIN intents |-> [intents[k] EXCEPT !.applied = TRUE]]
    BY DEF Mark
  <2>2. ASSUME NEW i \in Intent PROVE LET j == [i EXCEPT !.applied = TRUE] IN j \in Intent /\ j.op = i.op /\ j.applied
    BY DEF Intent
  <2>3. \A k \in DOMAIN intents : intents[k] \in Intent
    BY PendingIsLast DEF IInv
  <2> QED
    BY <2>1, <2>2, <2>3 DEF Mark, disk
<1>2. Pending' = {}
  BY <1>1 DEF Pending
<1>3. IntentsAreSane'
  BY <1>1, <1>2 DEF IInv, IntentsAreSane
<1>4. TypeOK'
  <2>1. DOMAIN intents = 1..Last /\ Last \in Nat
    BY PendingIsLast DEF IInv
  <2>2. intents' \in Seq(Intent)
    <3>1. intents' \in [1..Last -> Intent]
      BY <1>1, <2>1 DEF Mark
    <3> QED
      BY <2>1, <3>1, SeqDef
  <2>3. CASE own
    <3>1. Release
      BY <2>3 DEF Mark
    <3> QED
      BY <1>1, <2>2, <3>1, NothingMalformed DEF Release, IInv, TypeOK, Stages
  <2>4. CASE ~own
    BY <1>1, <2>2, <2>4 DEF Mark, IInv, TypeOK, Stages
  <2> QED
    BY <2>3, <2>4
<1>5. stage' \in {"free", "ready"}
  BY DEF Mark, Release
<1>6. StepIsSane' /\ ScanIsSane'
  BY <1>2, <1>5 DEF StepIsSane, ScanIsSane
<1>7. IndexIsSane'
  BY <1>1, IndexStaysSane DEF IInv
<1>8. IndexAgrees'
  BY <1>1 DEF IInv, IndexAgrees, Agrees, Holder
<1> QED
  BY <1>3, <1>4, <1>6, <1>7, <1>8 DEF IInv

LEMMA ReadKeeps == ASSUME IInv, Read PROVE IInv'
<1>1. PICK p \in todo :
        /\ stage = "read"
        /\ \A q \in todo : p <= q
        /\ IF file[p] \in Malformed THEN Release
           ELSE /\ scan' = [scan EXCEPT ![p] = file[p]]
                /\ todo' = todo \ {p} /\ seen' = seen \cup {p}
                /\ stage' = IF todo = {p} THEN "publish" ELSE "read"
                /\ UNCHANGED <<own, cursor>>
        /\ UNCHANGED <<disk, tables>>
  BY DEF Read
<1>2. CASE file[p] \in Malformed
  BY <1>1, <1>2, StopKeeps
<1>3. CASE file[p] \notin Malformed
  <2>1. /\ UNCHANGED <<file, edits, dirty, touched, raced, intents, rows, captured, tombs, active, own, cursor>>
        /\ scan' = [scan EXCEPT ![p] = file[p]]
        /\ todo' = todo \ {p} /\ seen' = seen \cup {p} /\ stage' \in {"publish", "read"}
        /\ stage' = "publish" => todo' = {}
    BY <1>1, <1>3 DEF disk, tables
  <2>2. /\ p \in Sources /\ p \in Paths /\ file[p] \in Held \ Malformed
        /\ scan' \in [Sources -> Held \ Malformed]
        /\ scan'[p] = file[p] /\ \A q \in Sources \ {p} : scan'[q] = scan[q]
    BY <1>3, <2>1 DEF IInv, TypeOK, Paths
  <2>3. TypeOK'
    BY <2>1, <2>2 DEF IInv, TypeOK, Stages
  <2>4. StepIsSane'
    BY <1>1, <2>1 DEF IInv, StepIsSane, Done, Pending, Current
  <2>5. ScanIsSane'
    BY <1>1, <2>1, <2>2 DEF IInv, ScanIsSane
  <2>6. IntentsAreSane' /\ IndexIsSane' /\ IndexAgrees'
    BY <1>1, <2>1, TablesStay
  <2> QED
    BY <2>3, <2>4, <2>5, <2>6 DEF IInv
<1> QED
  BY <1>2, <1>3

LEMMA RecordKeeps ==
  ASSUME IInv, NEW i \in Accepted!Operation, OfItsFiles(i), Record(i)
  PROVE  IInv'
<1>1. /\ UNCHANGED <<file, edits, dirty, raced, rows, captured, tombs, active, cursor, todo, scan, seen>>
      /\ intents' = Append(intents, [op |-> i, applied |-> FALSE])
      /\ touched' = {} /\ own' = TRUE /\ stage' = "load" /\ stage = "ready"
  BY DEF Record
<1>2. intents \in Seq(Intent) /\ [op |-> i, applied |-> FALSE] \in Intent
  BY DEF IInv, TypeOK, Intent
<1>3. /\ intents' \in Seq(Intent) /\ Len(intents') = Last + 1 /\ DOMAIN intents' = 1..(Last + 1)
      /\ intents'[Last + 1] = [op |-> i, applied |-> FALSE] /\ Last \in Nat
      /\ DOMAIN intents = 1..Last /\ \A k \in DOMAIN intents : intents'[k] = intents[k]
  BY <1>1, <1>2, AppendProperties, LenProperties DEF Last
<1>4. Pending = {} /\ ~NeedsSync
  BY <1>1 DEF IInv, StepIsSane, NeedsSync
<1>5. Pending' \subseteq {Last + 1}
  BY <1>3, <1>4 DEF Pending
<1>6. IntentsAreSane'
  <2>1. ASSUME NEW k \in DOMAIN intents' PROVE OfItsFiles(intents'[k].op)
    <3>1. CASE k = Last + 1
      BY <3>1, <1>3
    <3>2. CASE k # Last + 1
      <4>1. k \in DOMAIN intents
        BY <1>3, <3>2
      <4> QED
        BY <1>3, <4>1 DEF IInv, IntentsAreSane
    <3> QED
      BY <3>1, <3>2
  <2> QED
    BY <2>1, <1>3, <1>5 DEF IntentsAreSane, Last
<1>7. TypeOK'
  <2>1. cursor' \in DOMAIN intents' \cup {0}
    BY <1>1, <1>3 DEF IInv, TypeOK
  <2> QED
    BY <1>1, <1>3, <2>1 DEF IInv, TypeOK, Stages
<1>8. StepIsSane' /\ ScanIsSane'
  BY <1>1, FreeIsSane
<1>9. IndexIsSane'
  BY <1>1, IndexStaysSane DEF IInv
<1>10. IndexAgrees'
  BY <1>1, <1>4 DEF IInv, IndexAgrees, Agrees, Holder
<1> QED
  BY <1>6, <1>7, <1>8, <1>9, <1>10 DEF IInv

\* An operation is accepted on what its files hold.
LEMMA CallsRecord ==
  ASSUME IInv, WriteSource \/ WriteRawAsset \/ DeleteSource \/ RenameSource
  PROVE  \E i \in Accepted!Operation :
            /\ OfItsFiles(i) /\ Record(i) /\ file[i.path] = i.expected
            /\ i.op = "rename" => file[i.target] = Absent
<1>0. \A p \in Paths : file[p] \in Held /\ \A c \in Choices[p] : c \in Contents
  BY FileAssumption DEF IInv, TypeOK
<1>1. CASE WriteSource
  <2>1. PICK p \in Sources : \E c \in Choices[p] \ Malformed :
          Record([op |-> "write", path |-> p, target |-> p, expected |-> file[p], content |-> c])
    BY <1>1 DEF WriteSource
  <2>2. PICK c \in Choices[p] \ Malformed :
          Record([op |-> "write", path |-> p, target |-> p, expected |-> file[p], content |-> c])
    BY <2>1
  <2>3. PICK e : e = file[p]
    OBVIOUS
  <2>4. [op |-> "write", path |-> p, target |-> p, expected |-> e, content |-> c] \in Accepted!Operation
    BY <1>0, <2>3 DEF Accepted!Operation, Held, Paths
  <2>5. OfItsFiles([op |-> "write", path |-> p, target |-> p, expected |-> e, content |-> c])
    BY DEF OfItsFiles
  <2> QED
    BY <2>2, <2>3, <2>4, <2>5
<1>2. CASE WriteRawAsset
  <2>1. PICK p \in Assets : \E c \in Choices[p] :
          Record([op |-> "write_asset", path |-> p, target |-> p, expected |-> file[p], content |-> c])
    BY <1>2 DEF WriteRawAsset
  <2>2. PICK c \in Choices[p] :
          Record([op |-> "write_asset", path |-> p, target |-> p, expected |-> file[p], content |-> c])
    BY <2>1
  <2>3. PICK e : e = file[p]
    OBVIOUS
  <2>4. [op |-> "write_asset", path |-> p, target |-> p, expected |-> e, content |-> c] \in Accepted!Operation
    BY <1>0, <2>3 DEF Accepted!Operation, Held, Paths
  <2>5. OfItsFiles([op |-> "write_asset", path |-> p, target |-> p, expected |-> e, content |-> c])
    BY DEF OfItsFiles
  <2> QED
    BY <2>2, <2>3, <2>4, <2>5
<1>3. CASE DeleteSource
  <2>1. PICK s \in DOMAIN rows :
          /\ IsCurrent(s)
          /\ Record([op |-> "delete", path |-> rows[s].path, target |-> rows[s].path,
                     expected |-> rows[s].content, content |-> Absent])
    BY <1>3 DEF DeleteSource
  <2>2. PICK p, c : p = rows[s].path /\ c = rows[s].content
    OBVIOUS
  <2>3. p \in Sources /\ p \in Paths /\ c \in Contents /\ file[p] = c
    BY <2>1, <2>2, FileAssumption DEF IInv, TypeOK, Row, Paths, IsCurrent
  <2>4. [op |-> "delete", path |-> p, target |-> p, expected |-> c, content |-> Absent] \in Accepted!Operation
    BY <2>3 DEF Accepted!Operation
  <2>5. OfItsFiles([op |-> "delete", path |-> p, target |-> p, expected |-> c, content |-> Absent])
    BY <2>3 DEF OfItsFiles
  <2> QED
    BY <2>1, <2>2, <2>3, <2>4, <2>5
<1>4. CASE RenameSource
  <2>1. PICK s \in DOMAIN rows, t \in Sources :
          /\ IsCurrent(s) /\ file[t] = Absent
          /\ Record([op |-> "rename", path |-> rows[s].path, target |-> t,
                     expected |-> rows[s].content, content |-> rows[s].content])
    BY <1>4 DEF RenameSource
  <2>2. PICK p, c : p = rows[s].path /\ c = rows[s].content
    OBVIOUS
  <2>3. p \in Sources /\ p \in Paths /\ c \in Contents /\ file[p] = c /\ t \in Paths /\ p # t
    BY <2>1, <2>2, FileAssumption DEF IInv, TypeOK, Row, Paths, IsCurrent
  <2>4. [op |-> "rename", path |-> p, target |-> t, expected |-> c, content |-> c] \in Accepted!Operation
    BY <2>3 DEF Accepted!Operation
  <2>5. OfItsFiles([op |-> "rename", path |-> p, target |-> t, expected |-> c, content |-> c])
    BY <2>3 DEF OfItsFiles
  <2> QED
    BY <2>1, <2>2, <2>3, <2>4, <2>5
<1> QED
  BY <1>1, <1>2, <1>3, <1>4

LEMMA CallKeeps == ASSUME IInv, Call PROVE IInv'
<1>1. CASE Return \/ Sync
  BY <1>1, ReturnKeeps, SyncKeeps
<1>2. CASE WriteSource \/ WriteRawAsset \/ DeleteSource \/ RenameSource
  <2>1. PICK i \in Accepted!Operation : OfItsFiles(i) /\ Record(i)
    BY <1>2, CallsRecord
  <2> QED
    BY <2>1, RecordKeeps
<1> QED
  BY <1>1, <1>2 DEF Call

LEMMA EditedKeeps ==
  ASSUME IInv, NEW ps \in SUBSET Paths, Edited(ps), file' \in [Paths -> Held],
         \A p \in Paths \ ps : file'[p] = file[p]
  PROVE  IInv'
<1>1. /\ UNCHANGED <<intents, rows, captured, tombs, active, stage, own, cursor, todo, scan>>
      /\ edits' = edits + 1 /\ dirty' = dirty \cup (ps \cap Sources) /\ touched' = touched \cup ps
      /\ raced' = raced \cup {p \in ps : InWindow(p)} /\ seen' = seen \ ps /\ Pending' = Pending
  BY DEF Edited, tables, Pending
<1>2. TypeOK'
  BY <1>1 DEF IInv, TypeOK
<1>3. IntentsAreSane'
  BY <1>1, IntentsStay DEF IInv
<1>4. IndexIsSane'
  BY <1>1, IndexStaysSane DEF IInv
<1>5. ASSUME NEW p \in Paths, Done(p) PROVE Done(p)'
  BY <1>1, <1>5 DEF Done
<1>6. StepIsSane'
  <2>1. Current(cursor)' = Current(cursor)
    BY <1>1 DEF Current
  <2>2. stage \in {"install", "replace", "unlink", "drop"} =>
          Current(cursor).path \in Paths /\ Current(cursor).target \in Paths
    BY CursorsIntent DEF IInv, StepIsSane
  <2>3. stage = "replace" => Current(cursor).target \in raced' \/ file'[Current(cursor).target] = Want(Current(cursor))
    BY <1>1, <2>2 DEF IInv, StepIsSane, InWindow
  <2>4. stage = "drop" => Current(cursor).path \in raced' \/ file'[Current(cursor).path] = Current(cursor).expected
    BY <1>1, <2>2 DEF IInv, StepIsSane, InWindow
  <2>5. PICK t : t = Current(cursor).target
    OBVIOUS
  <2>6. stage \in {"unlink", "drop"} /\ Current(cursor).op = "rename" => Done(t)'
    BY <1>5, <2>2, <2>5 DEF IInv, StepIsSane
  <2> QED
    BY <1>1, <1>5, <2>1, <2>3, <2>4, <2>5, <2>6 DEF IInv, StepIsSane
<1>7. ScanIsSane'
  BY <1>1 DEF IInv, ScanIsSane, Paths
<1>8. IndexAgrees'
  BY <1>1 DEF IInv, IndexAgrees, Agrees, Holder, NeedsSync, Paths
<1> QED
  BY <1>2, <1>3, <1>4, <1>6, <1>7, <1>8 DEF IInv

LEMMA EditorKeeps == ASSUME IInv, Edit \/ Move PROVE IInv'
<1>0. file \in [Paths -> Held] /\ Absent \in Held /\ \A p \in Paths : \A c \in Choices[p] : c \in Held
  BY FileAssumption DEF IInv, TypeOK, Held
<1>1. CASE Edit
  <2>1. PICK p \in Paths : \E c \in Choices[p] \cup {Absent} : file' = [file EXCEPT ![p] = c] /\ Edited({p})
    BY <1>1 DEF Edit
  <2> QED
    BY <1>0, <2>1, EditedKeeps
<1>2. CASE Move
  <2>1. PICK p \in Sources, q \in Sources : file' = [file EXCEPT ![p] = Absent, ![q] = file[p]] /\ Edited({p, q})
    BY <1>2 DEF Move
  <2>2. p \in Paths /\ q \in Paths
    BY DEF Paths
  <2> QED
    BY <1>0, <2>1, <2>2, EditedKeeps
<1> QED
  BY <1>1, <1>2

-----------------------------------------------------------------------------
\* The transaction of a sync.

\* A file that is matched belongs to one source, its path's or a missing one.
LEMMA OwnerOf ==
  ASSUME UniquePaths, NEW p \in Present, p \notin Unmatched
  PROVE  \E s \in DOMAIN rows :
           /\ (CHOOSE t \in Match(p) : TRUE) = s
           /\ rows[s].path # p =>
                /\ Holder(p) = {} /\ rows[s].path \notin Present /\ rows[s].content = scan[p]
                /\ \A q \in Present : q < p /\ Holder(q) = {} => scan[q] # scan[p]
<1>1. Match(p) # {}
  BY DEF Unmatched
<1>2. CASE Holder(p) # {}
  <2>1. PICK s \in DOMAIN rows : rows[s].path = p
    BY <1>2 DEF Holder
  <2>2. Match(p) = {s}
    BY <1>2, <2>1 DEF Match, Holder, UniquePaths
  <2> QED
    BY <2>1, <2>2
<1>3. CASE Holder(p) = {}
  <2>1. /\ Match(p) = Missing(scan[p])
        /\ \A q \in Present : q < p /\ Holder(q) = {} => scan[q] # scan[p]
        /\ \E s \in DOMAIN rows : Missing(scan[p]) = {s}
    BY <1>1, <1>3 DEF Match
  <2>2. PICK s \in DOMAIN rows : Missing(scan[p]) = {s}
    BY <2>1
  <2>3. rows[s].path \notin Present /\ rows[s].content = scan[p]
    BY <2>2 DEF Missing
  <2> QED
    BY <1>3, <2>1, <2>2, <2>3
<1> QED
  BY <1>2, <1>3

\* Each file gets an id of its own, and the holder of its path keeps it.
LEMMA IdentityIsSane ==
  ASSUME TypeOK, UniquePaths, NEW fresh \in Drawn
  PROVE  /\ \A p \in Present : Identity(fresh)[p] \in Ids
         /\ \A p, q \in Present : Identity(fresh)[p] = Identity(fresh)[q] => p = q
         /\ \A s \in DOMAIN rows : rows[s].path \in Present => Identity(fresh)[rows[s].path] = s
<1> DEFINE id == Identity(fresh)
           mine(p) == CHOOSE t \in Match(p) : TRUE
<1>1. /\ \A p \in Unmatched : fresh[p] \in Ids /\ fresh[p] \notin DOMAIN rows
      /\ \A p, q \in Unmatched : p < q => fresh[p] < fresh[q]
  BY DEF Drawn
<1>2. /\ \A p \in Unmatched : id[p] = fresh[p] /\ p \in Present
      /\ \A p \in Present \ Unmatched : id[p] = mine(p)
  BY DEF Identity, Unmatched
<1>3. \A p \in Present : p \in Nat /\ p \in Sources
  BY FileAssumption DEF Present
<1>4. DOMAIN rows \subseteq Ids /\ Ids \subseteq Nat
  BY FileAssumption DEF TypeOK
<1>5. \A p \in Present \ Unmatched : id[p] \in DOMAIN rows
  <2>1. ASSUME NEW p \in Present \ Unmatched PROVE mine(p) \in DOMAIN rows
    <3>1. PICK s \in DOMAIN rows : mine(p) = s
      BY OwnerOf
    <3> QED
      BY <3>1
  <2> QED
    BY <1>2, <2>1
<1>6. ASSUME NEW p \in Present, NEW q \in Present, id[p] = id[q], p < q PROVE FALSE
  <2>1. CASE p \in Unmatched /\ q \in Unmatched
    <3>1. fresh[p] < fresh[q] /\ fresh[p] = fresh[q] /\ fresh[p] \in Nat
      BY <1>1, <1>2, <1>4, <1>6, <2>1
    <3> QED
      BY <3>1
  <2>2. CASE p \in Unmatched /\ q \notin Unmatched
    BY <1>1, <1>2, <1>5, <1>6, <2>2
  <2>3. CASE p \notin Unmatched /\ q \in Unmatched
    BY <1>1, <1>2, <1>5, <1>6, <2>3
  <2>4. CASE p \notin Unmatched /\ q \notin Unmatched
    <3>1. PICK s \in DOMAIN rows :
            /\ mine(p) = s
            /\ rows[s].path # p =>
                 Holder(p) = {} /\ rows[s].path \notin Present /\ rows[s].content = scan[p]
      BY <2>4, OwnerOf
    <3>2. PICK t \in DOMAIN rows :
            /\ mine(q) = t
            /\ rows[t].path # q =>
                 /\ rows[t].path \notin Present /\ rows[t].content = scan[q]
                 /\ \A r \in Present : r < q /\ Holder(r) = {} => scan[r] # scan[q]
      BY <2>4, OwnerOf
    <3>3. p # q
      BY <1>3, <1>6
    <3>4. id[p] = mine(p) /\ id[q] = mine(q)
      BY <1>2, <2>4
    <3>5. s = t
      BY <1>6, <3>1, <3>2, <3>4
    <3> QED
      BY <1>6, <3>1, <3>2, <3>3, <3>5
  <2> QED
    BY <2>1, <2>2, <2>3, <2>4
<1>7. ASSUME NEW s \in DOMAIN rows, rows[s].path \in Present PROVE id[rows[s].path] = s
  <2>1. PICK p \in Present : p = rows[s].path
    BY <1>7
  <2>2. Holder(p) = {s} /\ Match(p) = {s}
    BY <2>1 DEF Holder, Match, UniquePaths
  <2> QED
    BY <1>2, <2>1, <2>2 DEF Unmatched
<1> HIDE DEF id
<1>8. \A p, q \in Present : id[p] = id[q] => p = q
  <2>1. ASSUME NEW p \in Present, NEW q \in Present, id[p] = id[q], p # q PROVE FALSE
    <3>1. p < q \/ q < p
      BY <1>3, <2>1
    <3> QED
      BY <1>6, <2>1, <3>1
  <2> QED
    BY <2>1
<1> QED
  BY <1>1, <1>2, <1>4, <1>5, <1>7, <1>8 DEF id

\* What a sync finds: each file in one row of its own, each row whose file is
\* there among them.
Sound(new) ==
    /\ DOMAIN new \subseteq Ids
    /\ \A s \in DOMAIN new :
          /\ new[s] \in Row /\ ~new[s].deleted
          /\ new[s].path \in Present /\ new[s].content = scan[new[s].path]
          /\ new[s].rev = Revision(s, new[s].path)
    /\ \A s, t \in DOMAIN new : new[s].path = new[t].path => s = t
    /\ \A p \in Present : \E s \in DOMAIN new : new[s].path = p
    /\ \A s \in DOMAIN rows : rows[s].path \in Present => s \in DOMAIN new

LEMMA FoundIsSound ==
  ASSUME TypeOK, UniquePaths, NEW print \in Prints, NEW fresh \in Drawn
  PROVE  Sound(Found(Identity(fresh), print))
<1>1. PICK id : id = Identity(fresh)
  OBVIOUS
<1>2. /\ \A p \in Present : id[p] \in Ids
      /\ \A p, q \in Present : id[p] = id[q] => p = q
      /\ \A s \in DOMAIN rows : rows[s].path \in Present => id[rows[s].path] = s
  BY <1>1, IdentityIsSane
<1>3. PICK new : new = Found(id, print)
  OBVIOUS
<1>4. DOMAIN new = {id[p] : p \in Present}
  BY <1>3 DEF Found
<1>5. ASSUME NEW p \in Present
      PROVE  new[id[p]] = [path |-> p, rev |-> Revision(id[p], p), content |-> scan[p],
                           print |-> print, deleted |-> FALSE]
  <2>1. (CHOOSE q \in Present : id[q] = id[p]) = p
    BY <1>2
  <2> QED
    BY <1>3, <2>1 DEF Found
<1>6. ASSUME NEW p \in Present PROVE Revision(id[p], p) \in Nat \ {0}
  <2>1. id[p] \in DOMAIN rows => rows[id[p]].rev \in Nat \ {0}
    BY DEF TypeOK, Row
  <2>2. id[p] \in DOMAIN rows => rows[id[p]].rev + 1 \in Nat \ {0}
    BY <2>1
  <2> QED
    BY <2>1, <2>2 DEF Revision
<1>7. ASSUME NEW p \in Present PROVE p \in Sources /\ scan[p] \in Contents
  BY DEF Present, TypeOK, Held
<1>8. ASSUME NEW p \in Present
      PROVE  /\ new[id[p]] \in Row /\ ~new[id[p]].deleted /\ new[id[p]].path = p
             /\ new[id[p]].content = scan[p] /\ new[id[p]].rev = Revision(id[p], p)
  <2>1. \A q \in Sources, r \in Nat \ {0}, c \in Contents :
          LET row == [path |-> q, rev |-> r, content |-> c, print |-> print, deleted |-> FALSE]
          IN  row \in Row /\ ~row.deleted /\ row.path = q /\ row.content = c /\ row.rev = r
    BY DEF Row
  <2>2. PICK r \in Nat \ {0} : r = Revision(id[p], p)
    BY <1>6
  <2>3. PICK c \in Contents : c = scan[p]
    BY <1>7
  <2>4. new[id[p]] = [path |-> p, rev |-> r, content |-> c, print |-> print, deleted |-> FALSE]
    BY <1>5, <2>2, <2>3
  <2> QED
    BY <1>7, <2>1, <2>2, <2>3, <2>4
<1>9. Sound(new)
  BY <1>2, <1>4, <1>8 DEF Sound
<1> QED
  BY <1>1, <1>3, <1>9

\* The rows a transaction leaves: those found, and the others marked deleted.
Merged(new) ==
    /\ DOMAIN rows' = DOMAIN rows \cup DOMAIN new /\ DOMAIN rows' \subseteq Ids
    /\ \A s \in DOMAIN rows' : rows'[s] \in Row
    /\ \A s \in DOMAIN new : rows'[s] = new[s]
    /\ \A s \in DOMAIN rows \ DOMAIN new :
          /\ rows'[s].deleted /\ rows'[s].path = rows[s].path /\ rows[s].path \notin Present
          /\ rows'[s].rev = rows[s].rev /\ rows'[s].content = rows[s].content
    /\ \A s \in DOMAIN rows \cap DOMAIN new :
          \/ rows'[s].rev = rows[s].rev + 1
          \/ /\ rows'[s].rev = rows[s].rev /\ rows'[s].content = rows[s].content
             /\ rows'[s].path = rows[s].path /\ ~rows[s].deleted
    /\ \A s \in DOMAIN new \ DOMAIN rows : rows'[s].rev = 1

LEMMA IndexMerges == ASSUME TypeOK, NEW new, Sound(new), Index(new) PROVE Merged(new)
<1>1. rows' = [s \in DOMAIN rows \cup DOMAIN new |->
                  IF s \in DOMAIN new THEN new[s] ELSE [rows[s] EXCEPT !.deleted = TRUE]]
  BY DEF Index
<1>2. DOMAIN rows' = DOMAIN rows \cup DOMAIN new /\ DOMAIN rows' \subseteq Ids
  BY <1>1 DEF TypeOK, Sound
<1>3. \A s \in DOMAIN new : rows'[s] = new[s] /\ rows'[s] \in Row
  BY <1>1 DEF Sound
<1>4. ASSUME NEW s \in DOMAIN rows \ DOMAIN new
      PROVE  /\ rows'[s] \in Row /\ rows'[s].deleted /\ rows'[s].path = rows[s].path
             /\ rows[s].path \notin Present
             /\ rows'[s].rev = rows[s].rev /\ rows'[s].content = rows[s].content
  <2>1. rows'[s] = [rows[s] EXCEPT !.deleted = TRUE] /\ rows[s] \in Row
    BY <1>1 DEF TypeOK
  <2>2. \A row \in Row : LET gone == [row EXCEPT !.deleted = TRUE]
                         IN  /\ gone \in Row /\ gone.deleted /\ gone.path = row.path
                             /\ gone.rev = row.rev /\ gone.content = row.content
    BY DEF Row
  <2> QED
    BY <2>1, <2>2 DEF Sound
<1>5. ASSUME NEW s \in DOMAIN rows \cap DOMAIN new
      PROVE  \/ rows'[s].rev = rows[s].rev + 1
             \/ /\ rows'[s].rev = rows[s].rev /\ rows'[s].content = rows[s].content
                /\ rows'[s].path = rows[s].path /\ ~rows[s].deleted
  <2>1. rows'[s].rev = Revision(s, rows'[s].path) /\ rows'[s].content = scan[rows'[s].path]
    BY <1>3 DEF Sound
  <2> QED
    BY <2>1 DEF Revision, Changed
<1>6. \A s \in DOMAIN new \ DOMAIN rows : rows'[s].rev = 1
  BY <1>3 DEF Sound, Revision
<1> QED
  BY <1>2, <1>3, <1>4, <1>5, <1>6 DEF Merged

LEMMA IndexKeepsPaths ==
  ASSUME TypeOK, UniquePaths, NEW new, Sound(new), Index(new)
  PROVE  UniquePaths'
<1>m. Merged(new)
  BY IndexMerges
<1>1. ASSUME NEW s \in DOMAIN rows', NEW t \in DOMAIN rows', rows'[s].path = rows'[t].path
      PROVE  s = t
  <2>1. CASE s \in DOMAIN new /\ t \in DOMAIN new
    BY <1>1, <2>1, <1>m DEF Sound, Merged
  <2>2. CASE s \notin DOMAIN new /\ t \notin DOMAIN new
    BY <1>1, <2>2, <1>m DEF UniquePaths, Merged
  <2>3. CASE s \in DOMAIN new /\ t \notin DOMAIN new
    BY <1>1, <2>3, <1>m DEF Sound, Merged
  <2>4. CASE s \notin DOMAIN new /\ t \in DOMAIN new
    BY <1>1, <2>4, <1>m DEF Sound, Merged
  <2> QED
    BY <2>1, <2>2, <2>3, <2>4
<1> QED
  BY <1>1 DEF UniquePaths

\* The sources whose passages and captured bytes the transaction writes.
Written(new) == {s \in DOMAIN new : s \in DOMAIN rows => rows[s] # new[s]}
Gone(new)    == {s \in DOMAIN rows \ DOMAIN new : ~rows[s].deleted}

LEMMA IndexKeepsActive ==
  ASSUME TypeOK, ActiveIsCurrent, NEW new, Sound(new), Index(new)
  PROVE  ActiveIsCurrent'
<1>m. Merged(new)
  BY IndexMerges
<1>1. active' = {a \in active : a[1] \notin Gone(new) \cup Written(new)}
                  \cup {<<s, new[s].rev, new[s].print>> : s \in Written(new)}
  BY DEF Index, Passages, Gone, Written
<1>2. \A s : s \in DOMAIN rows' /\ ~rows'[s].deleted <=> s \in DOMAIN new
  BY <1>m DEF Sound, Merged
<1>3. ASSUME NEW a \in active' PROVE \E s \in DOMAIN new : a = <<s, new[s].rev, new[s].print>>
  <2>1. CASE a \in {<<s, new[s].rev, new[s].print>> : s \in Written(new)}
    BY <2>1 DEF Written
  <2>2. CASE a \in active /\ a[1] \notin Gone(new) \cup Written(new)
    <3>1. PICK s \in DOMAIN rows : ~rows[s].deleted /\ a = <<s, rows[s].rev, rows[s].print>>
      BY <2>2 DEF ActiveIsCurrent
    <3>2. s \notin Gone(new) /\ s \notin Written(new)
      BY <2>2, <3>1
    <3>3. s \in DOMAIN new /\ rows[s] = new[s]
      BY <3>1, <3>2 DEF Gone, Written
    <3> QED
      BY <3>1, <3>3
  <2> QED
    BY <1>1, <1>3, <2>1, <2>2
<1>4. ASSUME NEW s \in DOMAIN new PROVE <<s, new[s].rev, new[s].print>> \in active'
  <2>1. CASE s \in Written(new)
    BY <1>1, <2>1
  <2>2. CASE s \notin Written(new)
    <3>1. s \in DOMAIN rows /\ rows[s] = new[s] /\ ~rows[s].deleted /\ s \notin Gone(new)
      BY <2>2 DEF Written, Gone, Sound
    <3>2. <<s, rows[s].rev, rows[s].print>> \in active
      BY <3>1 DEF ActiveIsCurrent
    <3>3. <<s, rows[s].rev, rows[s].print>>[1] = s
      OBVIOUS
    <3> QED
      BY <1>1, <2>2, <3>1, <3>2, <3>3
  <2> QED
    BY <2>1, <2>2
<1>5. \A s \in DOMAIN new : rows'[s] = new[s]
  BY <1>m DEF Merged
<1> QED
  BY <1>2, <1>3, <1>4, <1>5 DEF ActiveIsCurrent

LEMMA IndexKeepsRevisions ==
  ASSUME TypeOK, RevisionsAreExact, NoneIsNewer, NEW new, Sound(new), Index(new)
  PROVE  RevisionsAreExact' /\ NoneIsNewer'
<1>m. Merged(new)
  BY IndexMerges
<1> DEFINE keys == {<<s, new[s].rev>> : s \in Written(new)}
<1>1. /\ DOMAIN captured' = DOMAIN captured \cup keys
      /\ \A k \in DOMAIN captured : captured'[k] = captured[k]
      /\ \A k \in keys \ DOMAIN captured :
            captured'[k] = [content |-> new[k[1]].content, path |-> new[k[1]].path]
  BY DEF Index, Capture, Written
<1>2. tombs' = tombs \cup {<<s, rows[s].rev>> : s \in Gone(new)}
  BY DEF Index, Gone
<1>3. \A s \in DOMAIN rows' : rows'[s].rev \in Nat \ {0}
  BY <1>m DEF Row, Merged
<1>4. \A s \in DOMAIN rows : s \in DOMAIN rows' /\ rows[s].rev \in Nat /\ rows'[s].rev \in Nat
  BY <1>3, <1>m DEF TypeOK, Row, Merged
<1>5. \A s \in DOMAIN rows : rows[s].rev <= rows'[s].rev
  BY <1>4, <1>m DEF Merged
<1>6. \A k \in DOMAIN captured : k[1] \in DOMAIN rows /\ k[2] <= rows[k[1]].rev /\ k[2] \in Nat
  BY DEF NoneIsNewer, TypeOK
<1>7. \A t \in tombs : t[1] \in DOMAIN rows /\ t[2] <= rows[t[1]].rev /\ t[2] \in Nat
  BY DEF NoneIsNewer, TypeOK
<1>8. ASSUME NEW s \in DOMAIN rows'
      PROVE  /\ <<s, rows'[s].rev>> \in DOMAIN captured'
             /\ captured'[<<s, rows'[s].rev>>] = [content |-> rows'[s].content, path |-> rows'[s].path]
             /\ rows'[s].deleted => <<s, rows'[s].rev>> \in tombs'
  <2>1. CASE s \notin DOMAIN new
    <3>1. /\ s \in DOMAIN rows /\ rows'[s].path = rows[s].path
          /\ rows'[s].rev = rows[s].rev /\ rows'[s].content = rows[s].content
      BY <2>1, <1>m DEF Merged
    <3>2. rows[s].deleted => <<s, rows[s].rev>> \in tombs
      BY <3>1 DEF RevisionsAreExact
    <3>3. ~rows[s].deleted => s \in Gone(new)
      BY <2>1, <3>1 DEF Gone
    <3> QED
      BY <1>1, <1>2, <3>1, <3>2, <3>3 DEF RevisionsAreExact
  <2>2. CASE s \in DOMAIN new /\ s \in DOMAIN rows /\ rows'[s].rev = rows[s].rev
    <3>1. rows'[s].content = rows[s].content /\ rows'[s].path = rows[s].path /\ ~rows'[s].deleted
      BY <1>4, <2>2, <1>m DEF Sound, Merged
    <3> QED
      BY <1>1, <2>2, <3>1 DEF RevisionsAreExact
  <2>3. CASE s \in DOMAIN new /\ (s \in DOMAIN rows => rows'[s].rev # rows[s].rev)
    <3>1. rows'[s] = new[s] /\ ~new[s].deleted /\ s \in Written(new)
      BY <2>3, <1>m DEF Sound, Written, Merged
    <3>2. <<s, new[s].rev>> \in keys
      BY <3>1
    <3>3. <<s, new[s].rev>> \notin DOMAIN captured
      <4>1. ASSUME <<s, new[s].rev>> \in DOMAIN captured PROVE FALSE
        <5>1. s \in DOMAIN rows /\ new[s].rev <= rows[s].rev
          BY <1>6, <4>1
        <5>2. rows[s].rev <= new[s].rev /\ rows[s].rev \in Nat /\ new[s].rev \in Nat
          BY <1>4, <1>5, <3>1, <5>1
        <5> QED
          BY <2>3, <3>1, <5>1, <5>2
      <4> QED
        BY <4>1
    <3> QED
      BY <1>1, <3>1, <3>2, <3>3
  <2> QED
    BY <2>1, <2>2, <2>3, <1>m DEF Merged
<1>9. ASSUME NEW t \in tombs' PROVE rows'[t[1]].deleted \/ rows'[t[1]].rev > t[2]
  <2>1. CASE t \in tombs
    <3>1. PICK s \in DOMAIN rows : s = t[1]
      BY <1>7, <2>1
    <3>2. PICK n \in Nat : n = t[2] /\ n <= rows[s].rev /\ (rows[s].deleted \/ rows[s].rev > n)
      BY <1>7, <2>1, <3>1 DEF RevisionsAreExact
    <3>3. CASE s \in DOMAIN new
      <4>1. rows'[s].rev = rows[s].rev + 1 \/ (rows'[s].rev = rows[s].rev /\ ~rows[s].deleted)
        BY <3>3, <1>m DEF Merged
      <4> QED
        BY <1>4, <3>1, <3>2, <4>1
    <3>4. CASE s \notin DOMAIN new
      BY <3>1, <3>4, <1>m DEF Merged
    <3> QED
      BY <3>3, <3>4
  <2>2. CASE \E s \in Gone(new) : t = <<s, rows[s].rev>>
    BY <2>2, <1>m DEF Gone, Merged
  <2> QED
    BY <1>2, <1>9, <2>1, <2>2
<1>10. ASSUME NEW k \in DOMAIN captured' PROVE k[1] \in DOMAIN rows' /\ k[2] <= rows'[k[1]].rev
  <2>1. CASE k \in DOMAIN captured
    <3>1. PICK s \in DOMAIN rows, n \in Nat : s = k[1] /\ n = k[2] /\ n <= rows[s].rev
      BY <1>6, <2>1
    <3> QED
      BY <1>4, <1>5, <3>1
  <2>2. CASE k \in keys
    <3>1. PICK s \in DOMAIN new : k = <<s, new[s].rev>>
      BY <2>2 DEF Written
    <3>2. s \in DOMAIN rows' /\ new[s].rev = rows'[s].rev
      BY <3>1, <1>m DEF Merged
    <3> QED
      BY <1>3, <3>1, <3>2
  <2> QED
    BY <1>1, <1>10, <2>1, <2>2
<1>11. ASSUME NEW t \in tombs' PROVE t[1] \in DOMAIN rows' /\ t[2] <= rows'[t[1]].rev
  <2>1. CASE t \in tombs
    <3>1. PICK s \in DOMAIN rows, n \in Nat : s = t[1] /\ n = t[2] /\ n <= rows[s].rev
      BY <1>7, <2>1
    <3> QED
      BY <1>4, <1>5, <3>1
  <2>2. CASE \E s \in Gone(new) : t = <<s, rows[s].rev>>
    <3>1. PICK s \in Gone(new) : t = <<s, rows[s].rev>>
      BY <2>2
    <3>2. s \in DOMAIN rows
      BY DEF Gone
    <3> QED
      BY <1>4, <1>5, <3>1, <3>2
  <2> QED
    BY <1>2, <1>11, <2>1, <2>2
<1> QED
  BY <1>8, <1>9, <1>10, <1>11 DEF RevisionsAreExact, NoneIsNewer

LEMMA IndexTypes ==
  ASSUME TypeOK, NEW new, Sound(new), Index(new)
  PROVE  /\ DOMAIN rows' \subseteq Ids /\ rows' \in [DOMAIN rows' -> Row]
         /\ DOMAIN captured' \subseteq Ids \X (Nat \ {0})
         /\ captured' \in [DOMAIN captured' -> [content : Contents, path : Sources]]
         /\ tombs' \subseteq Ids \X (Nat \ {0})
         /\ active' \subseteq Ids \X (Nat \ {0}) \X Prints
<1>m. Merged(new)
  BY IndexMerges
<1> DEFINE fresh == [k \in {<<s, new[s].rev>> : s \in Written(new)} |->
                        [content |-> new[k[1]].content, path |-> new[k[1]].path]]
<1>1. DOMAIN rows' \subseteq Ids /\ rows' \in [DOMAIN rows' -> Row]
  BY <1>m DEF Index, Merged
<1>2. \A s \in DOMAIN new : /\ s \in Ids /\ new[s].rev \in Nat \ {0} /\ new[s].content \in Contents
                            /\ new[s].path \in Sources /\ new[s].print \in Prints
  BY DEF Sound, Row
<1>3. DOMAIN fresh \subseteq Ids \X (Nat \ {0})
  BY <1>2 DEF Written
<1>4. \A k \in DOMAIN fresh : fresh[k] \in [content : Contents, path : Sources]
  BY <1>2 DEF Written
<1>5. captured' = Capture(fresh)
  BY DEF Index, Written
<1> HIDE DEF fresh
<1>6. /\ DOMAIN captured' \subseteq Ids \X (Nat \ {0})
      /\ captured' \in [DOMAIN captured' -> [content : Contents, path : Sources]]
  BY <1>3, <1>4, <1>5 DEF Capture, TypeOK
<1>7. tombs' \subseteq Ids \X (Nat \ {0})
  <2>1. tombs' = tombs \cup {<<s, rows[s].rev>> : s \in Gone(new)}
    BY DEF Index, Gone
  <2>2. \A s \in Gone(new) : s \in Ids /\ rows[s].rev \in Nat \ {0}
    BY DEF Gone, TypeOK, Row
  <2> QED
    BY <2>1, <2>2 DEF TypeOK
<1>8. active' \subseteq Ids \X (Nat \ {0}) \X Prints
  <2>1. active' \subseteq active \cup {<<s, new[s].rev, new[s].print>> : s \in DOMAIN new}
    BY DEF Index, Passages, Written
  <2> QED
    BY <1>2, <2>1 DEF TypeOK
<1> QED
  BY <1>1, <1>6, <1>7, <1>8

LEMMA PublishKeeps == ASSUME IInv, Publish PROVE IInv'
<1>1. PICK print \in Prints, fresh \in Drawn :
        /\ stage = "publish"
        /\ Index(Found(Identity(fresh), print))
        /\ dirty' = dirty \ seen
        /\ IF Pending = {} THEN Release
           ELSE /\ stage' = "mark" /\ scan' = Unread /\ seen' = {}
                /\ UNCHANGED <<own, cursor, todo>>
        /\ UNCHANGED <<file, edits, touched, raced, intents>>
  BY DEF Publish
<1>2. PICK new : new = Found(Identity(fresh), print)
  OBVIOUS
<1>3. TypeOK /\ UniquePaths /\ ActiveIsCurrent /\ RevisionsAreExact /\ NoneIsNewer
  BY DEF IInv, IndexIsSane
<1>4. Sound(new) /\ Index(new)
  BY <1>1, <1>2, <1>3, FoundIsSound
<1>5. Merged(new)
  BY <1>3, <1>4, IndexMerges
<1>6. Pending' = Pending
  BY <1>1 DEF Pending
<1>7. /\ stage' \in {"free", "mark"} /\ own' \in BOOLEAN /\ cursor' \in {0, cursor} /\ todo' \subseteq Sources
      /\ scan' \in [Sources -> Held \ Malformed] /\ seen' = {}
      /\ stage' = "mark" => Pending # {}
  BY <1>1, <1>3, NothingMalformed DEF Release, TypeOK
<1>8. TypeOK'
  <2>1. /\ DOMAIN rows' \subseteq Ids /\ rows' \in [DOMAIN rows' -> Row]
        /\ DOMAIN captured' \subseteq Ids \X (Nat \ {0})
        /\ captured' \in [DOMAIN captured' -> [content : Contents, path : Sources]]
        /\ tombs' \subseteq Ids \X (Nat \ {0})
        /\ active' \subseteq Ids \X (Nat \ {0}) \X Prints
    BY <1>3, <1>4, IndexTypes
  <2>2. /\ UNCHANGED <<file, edits, touched, raced, intents>> /\ dirty' \subseteq Sources
        /\ cursor' \in DOMAIN intents \cup {0} /\ stage' \in Stages
    BY <1>1, <1>3, <1>7 DEF TypeOK, Stages
  <2> QED
    BY <1>3, <1>7, <2>1, <2>2 DEF TypeOK
<1>9. IntentsAreSane'
  BY <1>1, IntentsStay DEF IInv
<1>10. StepIsSane'
  <2>1. \A p \in Paths : Done(p)
    BY <1>1 DEF IInv, StepIsSane
  <2>2. \A p \in Paths : Done(p)'
    BY <1>1, <1>6, <2>1 DEF Done
  <2> QED
    BY <1>6, <1>7, <2>2 DEF StepIsSane
<1>11. ScanIsSane'
  BY <1>7 DEF ScanIsSane
<1>12. IndexIsSane'
  BY <1>3, <1>4, IndexKeepsPaths, IndexKeepsActive, IndexKeepsRevisions DEF IndexIsSane
<1>13. IndexAgrees'
  <2>1. ASSUME NEW p \in Sources, p \notin dirty' PROVE Agrees(p)'
    <3>1. scan[p] = file[p] /\ file' = file
      BY <1>1, <2>1 DEF IInv, ScanIsSane
    <3>2. \A s \in DOMAIN rows' : ~rows'[s].deleted =>
            /\ rows'[s].path \in Present
            /\ rows'[s].content = scan[rows'[s].path]
      BY <1>4, <1>5 DEF Merged, Sound
    <3>3. p \in Present => \E s \in DOMAIN rows' : ~rows'[s].deleted /\ rows'[s].path = p
      BY <1>4, <1>5 DEF Merged, Sound
    <3> QED
      BY <3>1, <3>2, <3>3 DEF Agrees, Holder, Present
  <2> QED
    BY <2>1 DEF IndexAgrees
<1> QED
  BY <1>8, <1>9, <1>10, <1>11, <1>12, <1>13 DEF IInv

LEMMA StutterKeeps == ASSUME IInv, UNCHANGED vars PROVE IInv'
<1>1. UNCHANGED <<file, edits, dirty, touched, raced, intents, rows, captured, tombs, active,
                  stage, own, cursor, todo, scan, seen>> /\ Pending' = Pending
  BY DEF vars, disk, tables, work, Pending
<1>2. TypeOK'
  BY <1>1 DEF IInv, TypeOK
<1>3. IntentsAreSane' /\ IndexIsSane' /\ IndexAgrees'
  BY <1>1, TablesStay DEF vars
<1>4. StepIsSane'
  BY <1>1 DEF IInv, StepIsSane, Done, Current
<1>5. ScanIsSane'
  BY <1>1 DEF IInv, ScanIsSane
<1> QED
  BY <1>2, <1>3, <1>4, <1>5 DEF IInv

LEMMA IInvHolds == Spec => []IInv
<1>1. Init => IInv
  BY InitIsSane
<1>2. ASSUME IInv, [Next]_vars PROVE IInv'
  <2>1. CASE UNCHANGED vars
    BY <1>2, <2>1, StutterKeeps
  <2>2. CASE Acquire \/ Crash
    BY <1>2, <2>2, AcquireKeeps, CrashKeeps
  <2>3. CASE Step
    BY <1>2, <2>3, LoadKeeps, InstallKeeps, ReplaceKeeps, UnlinkKeeps, DropKeeps, MarkKeeps, ReadKeeps,
       PublishKeeps DEF Step
  <2>4. CASE Call
    BY <1>2, <2>4, CallKeeps
  <2>5. CASE Edit \/ Move
    BY <1>2, <2>5, EditorKeeps
  <2> QED
    BY <1>2, <2>1, <2>2, <2>3, <2>4, <2>5 DEF Next
<1> QED
  BY <1>1, <1>2, PTL DEF Spec

-----------------------------------------------------------------------------
\* The revision a row of `sources` names holds the row's bytes and path, a
\* deleted source has a tombstone, and a source that came back is newer than
\* its tombstones (store.rs sync_locked).
THEOREM RevisionsStayExact == Spec => []RevisionsAreExact
<1>1. IInv => RevisionsAreExact
  BY DEF IInv, IndexIsSane
<1> QED
  BY <1>1, IInvHolds, PTL

\* No crash between installing, indexing and marking loses an accepted write
\* from the index; and rows and active passages agree with each other.
THEOREM IndexKeepsUp == Spec => []IndexAgreesWithDisk
<1>1. ASSUME IInv PROVE IndexAgreesWithDisk
  <2>1. TypeOK /\ UniquePaths /\ ActiveIsCurrent
    BY <1>1 DEF IInv, IndexIsSane
  <2>2. Pending = {} => \A p \in Sources \ dirty : Agrees(p)
    BY <1>1 DEF IInv, IndexAgrees, NeedsSync
  <2> QED
    BY <2>1, <2>2 DEF IndexAgreesWithDisk, Agrees
<1> QED
  BY <1>1, IInvHolds, PTL

-----------------------------------------------------------------------------
\* Steps that change neither files, intents nor what was edited.
LEMMA FilesStay ==
  ASSUME Acquire \/ Crash \/ Load \/ Install \/ Unlink \/ Read \/ Publish \/ Return \/ Sync \/ UNCHANGED vars
  PROVE  UNCHANGED <<file, intents, touched, edits>>
BY DEF Acquire, Crash, Load, Install, Unlink, Read, Publish, Return, Sync, disk, tables, vars

\* A program's change of a file is Replace or Drop, of its intent's file.
LEMMA ChangesAreOfTheIntent ==
  ASSUME IInv, [Next]_vars, edits' = edits
  PROVE  \/ UNCHANGED <<file, touched, intents>>
         \/ Mark \/ Replace \/ Drop
         \/ \E i \in Accepted!Operation : Record(i) /\ file[i.path] = i.expected
               /\ (i.op = "rename" => file[i.target] = Absent)
<1>1. ~Edit /\ ~Move
  <2>1. edits \in Nat
    BY DEF IInv, TypeOK
  <2> QED
    BY <2>1 DEF Edit, Move, Edited
<1> QED
  BY <1>1, FilesStay, CallsRecord DEF Next, Step, Call

\* A file of the library is replaced or removed by the program only while it
\* holds what the caller's compare-and-swap expected, but for the editor who
\* comes between the check and the rename (recovery.rs install, remove).
THEOREM EditsAreKept == Spec => EditKeptOutsideWindow
<1>1. ASSUME IInv, [Next]_vars PROVE EditKeptOutsideWindowStep
  <2> SUFFICES ASSUME NEW p \in Paths, file'[p] # file[p], edits' = edits
               PROVE  p \in raced \/ file[p] = ExpectedBy(Current(cursor), p)
    BY DEF EditKeptOutsideWindowStep
  <2>1. Replace \/ Drop
    BY <1>1, ChangesAreOfTheIntent DEF Mark, Record, disk
  <2>2. file \in [Paths -> Held]
    BY <1>1 DEF IInv, TypeOK
  <2>3. CASE Replace
    <3>1. cursor \in Pending /\ (Current(cursor).target \in raced \/ file[Current(cursor).target] = Want(Current(cursor)))
      BY <1>1, <2>3 DEF Replace, IInv, StepIsSane
    <3>2. p = Current(cursor).target
      BY <2>2, <2>3 DEF Replace
    <3> QED
      BY <3>1, <3>2 DEF Want, ExpectedBy
  <2>4. CASE Drop
    <3>1. /\ cursor \in Pending
          /\ Current(cursor).path \in raced \/ file[Current(cursor).path] = Current(cursor).expected
      BY <1>1, <2>4 DEF Drop, IInv, StepIsSane
    <3>2. p = Current(cursor).path
      BY <2>2, <2>4 DEF Drop
    <3>3. OfItsFiles(Current(cursor))
      BY <1>1, <3>1, CursorsIntent DEF IInv
    <3> QED
      BY <3>1, <3>2, <3>3 DEF ExpectedBy, OfItsFiles
  <2> QED
    BY <2>1, <2>3, <2>4
<1> QED
  BY <1>1, IInvHolds, PTL DEF Spec, EditKeptOutsideWindow

-----------------------------------------------------------------------------
\* The variables of AcceptedFiles.
Views   == [p \in Paths |-> View(p)]
Log     == [k \in DOMAIN intents |-> intents[k].op]
Settled == \A k \in DOMAIN intents : intents[k].applied

ViewsAreRight ==
    \A p \in Paths :
       /\ Pending = {} => View(p) = file[p]
       /\ Pending # {} =>
            View(p) = IF p \in touched THEN file[p] ELSE Accepted!Outcome(intents[Last].op, p, file[p])

LEMMA ViewsRead == IInv => ViewsAreRight
<1> SUFFICES ASSUME IInv, NEW p \in Paths
             PROVE  /\ Pending = {} => View(p) = file[p]
                    /\ Pending # {} =>
                         View(p) = IF p \in touched THEN file[p]
                                   ELSE Accepted!Outcome(intents[Last].op, p, file[p])
  BY DEF ViewsAreRight
<1>1. CASE Pending = {}
  BY <1>1 DEF View, Pending
<1>2. CASE Pending # {}
  <2>1. Pending = {Last} /\ {k \in DOMAIN intents : ~intents[k].applied} = {Last}
    BY <1>2, PendingIsLast DEF IInv, Pending
  <2>2. (CHOOSE k \in {Last} : TRUE) = Last
    OBVIOUS
  <2> QED
    BY <2>1, <2>2 DEF View, Accepted!Outcome, Accepted!Installs, Accepted!Removes
<1> QED
  BY <1>1, <1>2

LEMMA ViewsReadAfter == IInv' => ViewsAreRight'
BY ViewsRead, PTL

LEMMA InitIsAccepted == ASSUME Init PROVE Accepted!AcceptedInit
<1>1. intents = <<>> /\ DOMAIN intents = {} /\ touched = {}
  BY DEF Init
<1>2. Log = <<>>
  BY <1>1 DEF Log
<1>3. Settled
  BY <1>1 DEF Settled
<1>4. \A p \in Paths : View(p) \in Held
  <2>1. \A p \in Paths : View(p) = file[p]
    BY <1>1 DEF View
  <2> QED
    BY <2>1 DEF Init
<1> QED
  BY <1>1, <1>2, <1>3, <1>4 DEF Log, Settled, Accepted!AcceptedInit, Held

LEMMA StaysAccepted ==
  ASSUME UNCHANGED <<file, touched, intents>> PROVE UNCHANGED <<Views, Log, Settled, touched>>
BY DEF Views, View, Log, Settled

LEMMA RecordAccepts ==
  ASSUME IInv, IInv', NEW i \in Accepted!Operation, Record(i), file[i.path] = i.expected,
         i.op = "rename" => file[i.target] = Absent
  PROVE  Accepted!Accept
<1>1. /\ intents' = Append(intents, [op |-> i, applied |-> FALSE])
      /\ touched' = {} /\ file' = file /\ Pending = {}
  BY DEF Record, IInv, StepIsSane
<1>2. intents \in Seq(Intent) /\ [op |-> i, applied |-> FALSE] \in Intent
  BY DEF IInv, TypeOK, Intent
<1>3. /\ Len(intents') = Last + 1 /\ DOMAIN intents' = 1..(Last + 1) /\ Last \in Nat
      /\ intents'[Last + 1] = [op |-> i, applied |-> FALSE]
      /\ DOMAIN intents = 1..Last /\ \A k \in DOMAIN intents : intents'[k] = intents[k]
  BY <1>1, <1>2, AppendProperties, LenProperties DEF Last
<1>4. Settled /\ ~Settled'
  BY <1>1, <1>3 DEF Settled, Pending
<1>5. Log' = Append(Log, i)
  <2>1. Log \in Seq(Accepted!Operation) /\ Len(Log) = Last
    <3>1. Log \in [1..Last -> Accepted!Operation]
      BY <1>3, PendingIsLast DEF Log, IInv
    <3> QED
      BY <1>3, <3>1, SeqDef, LenProperties
  <2>2. /\ Append(Log, i) \in Seq(Accepted!Operation) /\ Len(Append(Log, i)) = Last + 1
        /\ Append(Log, i)[Last + 1] = i /\ \A k \in 1..Last : Append(Log, i)[k] = Log[k]
    BY <2>1, AppendProperties
  <2>3. DOMAIN Log' = 1..(Last + 1) /\ Log'[Last + 1] = i /\ \A k \in 1..Last : Log'[k] = Log[k]
    BY <1>3 DEF Log
  <2>4. DOMAIN Append(Log, i) = 1..(Last + 1)
    BY <2>2, LenProperties
  <2>5. \A k \in 1..(Last + 1) : Log'[k] = Append(Log, i)[k]
    BY <1>3, <2>2, <2>3
  <2>6. Log' \in Seq(Accepted!Operation) /\ Len(Log') = Last + 1
    <3>1. \A k \in 1..(Last + 1) : Log'[k] \in Accepted!Operation
      BY <2>2, <2>4, <2>5, ElementOfSeq
    <3>2. Log' \in [1..(Last + 1) -> Accepted!Operation]
      BY <2>3, <3>1 DEF Log
    <3> QED
      BY <1>3, <2>3, <3>2, SeqDef, LenProperties
  <2> QED
    BY <1>3, <2>2, <2>5, <2>6, SeqEqual
<1>6. \A p \in Paths : View(p) = file[p]
  BY <1>1, ViewsRead DEF ViewsAreRight
<1>7. \A p \in Paths : View(p)' = Accepted!Outcome(i, p, View(p))
  <2>1. Pending' # {} /\ Last' = Last + 1 /\ intents'[Last'].op = i
    BY <1>3 DEF Pending, Last
  <2>2. ViewsAreRight'
    BY ViewsReadAfter
  <2> QED
    BY <1>1, <1>6, <2>1, <2>2 DEF ViewsAreRight
<1>8. i.path \in Paths /\ i.target \in Paths
  BY DEF Accepted!Operation
<1>9. Views' = [p \in Paths |-> Accepted!Outcome(i, p, Views[p])]
  BY <1>7 DEF Views
<1>10. Views[i.path] = i.expected /\ (i.op = "rename" => Views[i.target] = Absent)
  BY <1>6, <1>8 DEF Views
<1> HIDE DEF Views, Log, Settled
<1> QED
  BY <1>1, <1>4, <1>5, <1>9, <1>10 DEF Accepted!Accept, Views, Log, Settled

LEMMA MarkSettles == ASSUME IInv, IInv', Mark PROVE Accepted!Settle
<1>1. /\ UNCHANGED <<file, touched>> /\ DOMAIN intents' = DOMAIN intents
      /\ Pending # {} /\ stage = "mark"
      /\ \A k \in DOMAIN intents : intents'[k].op = intents[k].op /\ intents'[k].applied
  <2>1. intents' = [k \in DOMAIN intents |-> [intents[k] EXCEPT !.applied = TRUE]]
    BY DEF Mark
  <2>2. ASSUME NEW i \in Intent PROVE LET j == [i EXCEPT !.applied = TRUE] IN j.op = i.op /\ j.applied
    BY DEF Intent
  <2>3. \A k \in DOMAIN intents : intents[k] \in Intent
    BY PendingIsLast DEF IInv
  <2> QED
    BY <2>1, <2>2, <2>3 DEF Mark, disk, IInv, StepIsSane
<1>2. Log' = Log
  BY <1>1 DEF Log
<1>3. ~Settled /\ Settled'
  BY <1>1 DEF Settled, Pending
<1>4. Views' = Views
  <2>1. Pending = {Last} /\ Pending' = {}
    BY <1>1, PendingIsLast DEF IInv, Pending
  <2>2. ViewsAreRight /\ ViewsAreRight'
    BY ViewsRead, ViewsReadAfter
  <2>3. \A p \in Paths : Done(p)
    BY <1>1 DEF IInv, StepIsSane
  <2>4. ASSUME NEW p \in Paths PROVE View(p) = file[p] /\ View(p)' = file[p]
    BY <1>1, <2>1, <2>2, <2>3 DEF ViewsAreRight, Done
  <2> QED
    BY <2>4 DEF Views
<1> QED
  BY <1>1, <1>2, <1>3, <1>4 DEF Accepted!Settle, Views, Log, Settled

\* Replace and Drop make of one file what the intent says.
LEMMA EffectsAreAccepted ==
  ASSUME IInv, IInv', cursor \in Pending, NEW t \in Paths, UNCHANGED <<intents, touched>>,
         \A p \in Paths \ {t} : file'[p] = file[p],
         \A before : file'[t] = Accepted!Outcome(intents[Last].op, t, before)
  PROVE  Accepted!AcceptedNext \/ UNCHANGED <<Views, Log, Settled, touched>>
<1>1. Pending = {Last} /\ Pending' = Pending /\ Last' = Last /\ DOMAIN intents = 1..Last /\ Last \in Nat
  BY PendingIsLast DEF IInv, Pending, Last
<1>2. ViewsAreRight /\ ViewsAreRight'
  BY ViewsRead, ViewsReadAfter
<1>3. ASSUME NEW p \in Paths \ {t} PROVE View(p)' = View(p)
  BY <1>1, <1>2 DEF ViewsAreRight
<1>4. Log' = Log /\ Settled' = Settled /\ ~Settled
  BY <1>1 DEF Log, Settled, Pending
<1>5. CASE t \notin touched
  <2>1. View(t) = file'[t] /\ View(t)' = file'[t]
    BY <1>1, <1>2, <1>5 DEF ViewsAreRight
  <2>2. Views' = Views
    BY <1>3, <2>1 DEF Views
  <2> QED
    BY <1>4, <2>2
<1>6. CASE t \in touched
  <2>1. View(t)' = file'[t]
    BY <1>1, <1>2, <1>6 DEF ViewsAreRight
  <2>2. Len(Log) = Last /\ Log[Len(Log)] = intents[Last].op
    <3>1. Log \in [1..Last -> Accepted!Operation]
      BY <1>1, PendingIsLast DEF Log, IInv
    <3>2. Log \in Seq(Accepted!Operation) /\ Len(Log) = Last
      BY <1>1, <3>1, SeqDef, LenProperties
    <3> QED
      BY <1>1, <3>2 DEF Log, Pending
  <2>3. Views' = [Views EXCEPT ![t] = Accepted!Outcome(Log[Len(Log)], t, Views[t])]
    <3>1. View(t)' = Accepted!Outcome(Log[Len(Log)], t, Views[t])
      BY <2>1, <2>2
    <3> QED
      BY <1>3, <3>1 DEF Views
  <2>4. Accepted!Reassert(t)
    BY <1>4, <1>6, <2>3 DEF Accepted!Reassert, Views, Log, Settled
  <2> QED
    BY <2>4 DEF Accepted!AcceptedNext
<1> QED
  BY <1>5, <1>6

LEMMA EditedIsAccepted ==
  ASSUME IInv, IInv', NEW ps \in SUBSET Paths, Edited(ps), \A p \in Paths \ ps : file'[p] = file[p]
  PROVE  Accepted!Edit(ps)
<1>1. UNCHANGED intents /\ touched' = touched \cup ps /\ Pending' = Pending /\ Last' = Last
  BY DEF Edited, tables, Pending, Last
<1>2. ViewsAreRight /\ ViewsAreRight'
  BY ViewsRead, ViewsReadAfter
<1>3. ASSUME NEW p \in Paths \ ps PROVE View(p)' = View(p)
  BY <1>1, <1>2 DEF ViewsAreRight
<1>4. ASSUME NEW p \in Paths PROVE View(p)' \in Held
  <2>1. file'[p] \in Held
    BY DEF IInv, TypeOK
  <2>2. CASE Pending = {} \/ p \in touched'
    BY <1>1, <1>2, <2>1, <2>2 DEF ViewsAreRight
  <2>3. CASE Pending # {} /\ p \notin touched'
    <3>1. Pending = {Last} /\ intents[Last].op \in Accepted!Operation
      BY <2>3, PendingIsLast DEF IInv, Pending
    <3>2. Accepted!Outcome(intents[Last].op, p, file'[p]) \in Held
      BY <2>1, <3>1 DEF Accepted!Outcome, Accepted!Operation, Held
    <3> QED
      BY <1>1, <1>2, <2>3, <3>2 DEF ViewsAreRight
  <2> QED
    BY <2>2, <2>3
<1>5. Views' \in [Paths -> Held] /\ \A p \in Paths \ ps : Views'[p] = Views[p]
  BY <1>3, <1>4 DEF Views
<1>6. Log' = Log /\ Settled' = Settled
  BY <1>1 DEF Log, Settled
<1> QED
  BY <1>1, <1>5, <1>6 DEF Accepted!Edit, Views, Log, Settled, Held

LEMMA StepIsAccepted ==
  ASSUME IInv, IInv', [Next]_vars
  PROVE  Accepted!AcceptedNext \/ UNCHANGED <<Views, Log, Settled, touched>>
<1>0. file \in [Paths -> Held]
  BY DEF IInv, TypeOK
<1>1. CASE UNCHANGED <<file, touched, intents>>
  BY <1>1, StaysAccepted
<1>2. CASE Mark
  BY <1>2, MarkSettles DEF Accepted!AcceptedNext
<1>3. CASE \E i \in Accepted!Operation : Record(i) /\ file[i.path] = i.expected
              /\ (i.op = "rename" => file[i.target] = Absent)
  BY <1>3, RecordAccepts DEF Accepted!AcceptedNext
<1>4. CASE Replace
  <2>1. cursor \in Pending /\ Current(cursor).op # "delete"
    BY <1>4 DEF Replace, IInv, StepIsSane
  <2>2. Current(cursor) = intents[Last].op /\ Current(cursor).target \in Paths
    BY <2>1, CursorsIntent, PendingIsLast DEF IInv, Current
  <2>3. PICK t \in Paths : t = intents[Last].op.target
    BY <2>2
  <2>4. /\ UNCHANGED <<intents, touched>> /\ file' = [file EXCEPT ![t] = intents[Last].op.content]
    BY <1>4, <2>2, <2>3 DEF Replace, tables
  <2>5. /\ \A p \in Paths \ {t} : file'[p] = file[p]
        /\ \A before : file'[t] = Accepted!Outcome(intents[Last].op, t, before)
    BY <1>0, <2>1, <2>2, <2>3, <2>4 DEF Accepted!Outcome, Accepted!Installs
  <2> QED
    BY <2>1, <2>4, <2>5, EffectsAreAccepted
<1>5. CASE Drop
  <2>1. cursor \in Pending /\ Current(cursor).op \in {"delete", "rename"}
    BY <1>5 DEF Drop, IInv, StepIsSane
  <2>2. /\ Current(cursor) = intents[Last].op /\ Current(cursor).path \in Paths /\ OfItsFiles(Current(cursor))
    BY <2>1, CursorsIntent, PendingIsLast DEF IInv, Current
  <2>3. PICK t \in Paths : t = intents[Last].op.path
    BY <2>2
  <2>4. /\ UNCHANGED <<intents, touched>> /\ file' = [file EXCEPT ![t] = Absent]
    BY <1>5, <2>2, <2>3 DEF Drop, tables
  <2>5. /\ \A p \in Paths \ {t} : file'[p] = file[p]
        /\ \A before : file'[t] = Accepted!Outcome(intents[Last].op, t, before)
    BY <1>0, <2>1, <2>2, <2>3, <2>4 DEF Accepted!Outcome, Accepted!Installs, Accepted!Removes, OfItsFiles
  <2> QED
    BY <2>1, <2>4, <2>5, EffectsAreAccepted
<1>6. CASE Edit
  <2>1. PICK p \in Paths : \E c \in Choices[p] \cup {Absent} : file' = [file EXCEPT ![p] = c] /\ Edited({p})
    BY <1>6 DEF Edit
  <2> QED
    BY <1>0, <2>1, EditedIsAccepted DEF Accepted!AcceptedNext
<1>7. CASE Move
  <2>1. PICK p \in Sources, q \in Sources : file' = [file EXCEPT ![p] = Absent, ![q] = file[p]] /\ Edited({p, q})
    BY <1>7 DEF Move
  <2>2. p \in Paths /\ q \in Paths
    BY DEF Paths
  <2>3. {p, q} \in SUBSET Paths /\ \A r \in Paths \ {p, q} : file'[r] = file[r]
    BY <1>0, <2>1, <2>2
  <2>4. Accepted!Edit({p, q})
    BY <2>1, <2>3, EditedIsAccepted
  <2> QED
    BY <2>3, <2>4 DEF Accepted!AcceptedNext
<1> QED
  <2>1. CASE edits' = edits
    BY <2>1, <1>1, <1>2, <1>3, <1>4, <1>5, ChangesAreOfTheIntent
  <2>2. CASE edits' # edits
    <3>1. Edit \/ Move
      BY <2>2, FilesStay DEF Next, Step, Call, Replace, Drop, Mark, disk,
         WriteSource, WriteRawAsset, DeleteSource, RenameSource, Record
    <3> QED
      BY <3>1, <1>6, <1>7
  <2> QED
    BY <2>1, <2>2

\* An accepted write, delete or rename takes effect once, as a whole and from
\* the content it was accepted against, whatever crashes and replays come
\* between the intent, the rename of the file and the mark (recovery.rs).
THEOREM StoreImplementsAcceptedFiles == Spec => ImplementsAcceptedFiles
<1>1. Init => Accepted!AcceptedInit
  BY InitIsAccepted
<1>2. ASSUME IInv, IInv', [Next]_vars PROVE [Accepted!AcceptedNext]_Accepted!acceptedVars
  BY <1>2, StepIsAccepted DEF Accepted!acceptedVars, Views, Log, Settled
<1> QED
  BY <1>1, <1>2, IInvHolds, PTL DEF Spec, ImplementsAcceptedFiles, Accepted!AcceptedSpec
=============================================================================
