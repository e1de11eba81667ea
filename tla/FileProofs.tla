----------------------------- MODULE FileProofs -----------------------------
(***************************************************************************)
(* What the proofs about Access use of the parts that write files: the     *)
(* writes of exact bytes and their journal, copies of the workspace, and   *)
(* documents from outside.  Each has an inductive invariant of its own.    *)
(***************************************************************************)
EXTENDS Access, SequenceTheorems, TLAPS

-----------------------------------------------------------------------------
(***************************************************************************)
(* The journal.  What a process writes is its own and was never refused,   *)
(* and a row, a file or a write in progress comes after what it replaces   *)
(* in the order in which the files were locked.                            *)
(***************************************************************************)

\* What a process works on.
Work == [stage : J!Stages, file : Destinations, library : BOOLEAN, value : J!Bytes, row : Nat,
         before : J!Bytes]

\* The types without the locks.
JournalTypes ==
    /\ file \in [Destinations -> J!Bytes]
    /\ journal \in Seq(J!Entry)
    /\ writer \in Writers \cup {None}
    /\ flock \in [Destinations -> Writers \cup {None}]
    /\ work \in [Writers -> Work]
    /\ begun \in J!Bytes /\ edits \in Nat /\ refused \subseteq J!Bytes
    /\ turn \in Seq(J!Bytes) /\ edited \subseteq Destinations

\* A process holds the locks of its step, and the row it replays or has
\* recorded is in the journal.
Placed(p) ==
    /\ work[p].library => writer = p
    /\ work[p].stage = "ack" => work[p].library
    /\ work[p].stage \in {"image", "record", "write", "ack"} => flock[work[p].file] = p
    /\ work[p].stage \in {"check", "reinstall", "note"} =>
          /\ work[p].row \in DOMAIN journal
          /\ flock[journal[work[p].row].file] = p
    /\ work[p].library /\ work[p].stage \in {"write", "ack"} =>
          work[p].row \in DOMAIN journal

\* Rows are added and marked, and else stay what they were.
RowsLast ==
    /\ journal' \in Seq(J!Entry)
    /\ \A k \in DOMAIN journal :
          /\ k \in DOMAIN journal'
          /\ journal'[k].file = journal[k].file
          /\ journal'[k].before = journal[k].before
          /\ journal'[k].after = journal[k].after

\* What p does leaves the others where they are, with the locks they hold.
OthersStay(p) ==
    \A q \in Writers : q # p => /\ work'[q] = work[q]
                                /\ writer = q => writer' = q
                                /\ \A f \in Destinations : flock[f] = q => flock'[f] = q

-----------------------------------------------------------------------------
\* What a call starts with is work.
LEMMA TaskIsWork ==
  ASSUME J!Assumptions, NEW s \in J!Stages, NEW f \in Destinations, NEW library \in BOOLEAN,
         NEW v \in J!Bytes
  PROVE  /\ J!Task(s, f, library, v) \in Work
         /\ J!Task(s, f, library, v).stage = s /\ J!Task(s, f, library, v).file = f
         /\ J!Task(s, f, library, v).library = library /\ J!Task(s, f, library, v).value = v
  BY DEF J!Task, Work, J!Bytes, J!Original, J!Assumptions

\* So is doing nothing.
LEMMA IdleIsWork ==
  ASSUME J!Assumptions
  PROVE  J!Idle \in Work /\ J!Idle.stage = "idle" /\ ~J!Idle.library /\ J!Idle.value = 0
<1>1. J!AnyFile \in Destinations
  BY DEF J!Assumptions, J!AnyFile
<1>2. "idle" \in J!Stages /\ J!Original \in J!Bytes /\ J!Original = 0
  BY DEF J!Stages, J!Bytes, J!Original, J!Assumptions
<1> QED
  BY <1>1, <1>2 DEF J!Idle, J!Task, Work

\* A process that leaves is idle and holds nothing; the others are as before.
LEMMA Leaves ==
  ASSUME J!Assumptions, JournalTypes, NEW p \in Writers, J!Leave(p)
  PROVE  /\ work' \in [Writers -> Work] /\ work'[p] = J!Idle
         /\ \A q \in Writers : q # p => work'[q] = work[q]
         /\ flock' \in [Destinations -> Writers \cup {None}]
         /\ \A f \in Destinations : flock[f] # p => flock'[f] = flock[f]
         /\ writer' \in Writers \cup {None}
         /\ \A q \in Writers : q # p /\ writer = q => writer' = q
<1>1. work \in [Writers -> Work] /\ work' = [work EXCEPT ![p] = J!Idle] /\ J!Idle \in Work
  BY IdleIsWork DEF JournalTypes, Work, J!Leave
<1>2. work' \in [Writers -> Work] /\ work'[p] = J!Idle
      /\ \A q \in Writers : q # p => work'[q] = work[q]
  BY <1>1
<1>3. /\ flock' \in [Destinations -> Writers \cup {None}]
      /\ \A f \in Destinations : flock[f] # p => flock'[f] = flock[f]
  BY DEF JournalTypes, J!Leave, J!FreedBy
<1>4. /\ writer' \in Writers \cup {None}
      /\ \A q \in Writers : q # p /\ writer = q => writer' = q
  BY DEF JournalTypes, J!Leave
<1> QED
  BY <1>2, <1>3, <1>4

\* A step of one process from one place to the next.
LEMMA GoesTo ==
  ASSUME JournalTypes, NEW p \in Writers, NEW s \in J!Stages, J!Go(p, s)
  PROVE  /\ work' \in [Writers -> Work]
         /\ work'[p].stage = s /\ work'[p].file = work[p].file
         /\ work'[p].library = work[p].library /\ work'[p].value = work[p].value
         /\ work'[p].row = work[p].row /\ work'[p].before = work[p].before
         /\ \A q \in Writers : q # p => work'[q] = work[q]
  BY DEF JournalTypes, J!Go, Work

\* A function on 1..n is a sequence.
LEMMA InSeq == ASSUME NEW n \in Nat, NEW X, NEW g \in [1..n -> X] PROVE g \in Seq(X)
  OBVIOUS

\* Marking a row applied changes nothing else of the journal.
LEMMA Marked ==
  ASSUME journal \in Seq(J!Entry), NEW k \in DOMAIN journal
  PROVE  /\ J!Acknowledged(k) \in [1..Len(journal) -> J!Entry]
         /\ DOMAIN J!Acknowledged(k) = DOMAIN journal
         /\ \A l \in DOMAIN journal : /\ J!Acknowledged(k)[l].file = journal[l].file
                                      /\ J!Acknowledged(k)[l].before = journal[l].before
                                      /\ J!Acknowledged(k)[l].after = journal[l].after
<1>1. /\ Len(journal) \in Nat /\ DOMAIN journal = 1..Len(journal)
      /\ journal \in [1..Len(journal) -> [file : Destinations, before : J!Bytes, after : J!Bytes,
                                         applied : BOOLEAN]]
  BY LenProperties DEF J!Entry
<1>2. /\ J!Acknowledged(k) \in [1..Len(journal) ->
                               [file : Destinations, before : J!Bytes, after : J!Bytes,
                                                 applied : BOOLEAN]]
      /\ J!Acknowledged(k)[k].file = journal[k].file
      /\ J!Acknowledged(k)[k].before = journal[k].before
      /\ J!Acknowledged(k)[k].after = journal[k].after
      /\ \A l \in DOMAIN journal : l # k => J!Acknowledged(k)[l] = journal[l]
  BY <1>1 DEF J!Acknowledged
<1> QED
  BY <1>1, <1>2 DEF J!Entry

\* Note and acknowledgement keep the rows.
LEMMA Marks ==
  ASSUME journal \in Seq(J!Entry), NEW k \in DOMAIN journal, journal' = J!Acknowledged(k)
  PROVE  RowsLast /\ DOMAIN journal' = DOMAIN journal
<1>1. Len(journal) \in Nat
  BY LenProperties
<1> QED
  BY <1>1, Marked, InSeq DEF RowsLast

\* The fields of a row.
LEMMA EntryTypes ==
  ASSUME journal \in Seq(J!Entry), NEW k \in DOMAIN journal
  PROVE  k \in Nat /\ journal[k].file \in Destinations /\ journal[k].before \in J!Bytes
         /\ journal[k].after \in J!Bytes
<1>1. k \in Nat /\ journal[k] \in J!Entry
  BY ElementOfSeq, LenProperties
<1> QED
  BY <1>1 DEF J!Entry

\* Setting two fields of a process's task sets these alone.
LEMMA TurnsToRow ==
  ASSUME JournalTypes, NEW p \in Writers, NEW s \in J!Stages, NEW k \in Nat,
         J!GoToRow(p, s, k)
  PROVE  /\ work' \in [Writers -> Work]
         /\ work'[p].stage = s /\ work'[p].file = work[p].file
         /\ work'[p].library = work[p].library /\ work'[p].value = work[p].value
         /\ work'[p].row = k /\ work'[p].before = work[p].before
         /\ \A q \in Writers : q # p => work'[q] = work[q]
  BY DEF JournalTypes, Work, J!GoToRow

\* The same for a step that takes the image of a file.
LEMMA TakesImage ==
  ASSUME JournalTypes, NEW p \in Writers, NEW s \in J!Stages, NEW b \in J!Bytes,
         J!GoWithImage(p, s, b)
  PROVE  /\ work' \in [Writers -> Work]
         /\ work'[p].stage = s /\ work'[p].file = work[p].file
         /\ work'[p].library = work[p].library /\ work'[p].value = work[p].value
         /\ work'[p].row = work[p].row /\ work'[p].before = b
         /\ \A q \in Writers : q # p => work'[q] = work[q]
  BY DEF JournalTypes, Work, J!GoWithImage

\* A row is added at the end.
LEMMA AddsRow ==
  ASSUME journal \in Seq(J!Entry), NEW e \in J!Entry, journal' = Append(journal, e)
  PROVE  /\ RowsLast /\ DOMAIN journal' = 1..(Len(journal) + 1)
         /\ DOMAIN journal = 1..Len(journal) /\ Len(journal) \in Nat
         /\ journal'[Len(journal) + 1] = e
         /\ \A l \in DOMAIN journal : journal'[l] = journal[l]
  BY DEF RowsLast

-----------------------------------------------------------------------------
\* What a step of p keeps.
Sound(p) == JournalTypes' /\ RowsLast /\ OthersStay(p) /\ Placed(p)'

\* An untouched journal keeps its rows.
LEMMA RowsAsTheyAre == ASSUME journal \in Seq(J!Entry), UNCHANGED journal PROVE RowsLast
  BY DEF RowsLast

\* Whoever leaves has nothing to hold.
LEMMA LeaveIsSound ==
  ASSUME J!Assumptions, JournalTypes, NEW p \in Writers, J!Leave(p), RowsLast,
         file' \in [Destinations -> J!Bytes], begun' \in J!Bytes, edits' \in Nat,
         refused' \subseteq J!Bytes,
         turn' \in Seq(J!Bytes), edited' \subseteq Destinations
  PROVE  Sound(p)
<1>1. Placed(p)'
  BY Leaves, IdleIsWork DEF Placed
<1>2. JournalTypes'
  BY Leaves DEF JournalTypes, RowsLast
<1>3. OthersStay(p)
  BY Leaves DEF OthersStay, J!Assumptions
<1> QED
  BY <1>1, <1>2, <1>3 DEF Sound

\* Nor has who is refused.
LEMMA RefuseIsSound ==
  ASSUME J!Assumptions, JournalTypes, NEW p \in Writers, J!Refuse(p), RowsLast,
         file' \in [Destinations -> J!Bytes], begun' \in J!Bytes, edits' \in Nat,
         turn' \in Seq(J!Bytes), edited' \subseteq Destinations
  PROVE  Sound(p)
<1>1. refused' \subseteq J!Bytes
  BY DEF JournalTypes, J!Refuse, Work
<1> QED
  BY <1>1, LeaveIsSound DEF J!Refuse

\* Whoever goes on holds what the next step needs.
LEMMA GoIsSound ==
  ASSUME J!Assumptions, JournalTypes, NEW p \in Writers, NEW s \in J!Stages, J!Go(p, s), RowsLast,
         file' \in [Destinations -> J!Bytes], begun' \in J!Bytes, edits' \in Nat,
         refused' \subseteq J!Bytes,
         turn' \in Seq(J!Bytes), edited' \subseteq Destinations, UNCHANGED writer,
         flock' \in [Destinations -> Writers \cup {None}],
         \A q \in Writers \ {p} : \A f \in Destinations : flock[f] = q => flock'[f] = q,
         Placed(p)'
  PROVE  Sound(p)
  BY GoesTo DEF Sound, JournalTypes, RowsLast, OthersStay

\* A library's writer lock is taken only when free.
LEMMA BeginIsSound ==
  ASSUME J!Assumptions, JournalTypes, \A q \in Writers : Placed(q),
         NEW p \in Writers, NEW f \in Destinations, NEW library \in BOOLEAN, J!Begin(p, f, library)
  PROVE  Sound(p)
<1>1. begun' \in J!Bytes /\ begun' = begun + 1 /\ RowsLast
  BY RowsAsTheyAre DEF JournalTypes, J!Begin, J!Bytes, J!Assumptions
<1>2. CASE library /\ writer # None
  <2>1. /\ refused' = refused \cup {begun'}
        /\ UNCHANGED <<work, writer, file, journal, flock, edits, turn, edited>>
    BY <1>2 DEF J!Begin
  <2> QED
    BY <1>1, <2>1 DEF Sound, JournalTypes, OthersStay, Placed
<1>3. CASE ~(library /\ writer # None)
  <2> DEFINE s == IF library THEN "replay" ELSE "lock"
  <2>0. s \in J!Stages /\ work' = [work EXCEPT ![p] = J!Task(s, f, library, begun')]
    BY <1>3 DEF J!Begin, J!Stages
  <2>1. /\ work' \in [Writers -> Work]
        /\ work'[p].stage = (IF library THEN "replay" ELSE "lock")
        /\ work'[p].library = library /\ work'[p].file = f /\ work'[p].value = begun'
        /\ \A q \in Writers : q # p => work'[q] = work[q]
    BY <1>1, <2>0, TaskIsWork DEF JournalTypes
  <2>2. writer' = IF library THEN p ELSE writer
    BY <1>3 DEF J!Begin
  <2>3. Placed(p)'
    BY <2>1, <2>2 DEF Placed
  <2>4. OthersStay(p)
    BY <1>3, <2>1, <2>2 DEF OthersStay, J!Begin, J!Assumptions
  <2> QED
    BY <1>1, <1>3, <2>1, <2>2, <2>3, <2>4 DEF J!Begin, Sound, JournalTypes
<1> QED
  BY <1>2, <1>3

\* Opening the library takes the writer lock as well.
LEMMA OpenIsSound ==
  ASSUME J!Assumptions, JournalTypes, \A q \in Writers : Placed(q), NEW p \in Writers, J!Open(p)
  PROVE  Sound(p)
<1>1. "replay" \in J!Stages /\ J!AnyFile \in Destinations /\ J!Original \in J!Bytes
  BY DEF J!Stages, J!AnyFile, J!Assumptions, J!Bytes, J!Original
<1>2. /\ J!Task("replay", J!AnyFile, TRUE, J!Original) \in Work
      /\ J!Task("replay", J!AnyFile, TRUE, J!Original).stage = "replay"
  BY <1>1 DEF J!Task, Work
<1>3. /\ work' \in [Writers -> Work] /\ work'[p].stage = "replay" /\ writer' = p
      /\ \A q \in Writers : q # p => work'[q] = work[q]
  BY <1>2 DEF J!Open, JournalTypes
<1>4. Placed(p)'
  BY <1>3 DEF Placed
<1>5. OthersStay(p)
  BY <1>3 DEF OthersStay, J!Open, J!Assumptions
<1> QED
  BY <1>3, <1>4, <1>5, RowsAsTheyAre DEF J!Open, Sound, JournalTypes

\* The replay holds the lock of the file whose row it looks at.
LEMMA ReplayIsSound ==
  ASSUME J!Assumptions, JournalTypes, \A q \in Writers : Placed(q), NEW p \in Writers, J!Replay(p)
  PROVE  Sound(p)
<1>1. /\ UNCHANGED <<file, journal, begun, edits, turn, edited>> /\ RowsLast
      /\ work[p].stage = "replay"
  BY RowsAsTheyAre DEF J!Replay, JournalTypes, J!At
<1>2. CASE J!Pending = {} /\ work[p].value = J!Original /\ J!Leave(p) /\ UNCHANGED refused
  BY <1>1, <1>2, LeaveIsSound DEF JournalTypes
<1>3. CASE /\ J!Pending = {} /\ J!Go(p, "lock") /\ UNCHANGED <<writer, flock, refused>>
  <2>1. Placed(p)'
    BY <1>1, <1>3, GoesTo DEF Placed, J!Stages
  <2> QED
    BY <1>1, <1>3, <2>1, GoIsSound DEF JournalTypes, J!Stages
<1>4. CASE J!Refuse(p)
  BY <1>1, <1>4, RefuseIsSound DEF JournalTypes
<1>5. ASSUME NEW k \in J!Pending, flock[journal[k].file] = None,
             flock' = [flock EXCEPT ![journal[k].file] = p],
             J!GoToRow(p, "check", k),
             UNCHANGED <<writer, refused>>
      PROVE  Sound(p)
  <2>0. "check" \in J!Stages
    BY DEF J!Stages
  <2>1. k \in DOMAIN journal /\ k \in Nat /\ journal[k].file \in Destinations
    <3>1. k \in DOMAIN journal
      BY Zenon DEF J!Pending
    <3> QED
      BY <3>1, EntryTypes DEF JournalTypes
  <2>2. /\ work' \in [Writers -> Work]
        /\ work'[p].stage = "check" /\ work'[p].row = k /\ work'[p].library = work[p].library
        /\ \A q \in Writers : q # p => work'[q] = work[q]
    BY <1>5, <2>0, <2>1, TurnsToRow
  <2>3. /\ flock' \in [Destinations -> Writers \cup {None}] /\ flock'[journal[k].file] = p
        /\ \A f \in Destinations : f # journal[k].file => flock'[f] = flock[f]
    BY <1>5, <2>1 DEF JournalTypes
  <2>4. Placed(p)'
    BY <1>1, <1>5, <2>1, <2>2, <2>3 DEF Placed
  <2>5. OthersStay(p)
    BY <1>5, <2>1, <2>2, <2>3 DEF OthersStay, J!Assumptions
  <2> QED
    BY <1>1, <1>5, <2>2, <2>3, <2>4, <2>5 DEF Sound, JournalTypes
<1> QED
  BY <1>2, <1>3, <1>4, <1>5 DEF J!Replay

\* It holds it while it compares,
LEMMA CheckIsSound ==
  ASSUME J!Assumptions, JournalTypes, \A q \in Writers : Placed(q), NEW p \in Writers, J!Check(p)
  PROVE  Sound(p)
<1>1. /\ UNCHANGED <<file, journal, begun, edits, turn, edited>> /\ RowsLast
      /\ work[p].stage = "check"
  BY RowsAsTheyAre DEF J!Check, JournalTypes, J!At
<1>2. CASE J!Refuse(p)
  BY <1>1, <1>2, RefuseIsSound DEF JournalTypes
<1>3. ASSUME NEW s \in {"note", "reinstall"}, J!Go(p, s), UNCHANGED <<writer, flock, refused>>
      PROVE  Sound(p)
  <2>1. Placed(p)'
    BY <1>1, <1>3, GoesTo DEF Placed, J!Stages
  <2> QED
    BY <1>1, <1>3, <2>1, GoIsSound DEF JournalTypes, J!Stages
<1> QED
  BY <1>2, <1>3 DEF J!Check

\* while it installs,
LEMMA ReinstallIsSound ==
  ASSUME J!Assumptions, JournalTypes, \A q \in Writers : Placed(q), NEW p \in Writers, J!Reinstall(p)
  PROVE  Sound(p)
<1>1. /\ UNCHANGED <<journal, writer, flock, begun, edits, refused, turn, edited>> /\ RowsLast
      /\ work[p].stage = "reinstall" /\ J!Go(p, "note")
  BY RowsAsTheyAre DEF J!Reinstall, JournalTypes, J!At
<1>2. file' \in [Destinations -> J!Bytes]
  <2>1. journal[work[p].row].file \in Destinations /\ journal[work[p].row].after \in J!Bytes
    <3>1. work[p].row \in DOMAIN journal
      BY <1>1 DEF Placed
    <3> QED
      BY <3>1, EntryTypes DEF JournalTypes
  <2> QED
    BY <2>1 DEF J!Reinstall, JournalTypes
<1>3. Placed(p)'
  BY <1>1, GoesTo DEF Placed, J!Stages
<1> QED
  BY <1>1, <1>2, <1>3, GoIsSound DEF JournalTypes, J!Stages

\* and until the row is marked.
LEMMA NoteIsSound ==
  ASSUME J!Assumptions, JournalTypes, \A q \in Writers : Placed(q), NEW p \in Writers, J!Note(p)
  PROVE  Sound(p)
<1>1. /\ UNCHANGED <<file, writer, begun, edits, refused, turn, edited>> /\ RowsLast
      /\ work[p].stage = "note" /\ J!Go(p, "replay")
  BY Marks DEF J!Note, JournalTypes, J!At, Placed
<1>2. /\ flock' \in [Destinations -> Writers \cup {None}]
      /\ \A q \in Writers \ {p} : \A f \in Destinations : flock[f] = q => flock'[f] = q
  BY DEF J!Note, J!FreedBy, JournalTypes
<1>3. Placed(p)'
  BY <1>1, GoesTo DEF Placed, J!Stages
<1> QED
  BY <1>1, <1>2, <1>3, GoIsSound DEF JournalTypes, J!Stages

\* The lock beside the destination is taken only when free.
LEMMA LockIsSound ==
  ASSUME J!Assumptions, JournalTypes, \A q \in Writers : Placed(q), NEW p \in Writers, J!Lock(p)
  PROVE  Sound(p)
<1>1. /\ UNCHANGED <<file, journal, begun, edits, edited>> /\ RowsLast
      /\ work[p].stage = "lock" /\ work[p].file \in Destinations /\ work[p].value \in J!Bytes
      /\ work[p].library \in BOOLEAN
  BY RowsAsTheyAre DEF J!Lock, JournalTypes, J!At, Work
<1>2. CASE flock[work[p].file] # None
  BY <1>1, <1>2, RefuseIsSound DEF J!Lock, JournalTypes
<1>3. CASE flock[work[p].file] = None
  <2> DEFINE s == IF work[p].library THEN "image" ELSE "write"
  <2>1. /\ flock' = [flock EXCEPT ![work[p].file] = p] /\ turn' = Append(turn, work[p].value)
        /\ J!Go(p, s) /\ UNCHANGED <<writer, refused>>
    BY <1>3 DEF J!Lock
  <2>2. turn' \in Seq(J!Bytes) /\ s \in J!Stages
    BY <1>1, <2>1 DEF JournalTypes, J!Stages
  <2>3. /\ flock' \in [Destinations -> Writers \cup {None}] /\ flock'[work[p].file] = p
        /\ \A f \in Destinations : f # work[p].file => flock'[f] = flock[f]
    BY <1>1, <2>1 DEF JournalTypes
  <2>4. \A q \in Writers \ {p} : \A f \in Destinations : flock[f] = q => flock'[f] = q
    BY <1>3, <2>3 DEF J!Assumptions
  <2>5. /\ work'[p].stage = s /\ work'[p].file = work[p].file
        /\ work'[p].library = work[p].library
    BY <2>1, <2>2, GoesTo
  <2>6. Placed(p)'
    BY <1>1, <2>1, <2>3, <2>5 DEF Placed
  <2>7. /\ file' \in [Destinations -> J!Bytes] /\ begun' \in J!Bytes /\ edits' \in Nat
        /\ refused' \subseteq J!Bytes /\ edited' \subseteq Destinations
    BY <1>1, <2>1 DEF JournalTypes
  <2> HIDE DEF s
  <2> QED
    BY <1>1, <2>1, <2>2, <2>3, <2>4, <2>6, <2>7, GoIsSound
<1> QED
  BY <1>2, <1>3

\* Reading the file changes no lock.
LEMMA ImageIsSound ==
  ASSUME J!Assumptions, JournalTypes, \A q \in Writers : Placed(q), NEW p \in Writers, J!Image(p)
  PROVE  Sound(p)
<1>1. /\ UNCHANGED <<file, journal, writer, flock, begun, edits, refused, turn, edited>>
      /\ RowsLast /\ work[p].stage = "image" /\ work[p].file \in Destinations
  BY RowsAsTheyAre DEF J!Image, JournalTypes, J!At, Work
<1>2. file[work[p].file] \in J!Bytes /\ "record" \in J!Stages
  BY <1>1 DEF JournalTypes, J!Stages
<1>3. /\ work' \in [Writers -> Work] /\ work'[p].stage = "record"
      /\ work'[p].file = work[p].file /\ work'[p].library = work[p].library
      /\ \A q \in Writers : q # p => work'[q] = work[q]
  BY <1>2, TakesImage DEF J!Image
<1> QED
  BY <1>1, <1>3 DEF Sound, JournalTypes, Placed, OthersStay

\* The row recorded is the last, and the write knows it.
LEMMA RecordIsSound ==
  ASSUME J!Assumptions, JournalTypes, \A q \in Writers : Placed(q), NEW p \in Writers, J!Record(p)
  PROVE  Sound(p) /\ journal' = Append(journal, J!Row(p)) /\ J!Row(p) \in J!Entry
<1>1. /\ UNCHANGED <<file, writer, flock, begun, edits, refused, turn, edited>>
      /\ work[p].stage = "record" /\ work[p].file \in Destinations /\ work[p].value \in J!Bytes
      /\ work[p].before \in J!Bytes /\ journal' = Append(journal, J!Row(p))
  BY DEF J!Record, JournalTypes, J!At, Work
<1>2. J!Row(p) \in J!Entry /\ "write" \in J!Stages
  BY <1>1 DEF J!Row, J!Entry, J!Stages
<1>3. /\ RowsLast /\ DOMAIN journal' = 1..(Len(journal) + 1) /\ Len(journal) \in Nat
  BY <1>1, <1>2, AddsRow DEF JournalTypes
<1>4. /\ work' \in [Writers -> Work] /\ work'[p].stage = "write"
      /\ work'[p].file = work[p].file /\ work'[p].library = work[p].library
      /\ work'[p].row = Len(journal) + 1
      /\ \A q \in Writers : q # p => work'[q] = work[q]
  BY <1>2, <1>3, TurnsToRow DEF J!Record
<1>5. Placed(p)'
  BY <1>1, <1>3, <1>4 DEF Placed
<1> QED
  BY <1>1, <1>2, <1>3, <1>4, <1>5 DEF Sound, JournalTypes, OthersStay, RowsLast

\* With a library the write is still to be acknowledged, without it is done.
LEMMA WriteIsSound ==
  ASSUME J!Assumptions, JournalTypes, \A q \in Writers : Placed(q), NEW p \in Writers, J!Write(p)
  PROVE  Sound(p)
<1>1. /\ UNCHANGED <<journal, begun, edits, refused, turn, edited>> /\ RowsLast
      /\ work[p].stage = "write" /\ work[p].file \in Destinations /\ work[p].value \in J!Bytes
      /\ file' \in [Destinations -> J!Bytes]
  BY RowsAsTheyAre DEF J!Write, JournalTypes, J!At, Work
<1>2. CASE work[p].library
  <2>1. J!Go(p, "ack") /\ UNCHANGED <<writer, flock>>
    BY <1>2 DEF J!Write
  <2>2. Placed(p)'
    BY <1>1, <1>2, <2>1, GoesTo DEF Placed, J!Stages, RowsLast
  <2> QED
    BY <1>1, <2>1, <2>2, GoIsSound DEF JournalTypes, J!Stages
<1>3. CASE ~work[p].library
  BY <1>1, <1>3, LeaveIsSound DEF J!Write, JournalTypes
<1> QED
  BY <1>2, <1>3

\* An acknowledgement marks the row of its write.
LEMMA AckIsSound ==
  ASSUME J!Assumptions, JournalTypes, \A q \in Writers : Placed(q), NEW p \in Writers, J!Ack(p)
  PROVE  Sound(p)
<1>1. work[p].row \in DOMAIN journal
  BY DEF J!Ack, Placed, J!At
<1>2. RowsLast
  BY <1>1, Marks DEF J!Ack, JournalTypes
<1> QED
  BY <1>2, LeaveIsSound DEF J!Ack, JournalTypes

\* A death frees what was held.
LEMMA CrashIsSound ==
  ASSUME J!Assumptions, JournalTypes, \A q \in Writers : Placed(q), NEW p \in Writers, J!Crash(p)
  PROVE  Sound(p)
  BY RowsAsTheyAre, LeaveIsSound DEF J!Crash, JournalTypes

-----------------------------------------------------------------------------
\* A step of one process.
Do(p) ==
    \/ \E f \in Destinations, library \in BOOLEAN : J!Begin(p, f, library)
    \/ J!Open(p) \/ J!Replay(p) \/ J!Check(p) \/ J!Reinstall(p) \/ J!Note(p)
    \/ J!Lock(p) \/ J!Image(p) \/ J!Record(p) \/ J!Write(p) \/ J!Ack(p)
    \/ J!Crash(p)

\* Every step of a process is sound.
LEMMA DoIsSound ==
  ASSUME J!Assumptions, JournalTypes, \A q \in Writers : Placed(q), NEW p \in Writers, Do(p)
  PROVE  Sound(p)
  BY BeginIsSound, OpenIsSound, ReplayIsSound, CheckIsSound, ReinstallIsSound, NoteIsSound,
     LockIsSound, ImageIsSound, RecordIsSound, WriteIsSound, AckIsSound, CrashIsSound DEF Do

\* An edit touches nothing but a file.
LEMMA EditIsSound ==
  ASSUME JournalTypes, NEW f \in Destinations, NEW b \in J!Bytes, J!Edit(f, b)
  PROVE  JournalTypes' /\ UNCHANGED <<journal, writer, flock, work>>
  BY DEF JournalTypes, J!Edit

Sited == JournalTypes /\ \A p \in Writers : Placed(p)

\* Every step is a process's or an edit.
LEMMA NextSteps ==
  ASSUME J!Next
  PROVE  (\E p \in Writers : Do(p)) \/ \E f \in Destinations, b \in J!Bytes : J!Edit(f, b)
  BY DEF J!Next, Do

\* The types and the locks are kept.
LEMMA SitedStep == ASSUME J!Assumptions, Sited, [J!Next]_journalVars PROVE Sited'
<1>1. ASSUME NEW p \in Writers, Do(p) PROVE Sited'
  <2>1. JournalTypes' /\ RowsLast /\ OthersStay(p) /\ Placed(p)'
    BY <1>1, DoIsSound DEF Sited, Sound
  <2>2. ASSUME NEW q \in Writers, q # p PROVE Placed(q)'
    <3>1. /\ Placed(q) /\ work'[q] = work[q] /\ (writer = q => writer' = q)
          /\ \A f \in Destinations : flock[f] = q => flock'[f] = q
      BY <2>1, <2>2 DEF OthersStay, Sited
    <3>2. work[q].file \in Destinations
      BY DEF Sited, JournalTypes, Work
    <3>3. ASSUME work[q].row \in DOMAIN journal
          PROVE  /\ work[q].row \in DOMAIN journal' /\ journal[work[q].row].file \in Destinations
                 /\ journal'[work[q].row].file = journal[work[q].row].file
      BY <2>1, <3>3, EntryTypes DEF RowsLast, Sited, JournalTypes
    <3> QED
      BY <3>1, <3>2, <3>3 DEF Placed
  <2> QED
    BY <2>1, <2>2 DEF Sited
<1>2. ASSUME NEW f \in Destinations, NEW b \in J!Bytes, J!Edit(f, b) PROVE Sited'
  BY <1>2, EditIsSound DEF Sited, Placed
<1>3. CASE UNCHANGED journalVars
  BY <1>3 DEF journalVars, Sited, JournalTypes, Placed
<1> QED
  BY <1>1, <1>2, <1>3, NextSteps

\* They hold at first, when nobody does anything,
LEMMA SitedInit == ASSUME J!Assumptions, J!Init PROVE Sited
<1>1. work \in [Writers -> Work] /\ \A p \in Writers : work[p].stage = "idle" /\ ~work[p].library
  BY IdleIsWork DEF J!Init
<1> QED
  BY <1>1 DEF J!Init, Sited, JournalTypes, Placed, J!Assumptions, J!Bytes, J!Original

\* and are all TypeOK says.
LEMMA JournalTyped == ASSUME Sited PROVE J!TypeOK
<1>1. /\ file \in [Destinations -> J!Bytes]
      /\ journal \in Seq(J!Entry)
      /\ writer \in Writers \cup {None}
      /\ flock \in [Destinations -> Writers \cup {None}]
      /\ work \in [Writers -> [stage : J!Stages, file : Destinations, library : BOOLEAN,
                             value : J!Bytes, row : Nat, before : J!Bytes]]
      /\ begun \in J!Bytes /\ edits \in Nat /\ refused \subseteq J!Bytes
      /\ turn \in Seq(J!Bytes) /\ edited \subseteq Destinations
  BY DEF Sited, JournalTypes, Work
<1> QED
  BY <1>1 DEF J!TypeOK, Sited, Placed

-----------------------------------------------------------------------------
\* Before its row is committed, or its file written, a write may be refused.
Refusable(p) == work[p].stage \in {"replay", "check", "reinstall", "note", "lock"}

\* A write is numbered after all that went before, and alone has its number;
\* it is not refused; while it may be, no row and no file has it.
Own(p) ==
    work[p].value # 0 =>
        /\ work[p].value <= begun /\ work[p].value \notin refused
        /\ \A q \in Writers : q # p => work[q].value # work[p].value
        /\ Refusable(p) => /\ \A k \in DOMAIN journal : journal[k].after # work[p].value
                          /\ \A f \in Destinations \ edited : file[f] # work[p].value

\* Nothing that is kept or written is of a refused write.
ValuesAreOwn ==
    /\ \A v \in refused : v # 0 /\ v <= begun
    /\ \A k \in DOMAIN journal : journal[k].after <= begun /\ journal[k].after \notin refused
    /\ \A f \in Destinations : file[f] <= begun /\ (f \notin edited => file[f] \notin refused)
    /\ \A p \in Writers : Own(p)

\* What p does leaves the work of the others alone.
ByItself(p) == \A q \in Writers : q # p => work'[q] = work[q]

\* p goes on with its write, and may be refused only if it might before.
GoesOn(p) == work'[p].value = work[p].value /\ (Refusable(p)' => Refusable(p))

\* Writes are numbers.
LEMMA NaturalNumbers ==
  ASSUME Sited, J!Assumptions
  PROVE  /\ begun \in Nat /\ refused \subseteq Nat
         /\ \A p \in Writers : work[p].value \in Nat /\ work[p].file \in Destinations
         /\ \A f \in Destinations : file[f] \in Nat
         /\ \A k \in DOMAIN journal : journal[k].after \in Nat
<1>1. J!Bytes \subseteq Nat
  BY DEF J!Bytes, J!Assumptions
<1>2. \A k \in DOMAIN journal : journal[k].after \in J!Bytes
  BY EntryTypes DEF Sited, JournalTypes
<1>3. \A p \in Writers : work[p].value \in J!Bytes /\ work[p].file \in Destinations
  BY DEF Sited, JournalTypes, Work
<1> QED
  BY <1>1, <1>2, <1>3 DEF Sited, JournalTypes

\* A step that neither refuses nor writes.
LEMMA UntouchedKeeps ==
  ASSUME J!Assumptions, Sited, ValuesAreOwn, NEW p \in Writers, ByItself(p),
         UNCHANGED <<file, begun, refused, edited>>, RowsLast, DOMAIN journal' = DOMAIN journal,
         work'[p].value = 0 \/ GoesOn(p)
  PROVE  ValuesAreOwn'
<1>1. \A q \in Writers : Own(q)'
  <2>1. Own(p)'
    BY NaturalNumbers DEF ValuesAreOwn, ByItself, RowsLast, GoesOn, Own
  <2>2. ASSUME NEW q \in Writers, q # p PROVE Own(q)'
    BY <2>2, NaturalNumbers DEF ValuesAreOwn, ByItself, RowsLast, GoesOn, Own, Refusable
  <2> QED
    BY <2>1, <2>2
<1> QED
  BY <1>1 DEF ValuesAreOwn, RowsLast

\* A refusal: no row and no file has the refused write.
LEMMA RefusalKeeps ==
  ASSUME J!Assumptions, Sited, ValuesAreOwn, NEW p \in Writers, ByItself(p), Refusable(p),
         UNCHANGED <<file, journal, begun, edited>>, work'[p].value = 0,
         refused' = refused \cup ({work[p].value} \ {J!Original})
  PROVE  ValuesAreOwn'
<1>1. ASSUME NEW q \in Writers PROVE Own(q)'
  BY <1>1, NaturalNumbers DEF ValuesAreOwn, ByItself, Own, Refusable
<1>2. \A v \in refused' \ refused : v = work[p].value /\ v # 0
  BY DEF J!Original
<1>3. \A v \in refused' : v # 0 /\ v <= begun
  BY <1>2, NaturalNumbers DEF ValuesAreOwn, Own
<1>4. \A k \in DOMAIN journal : journal[k].after \notin refused'
  BY <1>2 DEF ValuesAreOwn, Own
<1>5. \A f \in Destinations \ edited : file[f] \notin refused'
  BY <1>2 DEF ValuesAreOwn, Own
<1> QED
  BY <1>1, <1>3, <1>4, <1>5 DEF ValuesAreOwn

\* A write that begins has a number nobody and nothing has.
LEMMA NumberKeeps ==
  ASSUME J!Assumptions, Sited, ValuesAreOwn, NEW p \in Writers, ByItself(p),
         UNCHANGED <<file, journal, edited>>, begun' = begun + 1,
         \/ work'[p].value = begun' /\ UNCHANGED refused
         \/ UNCHANGED work /\ refused' = refused \cup {begun'}
  PROVE  ValuesAreOwn'
<1>1. \A v \in refused' : v # 0 /\ v <= begun'
  BY NaturalNumbers DEF ValuesAreOwn
<1>2. \A k \in DOMAIN journal : journal[k].after <= begun' /\ journal[k].after \notin refused'
  BY NaturalNumbers DEF ValuesAreOwn
<1>3. \A f \in Destinations : file[f] <= begun' /\ (f \notin edited => file[f] \notin refused')
  BY NaturalNumbers DEF ValuesAreOwn
<1>4. begun' \notin refused
  BY NaturalNumbers DEF ValuesAreOwn
<1>5. \A q \in Writers : q # p => work'[q].value # begun'
  BY NaturalNumbers DEF ValuesAreOwn, ByItself, Own
<1>6. ASSUME NEW q \in Writers, work'[q].value = work[q].value, Refusable(q)' => Refusable(q)
      PROVE  Own(q)'
  <2>1. ASSUME work[q].value # 0 PROVE work[q].value \notin refused'
    BY <2>1, NaturalNumbers DEF ValuesAreOwn, Own
  <2>2. ASSUME NEW r \in Writers, r # q, work[q].value # 0 PROVE work'[r].value # work[q].value
    BY <2>2, NaturalNumbers DEF ValuesAreOwn, Own, ByItself
  <2> QED
    BY <1>6, <2>1, <2>2, NaturalNumbers DEF ValuesAreOwn, Own
<1>7. CASE work'[p].value = begun' /\ UNCHANGED refused
  <2>1. Own(p)'
    BY <1>4, <1>5, <1>7, NaturalNumbers DEF ValuesAreOwn, Own
  <2>2. ASSUME NEW q \in Writers, q # p PROVE Own(q)'
    BY <1>6, <2>2 DEF ByItself, Refusable
  <2> QED
    BY <1>1, <1>2, <1>3, <2>1, <2>2 DEF ValuesAreOwn
<1>8. CASE UNCHANGED work /\ refused' = refused \cup {begun'}
  <2>1. \A q \in Writers : Own(q)'
    BY <1>6, <1>8 DEF Refusable
  <2> QED
    BY <1>1, <1>2, <1>3, <2>1 DEF ValuesAreOwn
<1> QED
  BY <1>7, <1>8

\* A row that is committed is of a write that is not refused any more.
LEMMA RowKeeps ==
  ASSUME J!Assumptions, Sited, ValuesAreOwn, NEW p \in Writers, ByItself(p),
         UNCHANGED <<file, begun, refused, edited>>,
         NEW e \in J!Entry, e.after = work[p].value, journal' = Append(journal, e),
         work'[p].value = work[p].value, ~Refusable(p)'
  PROVE  ValuesAreOwn'
<1>1. /\ DOMAIN journal' = 1..(Len(journal) + 1) /\ DOMAIN journal = 1..Len(journal)
      /\ Len(journal) \in Nat /\ journal'[Len(journal) + 1].after = work[p].value
      /\ \A l \in DOMAIN journal : journal'[l] = journal[l]
  BY AddsRow DEF Sited, JournalTypes
<1>2. \A k \in DOMAIN journal' : \/ k \in DOMAIN journal /\ journal'[k].after = journal[k].after
                                 \/ journal'[k].after = work[p].value
  BY <1>1
<1>3. work[p].value <= begun /\ work[p].value \notin refused
  BY NaturalNumbers DEF ValuesAreOwn, Own
<1>4. Own(p)'
  BY DEF ValuesAreOwn, Own, ByItself
<1>5. ASSUME NEW q \in Writers, q # p PROVE Own(q)'
  BY <1>2, <1>5 DEF ValuesAreOwn, Own, ByItself, Refusable
<1> QED
  BY <1>2, <1>3, <1>4, <1>5 DEF ValuesAreOwn

\* A file gets the bytes of such a write, or of a row.
LEMMA FileKeeps ==
  ASSUME J!Assumptions, Sited, ValuesAreOwn, NEW p \in Writers, ByItself(p),
         UNCHANGED <<journal, begun, refused, edited>>,
         NEW f \in Destinations, NEW b, file' = [file EXCEPT ![f] = b],
         \/ b = work[p].value /\ ~Refusable(p)
         \/ \E k \in DOMAIN journal : b = journal[k].after,
         work'[p].value = 0 \/ GoesOn(p)
  PROVE  ValuesAreOwn'
<1>1. \A g \in Destinations : file'[g] = IF g = f THEN b ELSE file[g]
  BY DEF Sited, JournalTypes
<1>2. b <= begun /\ b \notin refused
  BY NaturalNumbers DEF ValuesAreOwn, Own
<1>3. \A g \in Destinations : file'[g] <= begun /\ (g \notin edited => file'[g] \notin refused)
  BY <1>1, <1>2 DEF ValuesAreOwn
<1>4. ASSUME NEW q \in Writers, work[q].value # 0, Refusable(q) PROVE b # work[q].value
  BY <1>4, NaturalNumbers DEF ValuesAreOwn, Own
<1>5. Own(p)'
  BY <1>1, <1>4 DEF ValuesAreOwn, Own, ByItself, GoesOn
<1>6. ASSUME NEW q \in Writers, q # p PROVE Own(q)'
  BY <1>1, <1>4, <1>6 DEF ValuesAreOwn, Own, ByItself, Refusable, GoesOn
<1> QED
  BY <1>3, <1>5, <1>6 DEF ValuesAreOwn

\* An edited file is not spoken of again.
LEMMA EditKeepsValues ==
  ASSUME J!Assumptions, Sited, ValuesAreOwn, NEW f \in Destinations, NEW b \in J!Bytes, J!Edit(f, b)
  PROVE  ValuesAreOwn'
<1>1. /\ UNCHANGED <<journal, begun, refused, work>> /\ edited' = edited \cup {f}
      /\ b <= begun /\ \A g \in Destinations : file'[g] = IF g = f THEN b ELSE file[g]
  BY DEF J!Edit, Sited, JournalTypes
<1>2. \A q \in Writers : Own(q)'
  BY <1>1 DEF ValuesAreOwn, Own, Refusable
<1>3. \A g \in Destinations : file'[g] <= begun /\ (g \notin edited' => file'[g] \notin refused)
  BY <1>1 DEF ValuesAreOwn
<1> QED
  BY <1>1, <1>2, <1>3 DEF ValuesAreOwn

\* Each step of a process is one of these.
LEMMA DoKeepsValues ==
  ASSUME J!Assumptions, Sited, ValuesAreOwn, NEW p \in Writers, Do(p)
  PROVE  ValuesAreOwn'
<1>1. JournalTypes /\ (\A q \in Writers : Placed(q)) /\ JournalTypes' /\ RowsLast /\ ByItself(p)
  BY DoIsSound DEF Sited, Sound, OthersStay, ByItself
<1>2. ASSUME J!Leave(p) PROVE work'[p].value = 0
  BY <1>1, <1>2, Leaves, IdleIsWork
<1>3. ASSUME J!Refuse(p), Refusable(p), UNCHANGED <<file, journal, begun, edited>>
      PROVE  ValuesAreOwn'
  BY <1>1, <1>2, <1>3, RefusalKeeps DEF J!Refuse
<1>4. ASSUME NEW s \in J!Stages, J!Go(p, s), Refusable(p) \/ s \in {"image", "write", "ack"}
      PROVE  GoesOn(p)
  BY <1>1, <1>4, GoesTo DEF GoesOn, Refusable
<1>5. ASSUME NEW f \in Destinations, NEW library \in BOOLEAN, J!Begin(p, f, library)
      PROVE  ValuesAreOwn'
  <2>1. UNCHANGED <<file, journal, edited>> /\ begun' = begun + 1
    BY <1>5 DEF J!Begin
  <2>2. CASE library /\ writer # None
    BY <1>1, <1>5, <2>1, <2>2, NumberKeeps DEF J!Begin
  <2>3. CASE ~(library /\ writer # None)
    <3> DEFINE s == IF library THEN "replay" ELSE "lock"
    <3>1. /\ s \in J!Stages /\ begun' \in J!Bytes /\ UNCHANGED refused
          /\ work' = [work EXCEPT ![p] = J!Task(s, f, library, begun')]
      BY <1>1, <1>5, <2>3 DEF J!Begin, J!Stages, JournalTypes
    <3> HIDE DEF s
    <3>2. work'[p].value = begun'
      BY <1>1, <3>1, TaskIsWork DEF JournalTypes
    <3> QED
      BY <1>1, <2>1, <3>1, <3>2, NumberKeeps
  <2> QED
    BY <2>2, <2>3
<1>6. ASSUME J!Open(p) PROVE ValuesAreOwn'
  <2>1. work'[p].value = 0
    <3>1. work' = [work EXCEPT ![p] = J!Task("replay", J!AnyFile, TRUE, J!Original)]
      BY <1>6 DEF J!Open
    <3> QED
      BY <1>1, <3>1 DEF JournalTypes, J!Task, J!Original
  <2> QED
    BY <1>1, <1>6, <2>1, UntouchedKeeps DEF J!Open
<1>7. ASSUME J!Replay(p) PROVE ValuesAreOwn'
  <2>1. /\ UNCHANGED <<file, journal, begun, edits, turn, edited>> /\ Refusable(p)
    BY <1>7 DEF J!Replay, J!At, Refusable
  <2>2. CASE J!Refuse(p)
    BY <1>3, <2>1, <2>2
  <2>3. CASE J!Leave(p) /\ UNCHANGED refused
    BY <1>1, <1>2, <2>1, <2>3, UntouchedKeeps
  <2>4. CASE J!Go(p, "lock") /\ UNCHANGED refused
    <3>1. GoesOn(p)
      BY <1>4, <2>1, <2>4 DEF J!Stages
    <3> QED
      BY <1>1, <2>1, <2>4, <3>1, UntouchedKeeps
  <2>5. ASSUME NEW k \in J!Pending, J!GoToRow(p, "check", k), UNCHANGED refused PROVE ValuesAreOwn'
    <3>1. k \in Nat /\ "check" \in J!Stages
      <4>1. k \in DOMAIN journal
        BY Zenon DEF J!Pending
      <4> QED
        BY <1>1, <4>1, EntryTypes DEF JournalTypes, J!Stages
    <3>2. GoesOn(p)
      BY <1>1, <2>1, <2>5, <3>1, TurnsToRow DEF GoesOn
    <3> QED
      BY <1>1, <2>1, <2>5, <3>2, UntouchedKeeps
  <2> QED
    BY <1>7, <2>2, <2>3, <2>4, <2>5 DEF J!Replay
<1>8. ASSUME J!Check(p) PROVE ValuesAreOwn'
  <2>1. /\ UNCHANGED <<file, journal, begun, edits, turn, edited>> /\ Refusable(p)
    BY <1>8 DEF J!Check, J!At, Refusable
  <2>2. CASE J!Refuse(p)
    BY <1>3, <2>1, <2>2
  <2>3. ASSUME NEW s \in {"note", "reinstall"}, J!Go(p, s), UNCHANGED refused PROVE ValuesAreOwn'
    <3>1. GoesOn(p)
      BY <1>4, <2>1, <2>3 DEF J!Stages
    <3> QED
      BY <1>1, <2>1, <2>3, <3>1, UntouchedKeeps
  <2> QED
    BY <1>8, <2>2, <2>3 DEF J!Check
<1>9. ASSUME J!Reinstall(p) PROVE ValuesAreOwn'
  <2>1. /\ UNCHANGED <<journal, begun, refused, edited>> /\ J!Go(p, "note") /\ Refusable(p)
        /\ work[p].row \in DOMAIN journal
        /\ file' = [file EXCEPT ![journal[work[p].row].file] = journal[work[p].row].after]
    BY <1>1, <1>9 DEF J!Reinstall, J!At, Refusable, Placed
  <2>2. journal[work[p].row].file \in Destinations
    BY <1>1, <2>1, EntryTypes DEF JournalTypes
  <2>3. GoesOn(p)
    BY <1>4, <2>1 DEF J!Stages
  <2> QED
    BY <1>1, <2>1, <2>2, <2>3, FileKeeps
<1>10. ASSUME J!Note(p) PROVE ValuesAreOwn'
  <2>1. /\ UNCHANGED <<file, begun, refused, edited>> /\ J!Go(p, "replay") /\ Refusable(p)
        /\ journal' = J!Acknowledged(work[p].row) /\ work[p].row \in DOMAIN journal
    BY <1>1, <1>10 DEF J!Note, J!At, Refusable, Placed
  <2>2. GoesOn(p) /\ DOMAIN journal' = DOMAIN journal
    BY <1>1, <1>4, <2>1, Marks DEF J!Stages, JournalTypes
  <2> QED
    BY <1>1, <2>1, <2>2, UntouchedKeeps
<1>11. ASSUME J!Lock(p) PROVE ValuesAreOwn'
  <2>1. /\ UNCHANGED <<file, journal, begun, edited>> /\ Refusable(p)
    BY <1>11 DEF J!Lock, J!At, Refusable
  <2>2. CASE J!Refuse(p)
    BY <1>3, <2>1, <2>2
  <2>3. ASSUME NEW s \in {"image", "write"}, J!Go(p, s), UNCHANGED refused PROVE ValuesAreOwn'
    <3>1. GoesOn(p)
      BY <1>4, <2>1, <2>3 DEF J!Stages
    <3> QED
      BY <1>1, <2>1, <2>3, <3>1, UntouchedKeeps
  <2> QED
    BY <1>11, <2>2, <2>3 DEF J!Lock
<1>12. ASSUME J!Image(p) PROVE ValuesAreOwn'
  <2>1. work[p].file \in Destinations /\ "record" \in J!Stages
    BY <1>1 DEF JournalTypes, Work, J!Stages
  <2>2. GoesOn(p)
    BY <1>1, <1>12, <2>1, TakesImage DEF J!Image, GoesOn, Refusable, JournalTypes
  <2> QED
    BY <1>1, <1>12, <2>2, UntouchedKeeps DEF J!Image
<1>13. ASSUME J!Record(p) PROVE ValuesAreOwn'
  <2>1. /\ UNCHANGED <<file, begun, refused, edited>> /\ J!GoToRow(p, "write", Len(journal) + 1)
        /\ journal' = Append(journal, J!Row(p)) /\ J!Row(p) \in J!Entry
        /\ J!Row(p).after = work[p].value
    BY <1>1, <1>13, RecordIsSound DEF J!Record, J!Row
  <2>2. "write" \in J!Stages /\ Len(journal) + 1 \in Nat
    BY <1>1, LenProperties DEF JournalTypes, J!Stages
  <2>3. work'[p].value = work[p].value /\ ~Refusable(p)'
    BY <1>1, <2>1, <2>2, TurnsToRow DEF Refusable
  <2> QED
    BY <1>1, <2>1, <2>3, RowKeeps
<1>14. ASSUME J!Write(p) PROVE ValuesAreOwn'
  <2>1. /\ UNCHANGED <<journal, begun, refused, edited>> /\ ~Refusable(p)
        /\ file' = [file EXCEPT ![work[p].file] = work[p].value] /\ work[p].file \in Destinations
    BY <1>1, <1>14 DEF J!Write, J!At, Refusable, JournalTypes, Work
  <2>2. CASE J!Leave(p)
    BY <1>1, <1>2, <2>1, <2>2, FileKeeps
  <2>3. CASE J!Go(p, "ack")
    <3>1. GoesOn(p)
      BY <1>4, <2>3 DEF J!Stages
    <3> QED
      BY <1>1, <2>1, <3>1, FileKeeps
  <2> QED
    BY <1>14, <2>2, <2>3 DEF J!Write
<1>15. ASSUME J!Ack(p) PROVE ValuesAreOwn'
  <2>1. DOMAIN journal' = DOMAIN journal
    BY <1>1, <1>15, Marks DEF J!Ack, J!At, Placed, JournalTypes
  <2> QED
    BY <1>1, <1>2, <1>15, <2>1, UntouchedKeeps DEF J!Ack
<1>16. ASSUME J!Crash(p) PROVE ValuesAreOwn'
  BY <1>1, <1>2, <1>16, UntouchedKeeps DEF J!Crash
<1> QED
  BY <1>5, <1>6, <1>7, <1>8, <1>9, <1>10, <1>11, <1>12, <1>13, <1>14, <1>15, <1>16 DEF Do

-----------------------------------------------------------------------------
\* The bytes are the original ones, or of a write that took its file's lock.
InTurn(v) == v = J!Original \/ \E i \in DOMAIN turn : turn[i] = v

\* The bytes may be put over these.
ComesAfter(v, w) == v = J!Original \/ J!Before(v, w)

\* What p is about to put in a file nobody edited follows what is there, and
\* the image it takes and keeps is what is there.
WorkInOrder(p) ==
    LET f == work[p].file
        k == work[p].row
    IN  /\ work[p].stage \in {"image", "record", "write"} =>
              /\ InTurn(work[p].value)
              /\ f \notin edited => ComesAfter(file[f], work[p].value)
        /\ work[p].stage = "record" /\ f \notin edited => work[p].before = file[f]
        /\ work[p].stage = "write" /\ work[p].library /\ f \notin edited =>
              journal[k].before = file[f]
        /\ work[p].stage = "reinstall" /\ journal[k].file \notin edited =>
              journal[k].before = file[journal[k].file]

RowsInOrder ==
    \A k \in DOMAIN journal : journal[k].file \notin edited =>
        InTurn(journal[k].after) /\ ComesAfter(journal[k].before, journal[k].after)

FilesInOrder == \A f \in Destinations \ edited : InTurn(file[f])

InOrder == FilesInOrder /\ RowsInOrder /\ \A p \in Writers : WorkInOrder(p)

\* The order only grows.
Longer == UNCHANGED turn \/ \E v \in J!Bytes : turn' = Append(turn, v)

\* What followed still does.
LEMMA OrderLasts ==
  ASSUME turn \in Seq(J!Bytes), Longer
  PROVE  /\ \A v : InTurn(v) => InTurn(v)'
         /\ \A v, w : ComesAfter(v, w) => ComesAfter(v, w)'
<1>1. /\ \A i \in DOMAIN turn : i \in DOMAIN turn' /\ turn'[i] = turn[i]
  BY DEF Longer
<1> QED
  BY <1>1 DEF InTurn, ComesAfter, J!Before

\* Who holds the lock of a file finds it as it was.
OthersFilesStay(q) == \A f \in Destinations \ edited' : flock[f] = q => file'[f] = file[f]

\* Who holds its file's lock is not disturbed by the others.
LEMMA OtherStaysOrdered ==
  ASSUME Sited, NEW q \in Writers, WorkInOrder(q), work'[q] = work[q], RowsLast, Longer,
         edited \subseteq edited', OthersFilesStay(q)
  PROVE  WorkInOrder(q)'
<1>1. /\ Placed(q) /\ work[q].file \in Destinations
      /\ \A k \in DOMAIN journal : journal[k].file \in Destinations
  BY EntryTypes DEF Sited, JournalTypes, Work
<1>2. /\ \A v : InTurn(v) => InTurn(v)'
      /\ \A v, w : ComesAfter(v, w) => ComesAfter(v, w)'
  BY OrderLasts DEF Sited, JournalTypes
<1>3. ASSUME work[q].stage \in {"image", "record", "write"}, work[q].file \notin edited'
      PROVE  file'[work[q].file] = file[work[q].file]
  BY <1>1, <1>3 DEF Placed, OthersFilesStay
<1>4. ASSUME work[q].stage = "reinstall"
      PROVE  /\ work[q].row \in DOMAIN journal
             /\ journal[work[q].row].file \notin edited' =>
                   file'[journal[work[q].row].file] = file[journal[work[q].row].file]
  BY <1>1, <1>4 DEF Placed, OthersFilesStay
<1>5. ASSUME work[q].stage = "write", work[q].library
      PROVE  work[q].row \in DOMAIN journal
  BY <1>1, <1>5 DEF Placed
<1> QED
  BY <1>1, <1>2, <1>3, <1>4, <1>5 DEF WorkInOrder, RowsLast

\* Rows that stay, stay in order.
LEMMA RowsLastOrdered ==
  ASSUME Sited, RowsInOrder, RowsLast, DOMAIN journal' = DOMAIN journal, Longer,
         edited \subseteq edited'
  PROVE  RowsInOrder'
  BY OrderLasts DEF RowsInOrder, RowsLast, Sited, JournalTypes

\* Files that get bytes in turn stay in turn.
LEMMA FilesStayOrdered ==
  ASSUME Sited, FilesInOrder, Longer, edited \subseteq edited',
         \A f \in Destinations \ edited' : file'[f] = file[f] \/ InTurn(file'[f])
  PROVE  FilesInOrder'
<1>1. \A v : InTurn(v) => InTurn(v)'
  BY OrderLasts DEF Sited, JournalTypes
<1>2. ASSUME NEW f \in Destinations \ edited' PROVE InTurn(file[f]) \/ InTurn(file'[f])
  BY <1>2 DEF FilesInOrder
<1> QED
  BY <1>1, <1>2 DEF FilesInOrder

\* So it is left to look at p, the files and the rows.
LEMMA OrderKeeps ==
  ASSUME Sited, InOrder, NEW p \in Writers, ByItself(p), RowsLast, Longer, UNCHANGED edited,
         \A q \in Writers : q # p => OthersFilesStay(q),
         FilesInOrder', RowsInOrder', WorkInOrder(p)'
  PROVE  InOrder'
<1>1. ASSUME NEW q \in Writers, q # p PROVE WorkInOrder(q)'
  BY <1>1, OtherStaysOrdered DEF InOrder, ByItself
<1> QED
  BY <1>1 DEF InOrder

\* A step that changes no file and adds no row.
LEMMA StillKeepsOrder ==
  ASSUME Sited, InOrder, NEW p \in Writers, ByItself(p), RowsLast, Longer,
         UNCHANGED <<file, edited>>, DOMAIN journal' = DOMAIN journal, WorkInOrder(p)'
  PROVE  InOrder'
<1>1. FilesInOrder' /\ RowsInOrder'
  BY FilesStayOrdered, RowsLastOrdered DEF InOrder
<1>2. \A q \in Writers : OthersFilesStay(q)
  BY DEF OthersFilesStay
<1> QED
  BY <1>1, <1>2, OrderKeeps

\* p is where no bytes are about to be put anywhere.
Resting(p) == work[p].stage \notin {"image", "record", "write", "reinstall"}

\* Then there is nothing to say of it.
LEMMA RestingIsOrdered == ASSUME NEW p, Resting(p)' PROVE WorkInOrder(p)'
  BY DEF Resting, WorkInOrder

\* Each step of a process keeps the order, and puts only bytes that follow.
LEMMA DoKeepsOrder ==
  ASSUME J!Assumptions, Sited, InOrder, NEW p \in Writers, Do(p)
  PROVE  InOrder' /\ \A f \in Destinations \ edited' :
                        file'[f] # file[f] => ComesAfter(file[f], file'[f])
<1> DEFINE Changed == \A f \in Destinations \ edited' :
                         file'[f] # file[f] => ComesAfter(file[f], file'[f])
<1>1. /\ JournalTypes /\ (\A q \in Writers : Placed(q)) /\ JournalTypes' /\ RowsLast /\ ByItself(p)
      /\ work[p].file \in Destinations /\ WorkInOrder(p)
  BY DoIsSound DEF Sited, Sound, OthersStay, ByItself, JournalTypes, Work, InOrder
<1>2. ASSUME J!Leave(p) PROVE Resting(p)'
  BY <1>1, <1>2, Leaves, IdleIsWork DEF Resting
<1>3. ASSUME J!Refuse(p), UNCHANGED <<file, journal, turn, edited>> PROVE InOrder' /\ Changed
  <2>1. WorkInOrder(p)' /\ Longer
    BY <1>2, <1>3, RestingIsOrdered DEF J!Refuse, Longer
  <2> QED
    BY <1>1, <1>3, <2>1, StillKeepsOrder
<1>4. ASSUME NEW s \in J!Stages, J!Go(p, s), s \notin {"image", "record", "write", "reinstall"}
      PROVE  Resting(p)'
  BY <1>1, <1>4, GoesTo DEF Resting
<1>5. ASSUME UNCHANGED <<file, turn, edited>>, DOMAIN journal' = DOMAIN journal, Resting(p)'
      PROVE  InOrder' /\ Changed
  BY <1>1, <1>5, RestingIsOrdered, StillKeepsOrder DEF Longer
<1>6. ASSUME NEW f \in Destinations, NEW library \in BOOLEAN, J!Begin(p, f, library)
      PROVE  InOrder' /\ Changed
  <2>1. UNCHANGED <<file, journal, turn, edited>>
    BY <1>6 DEF J!Begin
  <2>2. CASE library /\ writer # None
    <3>1. WorkInOrder(p)' /\ Longer
      BY <1>1, <1>6, <2>1, <2>2 DEF J!Begin, WorkInOrder, InTurn, ComesAfter, J!Before, Longer
    <3> QED
      BY <1>1, <2>1, <3>1, StillKeepsOrder
  <2>3. CASE ~library
    <3>1. /\ "lock" \in J!Stages /\ begun' \in J!Bytes
          /\ work' = [work EXCEPT ![p] = J!Task("lock", f, library, begun')]
      BY <1>1, <1>6, <2>3 DEF J!Begin, J!Stages, JournalTypes
    <3>2. work'[p].stage = "lock" /\ (work'[p].stage = "write" => ~work'[p].library)
      BY <1>1, <3>1, TaskIsWork DEF JournalTypes
    <3> QED
      BY <1>5, <2>1, <3>2 DEF Resting
  <2>4. CASE library /\ writer = None
    <3>1. /\ "replay" \in J!Stages /\ begun' \in J!Bytes
          /\ work' = [work EXCEPT ![p] = J!Task("replay", f, library, begun')]
      BY <1>1, <1>6, <2>4 DEF J!Begin, J!Stages, JournalTypes
    <3>2. work'[p].stage = "replay"
      BY <1>1, <3>1, TaskIsWork DEF JournalTypes
    <3> QED
      BY <1>5, <2>1, <3>2 DEF Resting
  <2> QED
    BY <2>2, <2>3, <2>4
<1>7. ASSUME J!Open(p) PROVE InOrder' /\ Changed
  <2>1. /\ work' = [work EXCEPT ![p] = J!Task("replay", J!AnyFile, TRUE, J!Original)]
        /\ UNCHANGED <<file, journal, turn, edited>>
    BY <1>7 DEF J!Open
  <2>2. Resting(p)'
    BY <1>1, <2>1 DEF JournalTypes, J!Task, Resting
  <2> QED
    BY <1>5, <2>1, <2>2
<1>8. ASSUME J!Replay(p) PROVE InOrder' /\ Changed
  <2>1. UNCHANGED <<file, journal, turn, edited>>
    BY <1>8 DEF J!Replay
  <2>2. CASE J!Refuse(p)
    BY <1>3, <2>1, <2>2
  <2>3. CASE J!Leave(p)
    BY <1>2, <1>5, <2>1, <2>3
  <2>4. CASE J!Go(p, "lock")
    BY <1>4, <1>5, <2>1, <2>4 DEF J!Stages
  <2>5. ASSUME NEW k \in J!Pending, J!GoToRow(p, "check", k) PROVE InOrder' /\ Changed
    <3>1. k \in Nat /\ "check" \in J!Stages
      <4>1. k \in DOMAIN journal
        BY Zenon DEF J!Pending
      <4> QED
        BY <1>1, <4>1, EntryTypes DEF JournalTypes, J!Stages
    <3>2. Resting(p)'
      BY <1>1, <2>5, <3>1, TurnsToRow DEF Resting
    <3> QED
      BY <1>5, <2>1, <3>2
  <2> QED
    BY <1>8, <2>2, <2>3, <2>4, <2>5 DEF J!Replay
<1>9. ASSUME J!Check(p) PROVE InOrder' /\ Changed
  <2>1. UNCHANGED <<file, journal, turn, edited>>
    BY <1>9 DEF J!Check
  <2>2. CASE J!Refuse(p)
    BY <1>3, <2>1, <2>2
  <2>3. CASE J!Go(p, "note")
    BY <1>4, <1>5, <2>1, <2>3 DEF J!Stages
  <2>4. CASE J!Go(p, "reinstall") /\ J!MayReplace(work[p].row)
    <3>1. WorkInOrder(p)' /\ Longer
      BY <1>1, <2>1, <2>4, GoesTo DEF J!Stages, WorkInOrder, J!MayReplace, Longer
    <3> QED
      BY <1>1, <2>1, <3>1, StillKeepsOrder
  <2> QED
    BY <1>9, <2>2, <2>3, <2>4 DEF J!Check
<1>10. ASSUME J!Reinstall(p) PROVE InOrder' /\ Changed
  <2> DEFINE r == journal[work[p].row]
  <2>1. /\ UNCHANGED <<journal, turn, edited, flock>> /\ J!Go(p, "note")
        /\ work[p].stage = "reinstall" /\ work[p].row \in DOMAIN journal /\ flock[r.file] = p
        /\ file' = [file EXCEPT ![r.file] = r.after]
    BY <1>1, <1>10 DEF J!Reinstall, J!At, Placed
  <2>2. r.file \in Destinations
    BY <1>1, <2>1, EntryTypes DEF JournalTypes
  <2>3. \A f \in Destinations : file'[f] = IF f = r.file THEN r.after ELSE file[f]
    BY <1>1, <2>1, <2>2 DEF JournalTypes
  <2>4. r.file \notin edited => InTurn(r.after) /\ ComesAfter(file[r.file], r.after)
    BY <1>1, <2>1 DEF InOrder, RowsInOrder, WorkInOrder
  <2>5. Longer /\ RowsInOrder' /\ FilesInOrder'
    BY <1>1, <2>1, <2>3, <2>4, RowsLastOrdered, FilesStayOrdered DEF Longer, InOrder
  <2>6. \A q \in Writers : q # p => OthersFilesStay(q)
    BY <2>1, <2>3 DEF OthersFilesStay
  <2>7. WorkInOrder(p)'
    BY <1>4, <2>1, RestingIsOrdered DEF J!Stages
  <2>8. InOrder'
    BY <1>1, <2>1, <2>5, <2>6, <2>7, OrderKeeps
  <2>9. Changed
    BY <2>1, <2>3, <2>4
  <2> QED
    BY <2>8, <2>9
<1>11. ASSUME J!Note(p) PROVE InOrder' /\ Changed
  <2>1. /\ UNCHANGED <<file, turn, edited>> /\ J!Go(p, "replay")
        /\ journal' = J!Acknowledged(work[p].row) /\ work[p].row \in DOMAIN journal
    BY <1>1, <1>11 DEF J!Note, J!At, Placed
  <2>2. DOMAIN journal' = DOMAIN journal
    BY <1>1, <2>1, Marks DEF JournalTypes
  <2> QED
    BY <1>4, <1>5, <2>1, <2>2 DEF J!Stages
<1>12. ASSUME J!Lock(p) PROVE InOrder' /\ Changed
  <2>1. UNCHANGED <<file, journal, edited>> /\ work[p].stage = "lock"
    BY <1>12 DEF J!Lock, J!At
  <2>2. CASE flock[work[p].file] # None
    BY <1>3, <1>12, <2>1, <2>2 DEF J!Lock
  <2>3. ASSUME NEW s \in {"image", "write"}, J!Go(p, s), s = "write" => ~work[p].library,
               turn' = Append(turn, work[p].value)
        PROVE  InOrder' /\ Changed
    <3>1. /\ work'[p].stage = s /\ work'[p].file = work[p].file
          /\ work'[p].library = work[p].library /\ work'[p].value = work[p].value
      BY <1>1, <2>3, GoesTo DEF J!Stages
    <3>2. /\ Len(turn) \in Nat /\ DOMAIN turn = 1..Len(turn)
          /\ DOMAIN turn' = 1..(Len(turn) + 1) /\ turn'[Len(turn) + 1] = work[p].value
          /\ \A i \in DOMAIN turn : turn'[i] = turn[i]
          /\ Longer
      BY <1>1, <2>3 DEF JournalTypes, Longer, Work
    <3>3. InTurn(work[p].value)'
      BY <3>1, <3>2 DEF InTurn
    <3>4. ASSUME work[p].file \notin edited PROVE ComesAfter(file[work[p].file], work[p].value)'
      <4>1. InTurn(file[work[p].file])
        BY <1>1, <3>4 DEF InOrder, FilesInOrder
      <4>2. ASSUME NEW i \in DOMAIN turn, turn[i] = file[work[p].file]
            PROVE  ComesAfter(file[work[p].file], work[p].value)'
        <5>1. i < Len(turn) + 1 /\ turn'[i] = file'[work'[p].file]
          BY <2>1, <3>1, <3>2, <4>2
        <5> QED
          BY <3>1, <3>2, <5>1 DEF ComesAfter, J!Before
      <4> QED
        BY <2>1, <3>1, <4>1, <4>2 DEF InTurn, ComesAfter
    <3>5. WorkInOrder(p)'
      BY <2>1, <2>3, <3>1, <3>3, <3>4 DEF WorkInOrder
    <3> QED
      BY <1>1, <2>1, <3>2, <3>5, StillKeepsOrder
  <2> QED
    BY <1>12, <2>2, <2>3 DEF J!Lock
<1>13. ASSUME J!Image(p) PROVE InOrder' /\ Changed
  <2>1. /\ UNCHANGED <<file, journal, turn, edited>> /\ work[p].stage = "image"
        /\ J!GoWithImage(p, "record", file[work[p].file]) /\ Longer
    BY <1>13 DEF J!Image, J!At, Longer
  <2>2. "record" \in J!Stages /\ file[work[p].file] \in J!Bytes
    BY <1>1 DEF J!Stages, JournalTypes
  <2>3. /\ work'[p].stage = "record" /\ work'[p].file = work[p].file
        /\ work'[p].value = work[p].value /\ work'[p].before = file[work[p].file]
    BY <1>1, <2>1, <2>2, TakesImage
  <2>4. WorkInOrder(p)'
    BY <1>1, <2>1, <2>3 DEF WorkInOrder, InTurn, ComesAfter, J!Before
  <2> QED
    BY <1>1, <2>1, <2>4, StillKeepsOrder
<1>14. ASSUME J!Record(p) PROVE InOrder' /\ Changed
  <2>1. /\ UNCHANGED <<file, turn, edited>> /\ J!GoToRow(p, "write", Len(journal) + 1)
        /\ journal' = Append(journal, J!Row(p)) /\ J!Row(p) \in J!Entry
        /\ work[p].stage = "record" /\ Longer
    BY <1>1, <1>14, RecordIsSound DEF J!Record, J!At, Longer
  <2>2. "write" \in J!Stages /\ Len(journal) + 1 \in Nat
    BY <1>1, LenProperties DEF JournalTypes, J!Stages
  <2>3. /\ work'[p].stage = "write" /\ work'[p].file = work[p].file
        /\ work'[p].value = work[p].value /\ work'[p].row = Len(journal) + 1
    BY <1>1, <2>1, <2>2, TurnsToRow
  <2>4. /\ DOMAIN journal' = 1..(Len(journal) + 1) /\ DOMAIN journal = 1..Len(journal)
        /\ Len(journal) \in Nat /\ journal'[Len(journal) + 1] = J!Row(p)
        /\ \A l \in DOMAIN journal : journal'[l] = journal[l]
    BY <1>1, <2>1, AddsRow DEF JournalTypes
  <2>5. /\ J!Row(p).file = work[p].file /\ J!Row(p).before = work[p].before
        /\ J!Row(p).after = work[p].value
    BY DEF J!Row
  <2>6. WorkInOrder(p)'
    BY <1>1, <2>1, <2>3, <2>4, <2>5 DEF WorkInOrder, InTurn, ComesAfter, J!Before
  <2>7. RowsInOrder'
    <3>1. ASSUME NEW k \in DOMAIN journal', k \in DOMAIN journal, journal'[k].file \notin edited
          PROVE  InTurn(journal[k].after) /\ ComesAfter(journal[k].before, journal[k].after)
      BY <2>4, <3>1 DEF InOrder, RowsInOrder
    <3>2. work[p].file \notin edited =>
             InTurn(work[p].value) /\ ComesAfter(work[p].before, work[p].value)
      BY <1>1, <2>1 DEF WorkInOrder
    <3>3. /\ \A v : InTurn(v) => InTurn(v)'
          /\ \A v, w : ComesAfter(v, w) => ComesAfter(v, w)'
      BY <1>1, <2>1, OrderLasts DEF JournalTypes
    <3>4. ASSUME NEW k \in DOMAIN journal' PROVE k \in DOMAIN journal \/ journal'[k] = J!Row(p)
      BY <2>4
    <3> QED
      BY <2>1, <2>4, <2>5, <3>1, <3>2, <3>3, <3>4 DEF RowsInOrder
  <2>8. FilesInOrder' /\ \A q \in Writers : OthersFilesStay(q)
    BY <1>1, <2>1, FilesStayOrdered DEF InOrder, OthersFilesStay
  <2>9. InOrder'
    BY <1>1, <2>1, <2>6, <2>7, <2>8, OrderKeeps
  <2> QED
    BY <2>1, <2>9
<1>15. ASSUME J!Write(p) PROVE InOrder' /\ Changed
  <2> DEFINE g == work[p].file
  <2>1. /\ UNCHANGED <<journal, turn, edited>>
        /\ work[p].stage = "write" /\ flock[g] = p
        /\ file' = [file EXCEPT ![g] = work[p].value]
    BY <1>1, <1>15 DEF J!Write, J!At, Placed
  <2>2. \A f \in Destinations : file'[f] = IF f = g THEN work[p].value ELSE file[f]
    BY <1>1, <2>1 DEF JournalTypes
  <2>3. InTurn(work[p].value) /\ (g \notin edited => ComesAfter(file[g], work[p].value))
    BY <1>1, <2>1 DEF WorkInOrder
  <2>4. Longer /\ RowsInOrder' /\ FilesInOrder'
    BY <1>1, <2>1, <2>2, <2>3, RowsLastOrdered, FilesStayOrdered DEF Longer, InOrder
  <2>5. \A q \in Writers : q # p => OthersFilesStay(q)
    BY <2>1, <2>2 DEF OthersFilesStay
  <2>6. Resting(p)'
    BY <1>2, <1>4, <1>15 DEF J!Write, J!Stages
  <2>7. InOrder'
    BY <1>1, <2>1, <2>4, <2>5, <2>6, RestingIsOrdered, OrderKeeps
  <2>8. Changed
    BY <2>1, <2>2, <2>3
  <2> QED
    BY <2>7, <2>8
<1>16. ASSUME J!Ack(p) PROVE InOrder' /\ Changed
  <2>1. DOMAIN journal' = DOMAIN journal
    BY <1>1, <1>16, Marks DEF J!Ack, J!At, Placed, JournalTypes
  <2> QED
    BY <1>2, <1>5, <1>16, <2>1 DEF J!Ack
<1>17. ASSUME J!Crash(p) PROVE InOrder' /\ Changed
  BY <1>2, <1>5, <1>17 DEF J!Crash
<1> QED
  BY <1>6, <1>7, <1>8, <1>9, <1>10, <1>11, <1>12, <1>13, <1>14, <1>15, <1>16, <1>17 DEF Do

-----------------------------------------------------------------------------
JournalInv == Sited /\ ValuesAreOwn /\ InOrder

\* At first there is no row and no write.
LEMMA JournalInit == ASSUME J!Assumptions, J!Init PROVE JournalInv
<1>1. \A p \in Writers : work[p].value = 0 /\ work[p].stage = "idle"
  BY IdleIsWork DEF J!Init
<1>2. /\ file = [f \in Destinations |-> J!Original] /\ journal = <<>> /\ begun = 0 /\ refused = {}
  BY DEF J!Init
<1>3. ValuesAreOwn
  BY <1>1, <1>2 DEF ValuesAreOwn, Own, J!Original
<1>4. InOrder
  BY <1>1, <1>2 DEF InOrder, FilesInOrder, RowsInOrder, WorkInOrder, InTurn
<1> QED
  BY <1>3, <1>4, SitedInit DEF JournalInv

\* An edit takes its file out of what is claimed.
LEMMA EditKeepsOrder ==
  ASSUME Sited, InOrder, NEW f \in Destinations, NEW b \in J!Bytes, J!Edit(f, b)
  PROVE  InOrder' /\ \A g \in Destinations \ edited' : file'[g] = file[g]
<1>1. /\ UNCHANGED <<journal, flock, work, turn>> /\ edited' = edited \cup {f} /\ Longer
      /\ \A g \in Destinations \ edited' : file'[g] = file[g]
  BY DEF J!Edit, Sited, JournalTypes, Longer
<1>2. RowsLast
  BY <1>1, RowsAsTheyAre DEF Sited, JournalTypes
<1>3. FilesInOrder' /\ RowsInOrder'
  BY <1>1, <1>2, FilesStayOrdered, RowsLastOrdered DEF InOrder
<1>4. \A q \in Writers : WorkInOrder(q)'
  BY <1>1, <1>2, OtherStaysOrdered DEF InOrder, OthersFilesStay
<1> QED
  BY <1>1, <1>3, <1>4 DEF InOrder

\* Every step keeps the invariant and never goes back.
LEMMA JournalStep ==
  ASSUME J!Assumptions, JournalInv, [J!Next]_journalVars
  PROVE  JournalInv' /\ (J!NeverBackStep \/ UNCHANGED journalVars)
<1>1. ASSUME NEW p \in Writers, Do(p) PROVE JournalInv' /\ J!NeverBackStep
  <2>1. ValuesAreOwn' /\ InOrder'
    BY <1>1, DoKeepsValues, DoKeepsOrder DEF JournalInv
  <2>2. J!NeverBackStep
    BY <1>1, DoKeepsOrder DEF JournalInv, J!NeverBackStep, ComesAfter
  <2> QED
    BY <2>1, <2>2, SitedStep DEF JournalInv
<1>2. ASSUME NEW f \in Destinations, NEW b \in J!Bytes, J!Edit(f, b) PROVE JournalInv' /\ J!NeverBackStep
  BY <1>2, SitedStep, EditKeepsValues, EditKeepsOrder DEF JournalInv, J!NeverBackStep
<1>3. CASE UNCHANGED journalVars
  <2>1. ValuesAreOwn'
    BY <1>3 DEF JournalInv, journalVars, ValuesAreOwn, Own, Refusable
  <2>2. InOrder'
    BY <1>3 DEF JournalInv, journalVars, InOrder, FilesInOrder, RowsInOrder, WorkInOrder,
       InTurn, ComesAfter, J!Before
  <2> QED
    BY <1>3, <2>1, <2>2, SitedStep DEF JournalInv
<1> QED
  BY <1>1, <1>2, <1>3, NextSteps

\* The inductive invariant of every run, for the journal by itself.
THEOREM JournalInvariant == J!Spec => []JournalInv
<1>1. J!Init => JournalInv
  BY Assumptions, JournalInit DEF Assumptions
<1>2. JournalInv /\ [J!Next]_(J!vars) => JournalInv'
  BY Assumptions, JournalStep DEF Assumptions, J!vars, journalVars
<1> QED
  BY <1>1, <1>2, PTL DEF J!Spec

\* A process holds the locks its step needs: the writer lock while it works
\* with a library, its file's lock while it replaces the file.
THEOREM TypeCorrect == J!Spec => []J!TypeOK
<1>1. JournalInv => J!TypeOK
  BY JournalTyped DEF JournalInv
<1> QED
  BY <1>1, JournalInvariant, PTL

\* A write refused as Busy or for a conflict has no row and no effect, whatever
\* is replayed later (compat_io.rs).
THEOREM RefusedWritesStayOut == J!Spec => []J!RefusedHasNoEffect
<1>1. JournalInv => J!RefusedHasNoEffect
  BY DEF JournalInv, ValuesAreOwn, J!RefusedHasNoEffect
<1> QED
  BY <1>1, JournalInvariant, PTL

\* No write and no replay puts bytes over those of a write that took the
\* file's lock later (compat_io.rs, recovery.rs).
THEOREM NeverGoesBack == J!Spec => J!NeverBack
<1>1. JournalInv /\ [J!Next]_(J!vars) => [J!NeverBackStep]_(J!vars)
  BY Assumptions, JournalStep DEF Assumptions, J!vars, journalVars
<1> QED
  BY <1>1, JournalInvariant, PTL DEF J!Spec, J!NeverBack

\* The image a row keeps is what its write replaced (compat_io.rs).
THEOREM ImagesAreReplaced == J!Spec => J!ImageIsReplaced
<1>1. JournalInv => J!ImageIsReplacedStep
  BY DEF JournalInv, InOrder, WorkInOrder, J!ImageIsReplacedStep, J!At
<1> QED
  BY <1>1, JournalInvariant, PTL DEF J!Spec, J!ImageIsReplaced

-----------------------------------------------------------------------------
(* Copies.  Of every file a copy has what the manifest of its receipt has,  *)
(* or what the source has now, or nothing, as long as the source's changed  *)
(* at most once; and what passed the second inspection is as the manifest   *)
(* has it.  A database that did not grow did not change.                    *)

Contents == [G!Names -> 0..G!Replayed]
Bases    == [made : BOOLEAN, version : Nat, intent : BOOLEAN, batch : BOOLEAN]

CopyTypes ==
    /\ holding \in [CopyPlaces -> Contents]
    /\ databases \in [CopyPlaces -> Bases]
    /\ receipt \in [CopyPlaces -> G!Receipts \cup {None}]
    /\ copying \in {"idle", "lock", "inspect", "claim", "copy", "again", "open", "seal"}
    /\ copying # "idle" => copyTo \in G!Targets /\ copyFrom = G!SourceOf[copyTo]
    /\ copying \notin {"idle", "lock"} => inspected \in G!Manifests
    /\ nth \in Nat \ {0}
    /\ stirred \in [G!Targets -> [G!Names -> Nat]]
    /\ disturbed \subseteq CopyPlaces

Claimed(t)  == receipt[t] # None
Manifest(t) == receipt[t].manifest
At(t, steps) == copying \in steps /\ copyTo = t
Calm(t, n)  == stirred[t][n] < 2
Src(t, n)   == holding[G!SourceOf[t]][n]
Excused(n, m) == n = G!Generated /\ m.db.batch

\* The receipt under which the copier copies.
Copier ==
    /\ copying \in {"copy", "again", "open", "seal"} =>
          Claimed(copyTo) /\ ~G!Complete(copyTo) /\ Manifest(copyTo) = inspected
    /\ Claimed("restored") \/ (copying # "idle" /\ copyTo = "restored")
          => G!Complete("snapshot")

\* A database of the same version is the same; and so its copy.
GrewOrSame(new, old) == new.version = old.version => new = old

Databases ==
    /\ copying \in {"claim", "copy", "again", "open", "seal"} =>
          /\ inspected.db.made => databases[copyFrom].made
          /\ inspected.db.version <= databases[copyFrom].version
          /\ GrewOrSame(databases[copyFrom], inspected.db)
    /\ copying = "again" /\ copyTo \notin disturbed /\ inspected.db.made =>
          /\ inspected.db.version <= databases[copyTo].version
          /\ databases[copyTo].version <= databases[copyFrom].version
          /\ GrewOrSame(databases[copyTo], inspected.db)
    /\ copying = "open" /\ copyTo \notin disturbed =>
          /\ inspected.db.made => databases[copyTo] = inspected.db
          /\ databases[copyTo].batch => inspected.db.batch
    /\ copying = "seal" /\ copyTo \notin disturbed =>
          /\ inspected.db.made => databases[copyTo].version = inspected.db.version
          /\ ~databases[copyTo].batch

\* What is there of a file.
Steady(t, n) == stirred[t][n] = 0 => Manifest(t).file[n] = Src(t, n)
Watched(t, n, m) == t \notin disturbed /\ Calm(t, n) /\ ~Excused(n, m)
Among(t, n) == Watched(t, n, Manifest(t)) =>
                   holding[t][n] \in {0, Manifest(t).file[n], Src(t, n)}
AsWanted(t, n) == Watched(t, n, Manifest(t)) => holding[t][n] = Manifest(t).file[n]
IsEnrolled(n) == n \in enrolled <=> Src(copyTo, n) # 0

\* What the copier knows of a file while it inspects, copies and inspects again.
Inspected(n) == IF copying = "claim" \/ n < nth
                THEN inspected.file[n] = Src(copyTo, n) ELSE IsEnrolled(n)
ToCopy(n) == Calm(copyTo, n) /\ inspected.file[n] = Src(copyTo, n) => IsEnrolled(n)
AsCopied(n) ==
    Watched(copyTo, n, inspected) =>
        IF inspected.file[n] = Src(copyTo, n) THEN holding[copyTo][n] = Src(copyTo, n)
        ELSE copying = "again" /\ n \notin enrolled => holding[copyTo][n] \in {0, inspected.file[n]}

FilesOf(t) == \A n \in G!Names :
    /\ Claimed(t) /\ ~G!Complete(t) => Steady(t, n) /\ Among(t, n)
    /\ G!Complete(t) => AsWanted(t, n)
Pass(n) ==
    /\ copying \in {"inspect", "claim"} /\ ~Claimed(copyTo) /\ stirred[copyTo][n] = 0
          => Inspected(n)
    /\ copying = "copy" => ToCopy(n) /\ (n < nth => AsCopied(n))
    /\ copying = "again" => IF n < nth THEN AsWanted(copyTo, n) ELSE ToCopy(n) /\ AsCopied(n)
    /\ copying \in {"open", "seal"} => AsWanted(copyTo, n)

\* What is there where others have not been.
OnItsOwn(t) == t \notin disturbed =>
    /\ ~Claimed(t) => holding[t] = G!NoFiles /\ ~databases[t].made
    /\ databases[t].batch => databases[G!SourceOf[t]].made
    /\ G!Complete(t) =>
          /\ G!Records(t) = receipt[t].records /\ ~databases[t].batch
          /\ Manifest(t).db.made => databases[t].version = Manifest(t).db.version
Unstirred(t) == G!SourceOf[t] \notin disturbed => \A n \in G!Names : stirred[t][n] = 0

\* A snapshot is not copied into any more when it is restored.
RestoredOf ==
    "snapshot" \notin disturbed /\ Claimed("restored") =>
        /\ \A n \in G!Names : Manifest("restored").file[n] = holding["snapshot"][n]
        /\ ~Manifest("restored").db.batch
Restoring ==
    "snapshot" \notin disturbed /\ At("restored", {"inspect", "claim"}) =>
        ~inspected.db.batch /\ \A n \in G!Names : Inspected(n)

Lying   == (\A t \in G!Targets : FilesOf(t) /\ OnItsOwn(t) /\ Unstirred(t)) /\ RestoredOf
Passing == Databases /\ (\A n \in G!Names : Pass(n)) /\ Restoring
CopyInv == CopyTypes /\ Copier /\ Lying /\ Passing

LEMMA CopyWhole == ASSUME G!Assumptions, CopyInv PROVE G!CopiesAreWhole
<1> USE DEF G!Assumptions, G!Untouched
<1>1. G!CompleteIsWhole
  <2> SUFFICES ASSUME NEW t \in G!Targets, G!Complete(t), t \notin disturbed
               PROVE  /\ \A n \in G!Names :
                            \/ holding[t][n] = Manifest(t).file[n]
                            \/ stirred[t][n] > 1
                            \/ n = G!Generated /\ Manifest(t).db.batch
                      /\ Manifest(t).db.made => databases[t].version = Manifest(t).db.version
    BY DEF G!CompleteIsWhole, Manifest
  <2>1. Manifest(t).db.made => databases[t].version = Manifest(t).db.version
    BY DEF CopyInv, Lying, OnItsOwn
  <2>2. ASSUME NEW n \in G!Names
        PROVE  \/ holding[t][n] = Manifest(t).file[n]
               \/ stirred[t][n] > 1
               \/ n = G!Generated /\ Manifest(t).db.batch
    <3>1. AsWanted(t, n)
      BY DEF CopyInv, Lying, FilesOf
    <3>2. stirred[t][n] \in Nat
      BY DEF CopyInv, CopyTypes
    <3> QED
      BY <3>1, <3>2 DEF AsWanted, Watched, Calm, Excused
  <2> QED
    BY <2>1, <2>2
<1>2. G!RestoredIsRecorded
  <2> SUFFICES ASSUME G!Complete("restored"), "snapshot" \notin disturbed,
                      "restored" \notin disturbed
               PROVE  /\ G!Complete("snapshot")
                      /\ holding["restored"] = receipt["snapshot"].records.file
    BY DEF G!RestoredIsRecorded
  <2>1. Claimed("restored") /\ G!Complete("snapshot")
    BY DEF Claimed, G!Complete, CopyInv, Copier
  <2>2. holding["snapshot"] = receipt["snapshot"].records.file
    BY <2>1 DEF CopyInv, Lying, OnItsOwn, G!Records, G!Targets
  <2>3. ASSUME NEW n \in G!Names PROVE holding["restored"][n] = holding["snapshot"][n]
    <3>1. /\ Manifest("restored").file[n] = holding["snapshot"][n]
          /\ ~Manifest("restored").db.batch
      BY <2>1 DEF CopyInv, Lying, RestoredOf
    <3>2. stirred["restored"][n] = 0
      BY DEF CopyInv, Lying, Unstirred, G!SourceOf, G!Targets
    <3>3. AsWanted("restored", n)
      BY DEF CopyInv, Lying, FilesOf, G!Targets
    <3> QED
      BY <3>1, <3>2, <3>3 DEF AsWanted, Watched, Calm, Excused
  <2>4. holding["restored"] \in Contents /\ holding["snapshot"] \in Contents
    BY DEF CopyInv, CopyTypes, CopyPlaces
  <2> QED
    BY <2>1, <2>2, <2>3, <2>4 DEF Contents
<1>3. G!BegunIsClaimed
  BY DEF G!BegunIsClaimed, CopyInv, Lying, OnItsOwn, Claimed
<1> QED
  BY <1>1, <1>2, <1>3 DEF G!CopiesAreWhole

LEMMA CopyInit == ASSUME G!Assumptions, G!Init PROVE CopyInv
<1> USE DEF G!Assumptions
<1>1. CopyTypes
  <2>1. G!NoFiles \in Contents /\ [n \in G!Names |-> 1] \in Contents
    BY DEF Contents, G!NoFiles, G!Replayed
  <2>2. G!NoDatabase \in Bases /\ [G!NoDatabase EXCEPT !.made = TRUE] \in Bases
    BY DEF Bases, G!NoDatabase
  <2>3. stirred \in [G!Targets -> [G!Names -> Nat]]
    BY DEF G!Init
  <2>4. databases \in [CopyPlaces -> Bases]
    BY <2>2 DEF G!Init
  <2>5. nth \in Nat \ {0}
    BY DEF G!Init
  <2> HIDE DEF G!Assumptions
  <2> QED
    BY <2>1, <2>3, <2>4, <2>5 DEF G!Init, CopyTypes
<1>2. Copier
  BY DEF G!Init, Copier, Claimed, CopyPlaces
<1>3. Lying
  BY DEF G!Init, Lying, FilesOf, OnItsOwn, Unstirred, RestoredOf, Claimed, G!Complete,
         G!Targets, G!NoFiles, G!NoDatabase, CopyPlaces
<1>4. Passing
  BY DEF G!Init, Passing, Databases, Pass, Restoring, At
<1> QED
  BY <1>1, <1>2, <1>3, <1>4 DEF CopyInv

\* While no place, receipt or history changes, they stay as they were.
LEMMA LyingStays ==
  ASSUME Lying, UNCHANGED <<holding, databases, receipt, disturbed, stirred>>
  PROVE  Lying'
BY DEF Lying, FilesOf, OnItsOwn, Unstirred, RestoredOf, Steady, Among, AsWanted, Watched,
       Calm, Excused, Src, Claimed, Manifest, G!Complete, G!Records

LEMMA StartKeeps ==
  ASSUME G!Assumptions, CopyInv, NEW t \in G!Targets, G!Start(t) PROVE CopyInv'
<1>1. CopyTypes'
  BY DEF CopyInv, CopyTypes, G!Start, G!history
<1>2. Copier'
  BY DEF CopyInv, Copier, G!Start, G!MayCopy, G!Verified, Claimed, G!Complete
<1>3. Lying'
  BY LyingStays DEF CopyInv, G!Start, G!history
<1>4. Passing'
  BY DEF G!Start, Passing, Databases, Pass, Restoring, At
<1> QED
  BY <1>1, <1>2, <1>3, <1>4 DEF CopyInv

LEMMA IdleKeeps ==
  ASSUME G!Assumptions, CopyInv, G!Stop PROVE CopyInv'
<1>1. CopyTypes'
  BY DEF CopyInv, CopyTypes, G!Stop, G!Idle, G!history
<1>2. Copier'
  BY DEF CopyInv, Copier, G!Stop, G!Idle, Claimed, G!Complete
<1>3. Lying'
  BY LyingStays DEF CopyInv, G!Stop, G!history
<1>4. Passing'
  BY DEF G!Stop, G!Idle, Passing, Databases, Pass, Restoring, At
<1> QED
  BY <1>1, <1>2, <1>3, <1>4 DEF CopyInv

LEMMA LockKeeps == ASSUME G!Assumptions, CopyInv, G!Lock PROVE CopyInv'
<1> USE DEF G!Assumptions
<1>1. copyTo \in G!Targets /\ copyFrom = G!SourceOf[copyTo] /\ copyFrom \in CopyPlaces
  BY DEF CopyInv, CopyTypes, G!Lock, G!Targets, G!SourceOf, CopyPlaces
<1>2. /\ stirred' \in [G!Targets -> [G!Names -> Nat]]
      /\ \A t \in G!Targets : stirred'[t] = stirred[t]
                              \/ (t = copyTo /\ ~Claimed(t) /\ stirred'[t] = G!NoFiles)
  BY <1>1 DEF CopyInv, CopyTypes, G!Lock, Claimed, G!NoFiles
<1>3. CopyTypes'
  BY <1>2 DEF CopyInv, CopyTypes, G!Lock, G!List, G!Manifests, G!NoFiles, G!NoDatabase,
              G!Replayed
<1>4. Copier'
  BY DEF CopyInv, Copier, G!Lock, Claimed, G!Complete
<1>5. Lying'
  BY <1>2 DEF CopyInv, Lying, FilesOf, OnItsOwn, Unstirred, RestoredOf, Steady, Among,
              AsWanted, Watched, Calm, Excused, Src, Claimed, Manifest, G!Complete,
              G!Records, G!NoFiles, G!Lock
<1>6. \A n \in G!Names : ~(n < nth') /\ IsEnrolled(n)'
  BY <1>1 DEF G!Lock, G!List, IsEnrolled, Src, G!Names
<1>7. Passing'
  <2>1. copying' = "inspect" /\ ~inspected'.db.batch
    BY DEF G!Lock, G!NoDatabase
  <2> QED
    BY <1>6, <2>1 DEF Passing, Databases, Pass, Restoring, At, Inspected
<1> QED
  BY <1>3, <1>4, <1>5, <1>7 DEF CopyInv

\* Where the copier is.
LEMMA Located ==
  ASSUME CopyInv, copying # "idle"
  PROVE  /\ copyTo \in G!Targets /\ copyFrom = G!SourceOf[copyTo]
         /\ copyFrom \in CopyPlaces /\ copyTo \in CopyPlaces /\ copyFrom # copyTo
BY DEF CopyInv, CopyTypes, G!Targets, G!SourceOf, CopyPlaces

LEMMA InspectKeeps == ASSUME G!Assumptions, CopyInv, G!Inspect PROVE CopyInv'
<1> DEFINE x == IF nth \in enrolled THEN holding[copyFrom][nth] ELSE 0
<1>1. /\ copying = "inspect" /\ copying' = "inspect" /\ nth \in G!Names /\ nth' = nth + 1
      /\ inspected' = [inspected EXCEPT !.file[nth] = x]
      /\ UNCHANGED <<holding, databases, receipt, copyFrom, copyTo, enrolled, disturbed,
                     stirred>>
      /\ nth \in enrolled => holding[copyFrom][nth] # 0
  BY DEF G!Inspect, G!Readable, G!history
<1>2. copyFrom \in CopyPlaces /\ copyFrom = G!SourceOf[copyTo]
  BY <1>1, Located
<1>3. nth \in Nat \ {0} /\ x \in 0..G!Replayed /\ inspected \in G!Manifests
  BY <1>1, <1>2 DEF CopyInv, CopyTypes, Contents, G!Replayed
<1>4. /\ inspected' \in G!Manifests /\ inspected'.db = inspected.db
      /\ inspected'.file[nth] = x
      /\ \A n \in G!Names \ {nth} : inspected'.file[n] = inspected.file[n]
  BY <1>1, <1>3 DEF G!Manifests
<1> HIDE DEF x
<1>5. CopyTypes'
  BY <1>1, <1>3, <1>4 DEF CopyInv, CopyTypes
<1>6. Copier'
  BY <1>1 DEF CopyInv, Copier, Claimed, G!Complete
<1>7. Lying'
  BY <1>1, LyingStays DEF CopyInv
<1>8. ASSUME NEW n \in G!Names, Inspected(n) PROVE Inspected(n)'
  <2>1. CASE n = nth
    <3>1. IsEnrolled(nth)
      BY <1>1, <1>3, <1>8, <2>1 DEF Inspected
    <3>2. inspected'.file[nth] = Src(copyTo, nth)
      BY <1>1, <1>2, <1>4, <3>1 DEF x, IsEnrolled, Src
    <3> QED
      BY <1>1, <1>3, <2>1, <3>2 DEF Inspected, Src
  <2>2. CASE n # nth
    <3>1. n < nth' <=> n < nth
      BY <1>1, <1>3, <2>2 DEF G!Names
    <3> QED
      BY <1>1, <1>4, <1>8, <2>2, <3>1 DEF Inspected, Src, IsEnrolled
  <2> QED
    BY <2>1, <2>2
<1>9. Passing'
  BY <1>1, <1>4, <1>8 DEF CopyInv, Passing, Databases, Pass, Restoring, At, Claimed
<1> QED
  BY <1>5, <1>6, <1>7, <1>9 DEF CopyInv

LEMMA InspectDatabaseKeeps ==
  ASSUME G!Assumptions, CopyInv, G!InspectDatabase PROVE CopyInv'
<1>1. /\ copying = "inspect" /\ copying' = "claim" /\ nth \notin G!Names
      /\ inspected' = [inspected EXCEPT !.db = databases[copyFrom]]
      /\ UNCHANGED <<holding, databases, receipt, copyFrom, copyTo, enrolled, nth, disturbed,
                     stirred>>
  BY DEF G!InspectDatabase, G!history
<1>2. copyFrom \in CopyPlaces /\ copyFrom = G!SourceOf[copyTo]
  BY <1>1, Located
<1>3. nth \in Nat \ {0} /\ databases[copyFrom] \in Bases /\ inspected \in G!Manifests
  BY <1>1, <1>2 DEF CopyInv, CopyTypes
<1>4. /\ inspected' \in G!Manifests /\ inspected'.db = databases[copyFrom]
      /\ inspected'.file = inspected.file
  BY <1>1, <1>3 DEF G!Manifests, Bases
<1>5. CopyTypes'
  BY <1>1, <1>3, <1>4 DEF CopyInv, CopyTypes
<1>6. Copier'
  BY <1>1 DEF CopyInv, Copier, Claimed, G!Complete
<1>7. Lying'
  BY <1>1, LyingStays DEF CopyInv
<1>8. ASSUME NEW n \in G!Names, Inspected(n) PROVE Inspected(n)'
  <2>1. n < nth
    BY <1>1, <1>3 DEF G!Names, G!Assumptions
  <2> QED
    BY <1>1, <1>4, <1>8, <2>1 DEF Inspected, Src
<1>9. Passing'
  <2>1. Databases'
    BY <1>1, <1>3, <1>4 DEF Databases, GrewOrSame, Bases
  <2>2. \A n \in G!Names : Pass(n)'
    BY <1>1, <1>8 DEF CopyInv, Passing, Pass, Claimed
  <2>3. Restoring'
    <3>1. SUFFICES ASSUME "snapshot" \notin disturbed, copyTo = "restored"
                   PROVE  ~databases["snapshot"].batch
      BY <1>1, <1>2, <1>4, <1>8 DEF CopyInv, Passing, Restoring, At, G!SourceOf, G!Targets
    <3>2. G!Complete("snapshot")
      BY <1>1, <3>1 DEF CopyInv, Copier
    <3> QED
      BY <3>1, <3>2 DEF CopyInv, Lying, OnItsOwn, G!Targets
  <2> QED
    BY <2>1, <2>2, <2>3 DEF Passing
<1> QED
  BY <1>5, <1>6, <1>7, <1>9 DEF CopyInv

LEMMA ClaimKeeps == ASSUME G!Assumptions, CopyInv, G!Claim PROVE CopyInv'
<1>1. /\ copying = "claim" /\ copying' = "copy" /\ nth' = 1
      /\ enrolled' = {n \in G!Names : holding[copyFrom][n] # 0}
      /\ UNCHANGED <<holding, databases, copyFrom, copyTo, inspected, disturbed, stirred>>
  BY DEF G!Claim, G!List, G!history
<1>2. copyFrom \in CopyPlaces /\ copyFrom = G!SourceOf[copyTo] /\ copyTo \in G!Targets
      /\ copyTo \in CopyPlaces
  BY <1>1, Located
<1>3. inspected \in G!Manifests /\ None \notin G!Receipts
  BY <1>1 DEF CopyInv, CopyTypes, G!Assumptions
<1> DEFINE r == [state |-> "copying", manifest |-> inspected, records |-> None]
<1>4. r \in G!Receipts /\ r # None /\ r.manifest = inspected /\ r.state # "complete"
  BY <1>3 DEF G!Receipts
<1>5. \/ /\ ~Claimed(copyTo) /\ receipt' = [receipt EXCEPT ![copyTo] = r]
         /\ holding[copyTo] = G!NoFiles /\ ~databases[copyTo].made
      \/ /\ Claimed(copyTo) /\ Manifest(copyTo) = inspected /\ ~G!Complete(copyTo)
         /\ receipt' = receipt
  BY DEF G!Claim, G!WriteReceipt, Claimed, Manifest
<1> HIDE DEF r
<1>6. CopyTypes'
  BY <1>1, <1>2, <1>4, <1>5 DEF CopyInv, CopyTypes
<1>7. /\ Claimed(copyTo)' /\ ~G!Complete(copyTo)' /\ Manifest(copyTo)' = inspected
      /\ \A t \in CopyPlaces \ {copyTo} : receipt'[t] = receipt[t]
      /\ \A t \in CopyPlaces : /\ G!Complete(t)' <=> G!Complete(t)
                               /\ Claimed(t) => receipt'[t] = receipt[t]
  BY <1>1, <1>2, <1>4, <1>5 DEF CopyInv, CopyTypes, Claimed, Manifest, G!Complete
<1>8. Copier'
  BY <1>1, <1>2, <1>7 DEF CopyInv, Copier, Claimed, CopyPlaces, G!Targets
<1>9. Lying'
  <2>1. ASSUME NEW t \in G!Targets PROVE FilesOf(t)'
    <3>1. CASE Claimed(t)
      BY <1>1, <1>2, <1>7, <3>1 DEF CopyInv, Lying, FilesOf, Steady, Among, AsWanted, Watched,
         Calm,
         Excused, Src, Claimed, Manifest, G!Complete, CopyPlaces, G!Targets
    <3>2. CASE ~Claimed(t) /\ t # copyTo
      BY <1>1, <1>2, <1>7, <3>2 DEF FilesOf, Claimed, G!Complete, CopyPlaces, G!Targets
    <3>3. CASE ~Claimed(copyTo) /\ t = copyTo
      <4>1. \A n \in G!Names : holding[t][n] = 0
        BY <1>5, <3>3 DEF G!NoFiles
      <4>2. ASSUME NEW n \in G!Names, stirred[t][n] = 0
            PROVE  inspected.file[n] = Src(t, n)
        BY <1>1, <3>3, <4>2 DEF CopyInv, Passing, Pass, Inspected, Src
      <4> QED
        BY <1>1, <1>7, <3>3, <4>1, <4>2 DEF FilesOf, Steady, Among, Src
    <3> QED
      BY <3>1, <3>2, <3>3
  <2>2. ASSUME NEW t \in G!Targets PROVE OnItsOwn(t)'
    BY <1>1, <1>2, <1>7 DEF CopyInv, Lying, OnItsOwn, Claimed, G!Complete, G!Records, Manifest,
        CopyPlaces, G!Targets
  <2>3. ASSUME NEW t \in G!Targets PROVE Unstirred(t)'
    BY <1>1 DEF CopyInv, Lying, Unstirred
  <2>4. RestoredOf'
    <3>1. CASE Claimed("restored")
      BY <1>1, <1>7, <3>1 DEF CopyInv, Lying, RestoredOf, Manifest, CopyPlaces
    <3>2. CASE copyTo = "restored"
      BY <1>1, <1>7, <3>2 DEF CopyInv, Passing, Restoring, RestoredOf, At, Inspected, Src,
         G!SourceOf,
         G!Targets
    <3>3. CASE ~Claimed("restored") /\ copyTo # "restored"
      BY <1>1, <1>7, <3>3 DEF RestoredOf, Claimed, CopyPlaces
    <3> QED
      BY <3>1, <3>2, <3>3
  <2> QED
    BY <2>1, <2>2, <2>3, <2>4 DEF Lying
<1>10. Passing'
  <2>1. Databases'
    BY <1>1 DEF CopyInv, Passing, Databases
  <2>2. \A n \in G!Names : IsEnrolled(n)' /\ ~(n < nth')
    BY <1>1, <1>2 DEF IsEnrolled, Src, G!Names
  <2>3. \A n \in G!Names : Pass(n)'
    BY <1>1, <2>2 DEF Pass, ToCopy
  <2>4. Restoring'
    BY <1>1 DEF Restoring, At
  <2> QED
    BY <2>1, <2>3, <2>4 DEF Passing
<1> QED
  BY <1>6, <1>8, <1>9, <1>10 DEF CopyInv

\* What the copier may put into the copy.
LEMMA PutKeeps ==
  ASSUME G!Assumptions, CopyInv, copying \in {"copy", "open"},
         UNCHANGED <<receipt, disturbed, stirred>>,
         NEW n \in G!Names, NEW x \in 0..G!Replayed,
         holding' = [holding EXCEPT ![copyTo][n] = x],
         Watched(copyTo, n, inspected) => x = Src(copyTo, n),
         \A p \in CopyPlaces \ {copyTo} : databases'[p] = databases[p],
         databases[copyTo].made => databases'[copyTo].made,
         databases'[copyTo].batch => databases[copyTo].batch
  PROVE  Lying' /\ holding' \in [CopyPlaces -> Contents]
<1>1. copyFrom \in CopyPlaces /\ copyFrom = G!SourceOf[copyTo] /\ copyTo \in G!Targets
      /\ copyTo \in CopyPlaces /\ copyFrom # copyTo
  BY Located
<1>2. Claimed(copyTo) /\ ~G!Complete(copyTo) /\ Manifest(copyTo) = inspected
  BY DEF CopyInv, Copier
<1>3. /\ holding' \in [CopyPlaces -> Contents] /\ holding'[copyTo][n] = x
      /\ \A p \in CopyPlaces \ {copyTo} : holding'[p] = holding[p]
      /\ \A m \in G!Names \ {n} : holding'[copyTo][m] = holding[copyTo][m]
  BY <1>1 DEF CopyInv, CopyTypes, Contents
<1>4. ASSUME NEW t \in G!Targets, Claimed(t) PROVE G!SourceOf[t] # copyTo
  BY <1>1, <1>2, <1>4 DEF CopyInv, Copier, G!SourceOf, G!Targets
<1>5. ASSUME NEW t \in G!Targets PROVE FilesOf(t)'
  <2>1. CASE Claimed(t)
    <3>1. holding'[G!SourceOf[t]] = holding[G!SourceOf[t]]
      BY <1>3, <1>4, <2>1 DEF G!SourceOf, CopyPlaces, G!Targets
    <3>2. CASE t # copyTo
      BY <1>3, <3>1, <3>2 DEF CopyInv, Lying, FilesOf, Steady, Among, AsWanted, Watched, Calm,
         Excused, Src, Claimed, Manifest, G!Complete, CopyPlaces, G!Targets
    <3>3. CASE t = copyTo
      <4>1. ASSUME NEW m \in G!Names PROVE Steady(t, m)' /\ Among(t, m)'
        BY <1>2, <1>3, <3>1, <3>3 DEF CopyInv, Lying, FilesOf, Steady, Among, Watched, Calm,
           Excused, Src, Claimed, Manifest, G!Complete
      <4> QED
        BY <1>2, <3>3, <4>1 DEF FilesOf, G!Complete
    <3> QED
      BY <3>2, <3>3
  <2>2. CASE ~Claimed(t)
    BY <2>2 DEF FilesOf, Claimed, G!Complete
  <2> QED
    BY <2>1, <2>2
<1>6. ASSUME NEW t \in G!Targets PROVE OnItsOwn(t)'
  BY <1>1, <1>2, <1>3 DEF CopyInv, Lying, OnItsOwn, Claimed, G!Complete, G!Records, Manifest,
     CopyPlaces, G!Targets, G!SourceOf
<1>7. ASSUME NEW t \in G!Targets PROVE Unstirred(t)'
  BY DEF CopyInv, Lying, Unstirred
<1>8. RestoredOf'
  BY <1>3, <1>4 DEF CopyInv, Lying, RestoredOf, Claimed, Manifest, G!SourceOf, G!Targets,
     CopyPlaces
<1> QED
  BY <1>3, <1>5, <1>6, <1>7, <1>8 DEF Lying

LEMMA CopyKeeps == ASSUME G!Assumptions, CopyInv, G!Copy PROVE CopyInv'
<1>1. /\ copying = "copy" /\ copying' = "copy" /\ nth \in G!Names /\ nth' = nth + 1
      /\ nth \in enrolled => holding[copyFrom][nth] # 0
      /\ UNCHANGED <<databases, receipt, copyFrom, copyTo, enrolled, inspected, disturbed,
                     stirred>>
  BY DEF G!Copy, G!Readable, G!history
<1>2. copyFrom \in CopyPlaces /\ copyFrom = G!SourceOf[copyTo] /\ copyTo \in G!Targets
      /\ copyTo \in CopyPlaces /\ copyFrom # copyTo
  BY <1>1, Located
<1>3. /\ holding' \in [CopyPlaces -> Contents] /\ Lying'
      /\ \A p \in CopyPlaces \ {copyTo} : holding'[p] = holding[p]
      /\ \A m \in G!Names \ {nth} : holding'[copyTo][m] = holding[copyTo][m]
      /\ holding'[copyTo][nth] = IF nth \in enrolled THEN holding[copyFrom][nth]
                                                     ELSE holding[copyTo][nth]
  <2>1. CASE nth \in enrolled
    <3>1. /\ holding' = [holding EXCEPT ![copyTo][nth] = holding[copyFrom][nth]]
      BY <2>1 DEF G!Copy
    <3>2. holding[copyFrom][nth] \in 0..G!Replayed
      BY <1>1, <1>2 DEF CopyInv, CopyTypes, Contents
    <3>3. Lying' /\ holding' \in [CopyPlaces -> Contents]
      BY <1>1, <1>2, <3>1, <3>2, PutKeeps DEF Src
    <3> QED
      BY <1>1, <1>2, <2>1, <3>1, <3>3 DEF CopyInv, CopyTypes, Contents
  <2>2. CASE nth \notin enrolled
    <3>1. holding' = holding
      BY <2>2 DEF G!Copy
    <3> QED
      BY <1>1, <2>2, <3>1, LyingStays DEF CopyInv, CopyTypes
  <2> QED
    BY <2>1, <2>2
<1>4. CopyTypes'
  BY <1>1, <1>3 DEF CopyInv, CopyTypes
<1>5. Copier'
  BY <1>1 DEF CopyInv, Copier, Claimed, G!Complete, Manifest
<1>6. ASSUME NEW n \in G!Names PROVE Pass(n)'
  <2>1. ToCopy(n)'
    BY <1>1, <1>2, <1>3 DEF CopyInv, Passing, Pass, ToCopy, Calm, IsEnrolled, Src, G!Targets
  <2>2. CASE n # nth
    <3>1. n < nth' <=> n < nth
      BY <1>1, <2>2 DEF G!Names, CopyInv, CopyTypes
    <3> QED
      BY <1>1, <1>2, <1>3, <2>1, <2>2, <3>1 DEF CopyInv, Passing, Pass, AsCopied, Watched, Calm,
         Excused, Src
  <2>3. CASE n = nth
    <3>1. AsCopied(n)'
      <4>1. SUFFICES ASSUME Watched(copyTo, n, inspected),
                            inspected.file[n] = Src(copyTo, n)
                     PROVE  holding'[copyTo][n] = Src(copyTo, n)
        BY <1>1, <1>2, <1>3 DEF AsCopied, Watched, Calm, Src, Excused
      <4>2. IsEnrolled(n)
        BY <1>1, <4>1 DEF CopyInv, Passing, Pass, ToCopy, Watched
      <4>3. CASE n \in enrolled
        BY <1>2, <1>3, <2>3, <4>3 DEF Src
      <4>4. CASE n \notin enrolled
        <5>1. Src(copyTo, n) = 0
          BY <4>2, <4>4 DEF IsEnrolled
        <5>2. holding[copyTo][n] \in {0, inspected.file[n], Src(copyTo, n)}
          BY <1>1, <1>2, <4>1 DEF CopyInv, Copier, Lying, FilesOf, Among
        <5> QED
          BY <1>3, <2>3, <4>1, <4>4, <5>1, <5>2
      <4> QED
        BY <4>3, <4>4
    <3> QED
      BY <1>1, <2>1, <2>3, <3>1 DEF Pass
  <2> QED
    BY <2>2, <2>3
<1>7. Passing'
  BY <1>1, <1>6 DEF CopyInv, Passing, Databases, Restoring, At
<1> QED
  BY <1>3, <1>4, <1>5, <1>7 DEF CopyInv

LEMMA CopyDatabaseKeeps ==
  ASSUME G!Assumptions, CopyInv, G!CopyDatabase PROVE CopyInv'
<1>1. /\ copying = "copy" /\ copying' = "again" /\ nth \notin G!Names /\ nth' = 1
      /\ enrolled' = {n \in G!Names : holding[copyFrom][n] # 0}
      /\ UNCHANGED <<holding, receipt, copyFrom, copyTo, inspected, disturbed, stirred>>
  BY DEF G!CopyDatabase, G!List, G!history
<1>2. copyFrom \in CopyPlaces /\ copyFrom = G!SourceOf[copyTo] /\ copyTo \in G!Targets
      /\ copyTo \in CopyPlaces /\ copyFrom # copyTo
  BY <1>1, Located
<1>3. Claimed(copyTo) /\ ~G!Complete(copyTo) /\ Manifest(copyTo) = inspected
  BY <1>1 DEF CopyInv, Copier
<1>4. /\ \A p \in CopyPlaces \ {copyTo} : databases'[p] = databases[p]
      /\ databases' \in [CopyPlaces -> Bases]
      /\ \/ databases[copyFrom].made /\ databases'[copyTo] = databases[copyFrom]
         \/ ~databases[copyFrom].made /\ databases'[copyTo] = databases[copyTo]
  BY <1>2 DEF G!CopyDatabase, CopyInv, CopyTypes
<1>5. CopyTypes'
  BY <1>1, <1>4 DEF CopyInv, CopyTypes
<1>6. Copier'
  BY <1>1 DEF CopyInv, Copier, Claimed, G!Complete, Manifest
<1>7. Lying'
  <2>1. ASSUME NEW t \in G!Targets PROVE FilesOf(t)' /\ Unstirred(t)'
    BY <1>1 DEF CopyInv, Lying, FilesOf, Unstirred, Steady, Among, AsWanted, Watched, Calm,
       Excused, Src, Claimed, Manifest, G!Complete
  <2>2. ASSUME NEW t \in G!Targets PROVE OnItsOwn(t)'
    BY <1>1, <1>2, <1>3, <1>4 DEF CopyInv, Lying, OnItsOwn, Claimed, G!Complete, G!Records,
       Manifest,
       CopyPlaces, G!Targets, G!SourceOf
  <2>3. RestoredOf'
    BY <1>1 DEF CopyInv, Lying, RestoredOf, Claimed, Manifest
  <2> QED
    BY <2>1, <2>2, <2>3 DEF Lying
<1>8. Databases'
  <2>1. databases'[copyFrom] = databases[copyFrom] /\ databases[copyFrom] \in Bases
    BY <1>2, <1>4 DEF CopyInv, CopyTypes
  <2>2. inspected.db \in Bases
    BY <1>1 DEF CopyInv, CopyTypes, G!Manifests, Bases
  <2> QED
    BY <1>1, <1>4, <2>1, <2>2 DEF CopyInv, Passing, Databases, GrewOrSame, Bases
<1>9. ASSUME NEW n \in G!Names PROVE Pass(n)'
  <2>1. n < nth /\ ~(n < nth')
    BY <1>1 DEF CopyInv, CopyTypes, G!Names, G!Assumptions
  <2>2. IsEnrolled(n)'
    BY <1>1, <1>2 DEF IsEnrolled, Src
  <2>3. ToCopy(n)'
    BY <2>2 DEF ToCopy
  <2>4. AsCopied(n)'
    <3>1. AsCopied(n)
      BY <1>1, <2>1 DEF CopyInv, Passing, Pass
    <3>2. Among(copyTo, n)
      BY <1>2, <1>3 DEF CopyInv, Lying, FilesOf
    <3> QED
      BY <1>1, <1>3, <2>2, <3>1, <3>2 DEF AsCopied, Among, Watched, Calm, Src, IsEnrolled
  <2> QED
    BY <1>1, <2>1, <2>3, <2>4 DEF Pass
<1>10. Passing'
  BY <1>1, <1>8, <1>9 DEF Passing, Restoring, At
<1> QED
  BY <1>5, <1>6, <1>7, <1>10 DEF CopyInv

LEMMA InspectAgainKeeps == ASSUME G!Assumptions, CopyInv, G!InspectAgain PROVE CopyInv'
<1>1. /\ copying = "again" /\ copying' = "again" /\ nth \in G!Names /\ nth' = nth + 1
      /\ inspected.file[nth] = IF nth \in enrolled THEN holding[copyFrom][nth] ELSE 0
      /\ UNCHANGED <<holding, databases, receipt, copyFrom, copyTo, enrolled, inspected,
                     disturbed, stirred>>
  BY DEF G!InspectAgain, G!Unchanged, G!history
<1>2. copyFrom \in CopyPlaces /\ copyFrom = G!SourceOf[copyTo] /\ copyTo \in G!Targets
      /\ copyTo \in CopyPlaces /\ copyFrom # copyTo
  BY <1>1, Located
<1>3. Claimed(copyTo) /\ ~G!Complete(copyTo) /\ Manifest(copyTo) = inspected
  BY <1>1 DEF CopyInv, Copier
<1>4. CopyTypes'
  BY <1>1 DEF CopyInv, CopyTypes
<1>5. Copier'
  BY <1>1 DEF CopyInv, Copier, Claimed, G!Complete, Manifest
<1>6. Lying'
  BY <1>1, LyingStays DEF CopyInv
<1>7. ASSUME NEW n \in G!Names PROVE Pass(n)'
  <2>1. CASE n # nth
    <3>1. n < nth' <=> n < nth
      BY <1>1, <2>1 DEF G!Names, CopyInv, CopyTypes
    <3> QED
      BY <1>1, <2>1, <3>1 DEF CopyInv, Passing, Pass, AsWanted, ToCopy, AsCopied, IsEnrolled,
         Src,
         Watched, Calm, Excused, Manifest
  <2>2. CASE n = nth
    <3>1. ToCopy(n) /\ AsCopied(n)
      BY <1>1, <2>2 DEF CopyInv, CopyTypes, Passing, Pass
    <3>2. ASSUME Watched(copyTo, n, inspected) PROVE holding[copyTo][n] = inspected.file[n]
      <4>1. CASE inspected.file[n] = Src(copyTo, n)
        BY <3>1, <3>2, <4>1 DEF AsCopied
      <4>2. CASE inspected.file[n] # Src(copyTo, n)
        <5>1. n \notin enrolled /\ inspected.file[n] = 0
          BY <1>1, <1>2, <2>2, <4>2 DEF Src
        <5> QED
          BY <1>1, <3>1, <3>2, <4>2, <5>1 DEF AsCopied
      <4> QED
        BY <4>1, <4>2
    <3>3. AsWanted(copyTo, n)'
      BY <1>1, <1>3, <3>2 DEF AsWanted, Watched, Calm, Excused, Manifest
    <3>4. n < nth'
      BY <1>1, <2>2 DEF CopyInv, CopyTypes
    <3> QED
      BY <1>1, <3>3, <3>4 DEF Pass
  <2> QED
    BY <2>1, <2>2
<1>8. Passing'
  BY <1>1, <1>7 DEF CopyInv, Passing, Databases, Restoring, At
<1> QED
  BY <1>4, <1>5, <1>6, <1>8 DEF CopyInv

LEMMA InspectDatabaseAgainKeeps ==
  ASSUME G!Assumptions, CopyInv, G!InspectDatabaseAgain PROVE CopyInv'
<1>1. /\ copying = "again" /\ copying' = "open" /\ nth \notin G!Names
      /\ databases[copyFrom] = inspected.db
      /\ UNCHANGED <<holding, databases, receipt, copyFrom, copyTo, enrolled, nth, inspected,
                     disturbed, stirred>>
  BY DEF G!InspectDatabaseAgain, G!history, G!copier
<1>2. copyFrom \in CopyPlaces /\ copyFrom = G!SourceOf[copyTo] /\ copyTo \in G!Targets
      /\ copyTo \in CopyPlaces
  BY <1>1, Located
<1>3. CopyTypes'
  BY <1>1 DEF CopyInv, CopyTypes
<1>4. Copier'
  BY <1>1 DEF CopyInv, Copier, Claimed, G!Complete, Manifest
<1>5. Lying'
  BY <1>1, LyingStays DEF CopyInv
<1>6. ASSUME NEW n \in G!Names PROVE Pass(n)'
  <2>1. n < nth
    BY <1>1 DEF CopyInv, CopyTypes, G!Names, G!Assumptions
  <2> QED
    BY <1>1, <2>1 DEF CopyInv, Passing, Pass, AsWanted, Watched, Calm, Excused, Manifest
<1>7. Databases'
  <2>1. databases[copyTo] \in Bases /\ inspected.db \in Bases
    BY <1>1, <1>2 DEF CopyInv, CopyTypes
  <2>2. ASSUME copyTo \notin disturbed, inspected.db.made PROVE databases[copyTo] = inspected.db
    BY <1>1, <2>1, <2>2 DEF CopyInv, Passing, Databases, GrewOrSame, Bases
  <2>3. ASSUME copyTo \notin disturbed, databases[copyTo].batch PROVE inspected.db.batch
    <3>1. inspected.db.made
      BY <1>1, <1>2, <2>3 DEF CopyInv, Lying, OnItsOwn
    <3> QED
      BY <2>2, <2>3, <3>1
  <2> QED
    BY <1>1, <2>2, <2>3 DEF CopyInv, Passing, Databases
<1>8. Passing'
  BY <1>1, <1>6, <1>7 DEF Passing, Restoring, At
<1> QED
  BY <1>3, <1>4, <1>5, <1>8 DEF CopyInv

LEMMA OpenKeeps == ASSUME G!Assumptions, CopyInv, G!Open PROVE CopyInv'
<1>1. /\ copying = "open" /\ copying' = "seal"
      /\ databases' = [databases EXCEPT ![copyTo].made = TRUE, ![copyTo].batch = FALSE]
      /\ UNCHANGED <<receipt, copyFrom, copyTo, enrolled, nth, inspected, disturbed, stirred>>
  BY DEF G!Open, G!history, G!copier
<1>2. copyFrom \in CopyPlaces /\ copyFrom = G!SourceOf[copyTo] /\ copyTo \in G!Targets
      /\ copyTo \in CopyPlaces /\ copyFrom # copyTo
  BY <1>1, Located
<1>3. /\ databases' \in [CopyPlaces -> Bases]
      /\ databases'[copyTo].made /\ ~databases'[copyTo].batch
      /\ databases'[copyTo].version = databases[copyTo].version
      /\ \A p \in CopyPlaces \ {copyTo} : databases'[p] = databases[p]
  BY <1>1, <1>2 DEF CopyInv, CopyTypes, Bases
<1>4. G!Generated \in G!Names /\ G!Replayed \in 0..G!Replayed
  BY DEF G!Generated, G!Names, G!Assumptions, G!Replayed
<1>5. Claimed(copyTo) /\ ~G!Complete(copyTo) /\ Manifest(copyTo) = inspected
  BY <1>1 DEF CopyInv, Copier
<1>6. /\ holding' \in [CopyPlaces -> Contents] /\ Lying'
      /\ \A n \in G!Names : Watched(copyTo, n, inspected) => holding'[copyTo][n] = holding[copyTo][n]
  <2>1. CASE databases[copyTo].batch
    <3>1. holding' = [holding EXCEPT ![copyTo][G!Generated] = G!Replayed]
      BY <2>1 DEF G!Open
    <3>2. ~Watched(copyTo, G!Generated, inspected)
      BY <1>1, <2>1 DEF CopyInv, Passing, Databases, Watched, Excused
    <3>3. Lying' /\ holding' \in [CopyPlaces -> Contents]
      BY <1>1, <1>3, <1>4, <3>1, <3>2, PutKeeps
    <3> QED
      BY <1>2, <3>1, <3>2, <3>3 DEF CopyInv, CopyTypes, Contents
  <2>2. CASE ~databases[copyTo].batch
    <3>1. holding' = holding
      BY <2>2 DEF G!Open
    <3>2. ASSUME NEW t \in G!Targets PROVE FilesOf(t)' /\ Unstirred(t)'
      BY <1>1, <3>1 DEF CopyInv, Lying, FilesOf, Unstirred, Steady, Among, AsWanted, Watched,
         Calm,
         Excused, Src, Claimed, Manifest, G!Complete
    <3>3. ASSUME NEW t \in G!Targets PROVE OnItsOwn(t)'
      BY <1>1, <1>2, <1>3, <1>5, <3>1 DEF CopyInv, Lying, OnItsOwn, Claimed, G!Complete,
         G!Records,
         Manifest, CopyPlaces, G!Targets, G!SourceOf
    <3>4. RestoredOf'
      BY <1>1, <3>1 DEF CopyInv, Lying, RestoredOf, Claimed, Manifest
    <3> QED
      BY <3>1, <3>2, <3>3, <3>4 DEF Lying, CopyInv, CopyTypes
  <2> QED
    BY <2>1, <2>2
<1>7. CopyTypes'
  BY <1>1, <1>3, <1>6 DEF CopyInv, CopyTypes
<1>8. Copier'
  BY <1>1 DEF CopyInv, Copier, Claimed, G!Complete, Manifest
<1>9. Databases'
  BY <1>1, <1>2, <1>3 DEF CopyInv, Passing, Databases, GrewOrSame
<1>10. ASSUME NEW n \in G!Names PROVE Pass(n)'
  BY <1>1, <1>5, <1>6 DEF CopyInv, Passing, Pass, AsWanted, Watched, Calm, Excused, Manifest
<1>11. Passing'
  BY <1>1, <1>9, <1>10 DEF Passing, Restoring, At
<1> QED
  BY <1>6, <1>7, <1>8, <1>11 DEF CopyInv

LEMMA SealKeeps == ASSUME G!Assumptions, CopyInv, G!Seal PROVE CopyInv'
<1>1. /\ copying = "seal" /\ copying' = "idle" /\ nth' = 1
      /\ receipt' = [receipt EXCEPT ![copyTo].state = "complete",
                                    ![copyTo].records = G!Records(copyTo)]
      /\ UNCHANGED <<holding, databases, disturbed, stirred>>
  BY DEF G!Seal, G!Idle, G!history
<1>2. PICK c \in G!Targets : c = copyTo /\ c \in CopyPlaces
  BY <1>1, Located
<1>3. Claimed(c) /\ ~G!Complete(c) /\ Manifest(c) = inspected
  BY <1>1, <1>2 DEF CopyInv, Copier
<1>4. G!Records(c) \in G!Manifests
  BY <1>2 DEF CopyInv, CopyTypes, G!Records, G!Manifests, Contents, Bases
<1>5. /\ receipt'[c] \in G!Receipts /\ receipt'[c].state = "complete"
      /\ receipt'[c].records = G!Records(c)
      /\ receipt'[c].manifest = inspected
      /\ \A t \in CopyPlaces \ {c} : receipt'[t] = receipt[t]
      /\ receipt' \in [CopyPlaces -> G!Receipts \cup {None}]
  <2>1. receipt[c] \in G!Receipts /\ receipt \in [CopyPlaces -> G!Receipts \cup {None}]
    BY <1>2, <1>3 DEF CopyInv, CopyTypes, Claimed
  <2> QED
    BY <1>1, <1>2, <1>3, <1>4, <2>1 DEF G!Receipts, Manifest
<1>6. Claimed(c)' /\ G!Complete(c)'
  BY <1>5 DEF Claimed, G!Complete, G!Assumptions
<1>7. CopyTypes'
  BY <1>1, <1>5 DEF CopyInv, CopyTypes
<1>8. Copier'
  BY <1>1, <1>2, <1>3, <1>5, <1>6 DEF CopyInv, Copier, Claimed, G!Complete, CopyPlaces
<1>9. Lying'
  <2>1. ASSUME NEW t \in G!Targets PROVE FilesOf(t)' /\ OnItsOwn(t)' /\ Unstirred(t)'
    <3>1. CASE t # c
      <4>1. receipt'[t] = receipt[t]
        BY <1>5, <3>1 DEF G!Targets, CopyPlaces
      <4>2. OnItsOwn(t)' /\ Unstirred(t)'
        <5>1. OnItsOwn(t) /\ Unstirred(t) /\ G!Records(t)' = G!Records(t)
          BY <1>1 DEF CopyInv, Lying, G!Records
        <5> QED
          BY <1>1, <4>1, <5>1 DEF OnItsOwn, Unstirred, Claimed, Manifest, G!Complete
      <4>3. FilesOf(t)'
        <5>1. FilesOf(t)
          BY DEF CopyInv, Lying
        <5>2. UNCHANGED <<receipt[t], holding, stirred, disturbed>>
          BY <1>1, <4>1
        <5> QED
          BY <5>1, <5>2 DEF FilesOf, Steady, Among, AsWanted, Watched, Calm, Excused, Src,
                            Claimed, Manifest, G!Complete
      <4> QED
        BY <4>2, <4>3
    <3>2. CASE t = c
      <4>1. ASSUME NEW n \in G!Names PROVE AsWanted(t, n)'
        BY <1>1, <1>2, <1>3, <1>5, <3>2 DEF CopyInv, Passing, Pass, AsWanted, Watched, Calm,
           Excused, Manifest
      <4>2. OnItsOwn(t)'
        <5>1. OnItsOwn(c) /\ G!Records(c)' = G!Records(c)
          BY <1>1, <1>2 DEF CopyInv, Lying, G!Records
        <5>2. c \notin disturbed => /\ inspected.db.made => databases[c].version = inspected.db.version
                                    /\ ~databases[c].batch
          BY <1>1, <1>2 DEF CopyInv, Passing, Databases
        <5> QED
          BY <1>1, <1>5, <1>6, <3>2, <5>1, <5>2 DEF OnItsOwn, Manifest
      <4>3. Unstirred(t)'
        BY <1>1 DEF CopyInv, Lying, Unstirred
      <4> QED
        BY <1>6, <3>2, <4>1, <4>2, <4>3 DEF FilesOf
    <3> QED
      BY <3>1, <3>2
  <2>2. RestoredOf'
    BY <1>1, <1>2, <1>3, <1>5 DEF CopyInv, Lying, RestoredOf, Claimed, Manifest, CopyPlaces
  <2> QED
    BY <2>1, <2>2 DEF Lying
<1>10. Passing'
  BY <1>1 DEF Passing, Databases, Pass, Restoring, At
<1> QED
  BY <1>7, <1>8, <1>9, <1>10 DEF CopyInv

\* What others do in one place is counted in the copies that are made of it.
LEMMA OthersKeep ==
  ASSUME G!Assumptions, CopyInv, NEW p \in CopyPlaces,
         UNCHANGED <<receipt, copying, copyFrom, copyTo, nth, enrolled, inspected>>,
         holding' \in [CopyPlaces -> Contents],
         databases' \in [CopyPlaces -> Bases],
         stirred' \in [G!Targets -> [G!Names -> Nat]],
         disturbed' = disturbed \cup {p},
         \A q \in CopyPlaces \ {p} : holding'[q] = holding[q] /\ databases'[q] = databases[q],
         databases[p].made => databases'[p].made,
         databases'[p] = databases[p] \/ databases'[p].version = databases[p].version + 1,
         \A t \in G!Targets, n \in G!Names :
            /\ stirred'[t][n] \in {stirred[t][n], stirred[t][n] + 1}
            /\ stirred'[t][n] # stirred[t][n] => G!SourceOf[t] = p
            /\ Src(t, n)' # Src(t, n) /\ ~G!Complete(t) /\ Calm(t, n)
                  => stirred'[t][n] = stirred[t][n] + 1
  PROVE  CopyInv'
<1>1. CopyTypes'
  BY DEF CopyInv, CopyTypes
<1>2. Copier'
  BY DEF CopyInv, Copier, Claimed, G!Complete, Manifest
<1>3. \A t \in G!Targets : t \in CopyPlaces /\ G!SourceOf[t] \in CopyPlaces
  BY DEF G!Targets, CopyPlaces, G!SourceOf
<1>4. ASSUME NEW t \in G!Targets, NEW n \in G!Names
      PROVE  /\ stirred[t][n] \in Nat /\ (Calm(t, n)' => Calm(t, n))
             /\ stirred'[t][n] = 0 => stirred[t][n] = 0
             /\ Src(t, n)' # Src(t, n) /\ ~G!Complete(t) /\ Calm(t, n)'
                => stirred[t][n] = 0 /\ stirred'[t][n] # 0
  <2>1. stirred[t][n] \in Nat
    BY DEF CopyInv, CopyTypes
  <2> QED
    BY <2>1 DEF Calm
<1>5. \A t \in G!Targets, n \in G!Names : \A m :
         Watched(t, n, m)' => Watched(t, n, m) /\ holding'[t] = holding[t]
  BY <1>3, <1>4 DEF Watched, Excused
<1>6. ASSUME NEW t \in G!Targets, NEW n \in G!Names, AsWanted(t, n) PROVE AsWanted(t, n)'
  BY <1>5, <1>6 DEF AsWanted, Manifest
<1>7. Lying'
  <2>1. ASSUME NEW t \in G!Targets PROVE FilesOf(t)'
    <3>1. ASSUME NEW n \in G!Names, Claimed(t), ~G!Complete(t) PROVE Steady(t, n)' /\ Among(t, n)'
      <4>1. Steady(t, n) /\ Among(t, n)
        BY <3>1 DEF CopyInv, Lying, FilesOf
      <4>2. Steady(t, n)'
        BY <1>4, <3>1, <4>1 DEF Steady, Manifest, Calm
      <4>3. Among(t, n)'
        <5>1. SUFFICES ASSUME Watched(t, n, Manifest(t))'
                       PROVE  holding'[t][n] \in {0, Manifest(t).file[n], Src(t, n)'}
          BY DEF Among, Manifest
        <5>2. Watched(t, n, Manifest(t)) /\ holding'[t] = holding[t] /\ Calm(t, n)'
          BY <1>5, <5>1 DEF Manifest, Watched
        <5> QED
          BY <1>4, <3>1, <4>1, <5>2 DEF Among, Steady
      <4> QED
        BY <4>2, <4>3
    <3> QED
      BY <1>6, <3>1 DEF CopyInv, Lying, FilesOf, Claimed, G!Complete
  <2>2. ASSUME NEW t \in G!Targets PROVE OnItsOwn(t)'
    <3>1. SUFFICES ASSUME t \notin disturbed' PROVE OnItsOwn(t)'
      BY DEF OnItsOwn
    <3>2. holding'[t] = holding[t] /\ databases'[t] = databases[t] /\ OnItsOwn(t) /\ t \notin disturbed
      BY <1>3, <3>1 DEF CopyInv, Lying
    <3>3. databases[G!SourceOf[t]].made => databases'[G!SourceOf[t]].made
      BY <1>3
    <3> QED
      BY <3>2, <3>3 DEF OnItsOwn, Claimed, G!Complete, G!Records, Manifest
  <2>3. ASSUME NEW t \in G!Targets PROVE Unstirred(t)'
    BY DEF CopyInv, Lying, Unstirred
  <2>4. RestoredOf'
    BY DEF CopyInv, Lying, RestoredOf, Claimed, Manifest, CopyPlaces
  <2> QED
    BY <2>1, <2>2, <2>3, <2>4 DEF Lying
<1>8. Databases'
  <2>1. CASE copying \in {"idle", "lock", "inspect"}
    BY <2>1 DEF Databases
  <2>2. CASE copying \notin {"idle", "lock", "inspect"}
    <3>1. /\ copyFrom \in CopyPlaces /\ copyTo \in CopyPlaces /\ inspected.db \in Bases
          /\ databases[copyFrom] \in Bases /\ databases[copyTo] \in Bases
      BY <2>2, Located DEF CopyInv, CopyTypes, G!Manifests, Bases
    <3>2. /\ databases'[copyFrom] = databases[copyFrom]
             \/ databases'[copyFrom].version = databases[copyFrom].version + 1
          /\ databases[copyFrom].made => databases'[copyFrom].made
          /\ copyTo \notin disturbed' => copyTo \notin disturbed /\ databases'[copyTo] = databases[copyTo]
      BY <3>1
    <3> QED
      BY <3>1, <3>2 DEF CopyInv, Passing, Databases, GrewOrSame, Bases
  <2> QED
    BY <2>1, <2>2
<1>9. ASSUME NEW n \in G!Names, copying # "idle" PROVE Pass(n)'
  <2>1. copyTo \in G!Targets
    BY <1>9, Located
  <2>2. CASE copying \in {"inspect", "claim"} /\ ~Claimed(copyTo)
    <3>1. ~G!Complete(copyTo)
      BY <2>2 DEF Claimed, G!Complete
    <3> QED
      BY <1>4, <2>1, <2>2, <3>1 DEF CopyInv, Passing, Pass, Inspected, IsEnrolled, Src, Calm
  <2>3. CASE copying \in {"copy", "again", "open", "seal"}
    <3>1. Claimed(copyTo) /\ ~G!Complete(copyTo) /\ Manifest(copyTo) = inspected
      BY <2>3 DEF CopyInv, Copier
    <3>2. Steady(copyTo, n)
      BY <2>1, <3>1 DEF CopyInv, Lying, FilesOf
    <3>3. ToCopy(n) => ToCopy(n)'
      BY <1>4, <2>1, <3>1, <3>2 DEF ToCopy, IsEnrolled, Steady
    <3>4. AsCopied(n) => AsCopied(n)'
      <4>1. SUFFICES ASSUME AsCopied(n), Watched(copyTo, n, inspected)'
                     PROVE  IF inspected.file[n] = Src(copyTo, n)'
                            THEN holding'[copyTo][n] = Src(copyTo, n)'
                            ELSE copying = "again" /\ n \notin enrolled
                                 => holding'[copyTo][n] \in {0, inspected.file[n]}
        BY DEF AsCopied
      <4>2. Watched(copyTo, n, inspected) /\ holding'[copyTo] = holding[copyTo] /\ Calm(copyTo, n)'
        BY <1>5, <2>1, <4>1 DEF Watched
      <4> QED
        BY <1>4, <2>1, <3>1, <3>2, <4>1, <4>2 DEF AsCopied, Steady
    <3>5. AsWanted(copyTo, n) => AsWanted(copyTo, n)'
      BY <1>6, <2>1 DEF AsWanted, Watched, Calm, Excused, Manifest
    <3> QED
      BY <2>3, <3>3, <3>4, <3>5 DEF CopyInv, Passing, Pass
  <2>4. CASE copying \notin {"copy", "again", "open", "seal"}
             /\ ~(copying \in {"inspect", "claim"} /\ ~Claimed(copyTo))
    BY <2>4 DEF Pass, Claimed
  <2> QED
    BY <2>2, <2>3, <2>4
<1>10. Restoring'
  BY DEF CopyInv, Passing, Restoring, At, Inspected, IsEnrolled, Src, G!SourceOf, G!Targets,
     CopyPlaces
<1>11. Passing'
  <2>1. CASE copying = "idle"
    BY <1>8, <1>10, <2>1 DEF Passing, Pass
  <2>2. CASE copying # "idle"
    BY <1>8, <1>9, <1>10, <2>2 DEF Passing
  <2> QED
    BY <2>1, <2>2
<1> QED
  BY <1>1, <1>2, <1>7, <1>11 DEF CopyInv

\* A change of a file is counted, once, while its copies are not complete.
LEMMA Stirred ==
  ASSUME CopyInv, NEW p \in CopyPlaces, NEW n \in G!Names, NEW x \in 0..G!Replayed,
         holding' = [holding EXCEPT ![p][n] = x], G!Stir(p, n)
  PROVE  /\ holding' \in [CopyPlaces -> Contents]
         /\ stirred' \in [G!Targets -> [G!Names -> Nat]]
         /\ disturbed' = disturbed \cup {p}
         /\ \A q \in CopyPlaces \ {p} : holding'[q] = holding[q]
         /\ \A t \in G!Targets, m \in G!Names :
               /\ stirred'[t][m] \in {stirred[t][m], stirred[t][m] + 1}
               /\ stirred'[t][m] # stirred[t][m] => G!SourceOf[t] = p
               /\ Src(t, m)' # Src(t, m) /\ ~G!Complete(t) /\ Calm(t, m)
                     => stirred'[t][m] = stirred[t][m] + 1
<1>1. /\ holding' \in [CopyPlaces -> Contents]
      /\ \A q \in CopyPlaces \ {p} : holding'[q] = holding[q]
      /\ \A m \in G!Names \ {n} : holding'[p][m] = holding[p][m]
  BY DEF CopyInv, CopyTypes, Contents
<1>2. \A t \in G!Targets, m \in G!Names :
         stirred'[t][m] = IF m = n /\ G!SourceOf[t] = p /\ ~G!Complete(t) /\ stirred[t][m] < 2
                          THEN stirred[t][m] + 1 ELSE stirred[t][m]
  BY DEF G!Stir
<1>3. \A t \in G!Targets, m \in G!Names : stirred[t][m] \in Nat
  BY DEF CopyInv, CopyTypes
<1>4. stirred' \in [G!Targets -> [G!Names -> Nat]]
  BY <1>3 DEF G!Stir
<1>5. \A t \in G!Targets : G!SourceOf[t] \in CopyPlaces
  BY DEF G!Targets, CopyPlaces, G!SourceOf
<1>6. ASSUME NEW t \in G!Targets, NEW m \in G!Names, Src(t, m)' # Src(t, m)
      PROVE  m = n /\ G!SourceOf[t] = p
  BY <1>1, <1>5, <1>6 DEF Src
<1>7. disturbed' = disturbed \cup {p}
  BY DEF G!Stir
<1> QED
  BY <1>1, <1>2, <1>3, <1>4, <1>6, <1>7 DEF Calm

LEMMA EditsKeep ==
  ASSUME G!Assumptions, CopyInv, NEW p \in CopyPlaces, NEW n \in G!Names,
         NEW x \in G!Texts \cup {0}, G!Edit(p, n, x)
  PROVE  CopyInv'
<1>1. /\ holding' = [holding EXCEPT ![p][n] = x] /\ G!Stir(p, n)
      /\ UNCHANGED <<databases, receipt, copying, copyFrom, copyTo, nth, enrolled, inspected>>
  BY DEF G!Edit, G!copier
<1>2. x \in 0..G!Replayed
  BY DEF G!Texts, G!Replayed
<1>3. databases' \in [CopyPlaces -> Bases]
  BY <1>1 DEF CopyInv, CopyTypes
<1> QED
  BY <1>1, <1>2, <1>3, Stirred, OthersKeep

LEMMA UseKeeps ==
  ASSUME G!Assumptions, CopyInv, NEW p \in CopyPlaces, NEW intent \in BOOLEAN,
         NEW batch \in BOOLEAN, G!Use(p, intent, batch)
  PROVE  CopyInv'
<1> DEFINE b == [made |-> TRUE, version |-> databases[p].version + 1, intent |-> intent,
                 batch |-> batch]
<1>1. /\ databases' = [databases EXCEPT ![p] = b]
      /\ UNCHANGED <<receipt, copying, copyFrom, copyTo, nth, enrolled, inspected>>
  BY DEF G!Use, G!copier
<1>2. b \in Bases /\ b.made /\ b.version = databases[p].version + 1
  BY DEF CopyInv, CopyTypes, Bases
<1> HIDE DEF b
<1>3. /\ databases' \in [CopyPlaces -> Bases] /\ databases'[p] = b
      /\ \A q \in CopyPlaces \ {p} : databases'[q] = databases[q]
  BY <1>1, <1>2 DEF CopyInv, CopyTypes
<1>4. CASE databases[p].batch
  <2>1. holding' = [holding EXCEPT ![p][G!Generated] = G!Replayed] /\ G!Stir(p, G!Generated)
    BY <1>4 DEF G!Use
  <2>2. G!Generated \in G!Names /\ G!Replayed \in 0..G!Replayed
    BY DEF G!Generated, G!Names, G!Assumptions, G!Replayed
  <2> QED
    BY <1>1, <1>2, <1>3, <2>1, <2>2, Stirred, OthersKeep
<1>5. CASE ~databases[p].batch
  <2>1. holding' = holding /\ stirred' = stirred /\ disturbed' = disturbed \cup {p}
    BY <1>5 DEF G!Use
  <2>2. /\ holding' \in [CopyPlaces -> Contents] /\ stirred' \in [G!Targets -> [G!Names -> Nat]]
        /\ \A q \in CopyPlaces \ {p} : holding'[q] = holding[q]
        /\ \A t \in G!Targets, n \in G!Names :
              stirred'[t][n] = stirred[t][n] /\ Src(t, n)' = Src(t, n)
    BY <2>1 DEF CopyInv, CopyTypes, Src
  <2> QED
    BY <1>1, <1>2, <1>3, <2>1, <2>2, OthersKeep
<1> QED
  BY <1>4, <1>5

LEMMA CommitKeeps ==
  ASSUME G!Assumptions, CopyInv, NEW p \in CopyPlaces, G!Commit(p)
  PROVE  CopyInv'
<1> DEFINE b == [databases[p] EXCEPT !.version = @ + 1]
<1>1. /\ databases' = [databases EXCEPT ![p] = b] /\ databases[p].made
      /\ disturbed' = disturbed \cup {p}
      /\ UNCHANGED <<holding, stirred, receipt, copying, copyFrom, copyTo, nth, enrolled,
                     inspected>>
  BY DEF G!Commit, G!copier
<1>2. b \in Bases /\ b.made /\ b.version = databases[p].version + 1
  BY <1>1 DEF CopyInv, CopyTypes, Bases
<1> HIDE DEF b
<1>3. /\ databases' \in [CopyPlaces -> Bases] /\ databases'[p] = b
      /\ \A q \in CopyPlaces \ {p} : databases'[q] = databases[q]
  BY <1>1, <1>2 DEF CopyInv, CopyTypes
<1>4. /\ holding' \in [CopyPlaces -> Contents] /\ stirred' \in [G!Targets -> [G!Names -> Nat]]
      /\ \A q \in CopyPlaces \ {p} : holding'[q] = holding[q]
      /\ \A t \in G!Targets, n \in G!Names :
            stirred'[t][n] = stirred[t][n] /\ Src(t, n)' = Src(t, n)
  BY <1>1 DEF CopyInv, CopyTypes, Src
<1> QED
  BY <1>1, <1>2, <1>3, <1>4, OthersKeep

LEMMA CopyStep == ASSUME G!Assumptions, CopyInv, [G!Next]_copyVars PROVE CopyInv'
<1>1. CASE UNCHANGED copyVars
  <2> USE <1>1 DEF copyVars
  <2>1. CopyTypes' /\ Copier'
    BY DEF CopyInv, CopyTypes, Copier, Claimed, G!Complete, Manifest
  <2>2. Lying'
    BY LyingStays DEF CopyInv
  <2>3. Passing'
    BY DEF CopyInv, Passing, Databases, Pass, Restoring, At, Inspected, IsEnrolled, ToCopy,
       AsCopied,
       AsWanted, Watched, Calm, Excused, Src, Claimed, Manifest, GrewOrSame
  <2> QED
    BY <2>1, <2>2, <2>3 DEF CopyInv
<1>2. CASE G!Next
  BY <1>2, StartKeeps, IdleKeeps, LockKeeps, InspectKeeps, InspectDatabaseKeeps, ClaimKeeps,
     CopyKeeps,
     CopyDatabaseKeeps, InspectAgainKeeps, InspectDatabaseAgainKeeps, OpenKeeps, SealKeeps,
     EditsKeep, UseKeeps, CommitKeeps
  DEF G!Next
<1> QED
  BY <1>1, <1>2

-----------------------------------------------------------------------------
(* Documents.  What a call has still to write and what it accepted are all  *)
(* it brings until something fails; what it wrote it accepted, or the index *)
(* is behind; and it writes no document while its original was never there. *)

Bringing(o) == I!Range(I!Brings(o))

Whereabouts == {"none", "process", "replied", "brought", "writing", "over"}
Verdicts == {"none", "no job", "running", "failed", "cancelled", "interrupted", "partial",
             "succeeded"}

IngestTypes ==
    /\ arrived \in [I!Paths -> Nat]
    /\ means \in [Deliveries -> I!Operations]
    /\ queue \in [Deliveries -> Seq(I!Paths)]
    /\ brought \in [Deliveries -> SUBSET I!Paths] /\ rejected \in [Deliveries -> SUBSET I!Paths]
    /\ wrote \in [Deliveries -> SUBSET I!Paths]
    /\ doing \in [Deliveries -> Whereabouts] /\ verdict \in [Deliveries -> Verdicts]
    /\ stored \subseteq Deliveries

Begins(c) == doing[c] \in {"none", "process", "replied", "brought"}

\* A call that has not begun to write has written nothing.
Fresh(c) ==
    Begins(c) => /\ brought[c] = {} /\ rejected[c] = {} /\ wrote[c] = {}
                 /\ verdict[c] \notin {"succeeded", "partial", "failed"}
Going(c) ==
    doing[c] = "writing" =>
        /\ rejected[c] = {} => brought[c] \cup I!Range(queue[c]) = Bringing(means[c])
        /\ verdict[c] \notin {"succeeded", "partial", "failed"}
Over(c) ==
    /\ verdict[c] = "succeeded" => brought[c] = Bringing(means[c])
    /\ verdict[c] = "partial"   => brought[c] # {} /\ rejected[c] # {}
    /\ verdict[c] = "failed"    => wrote[c] = {} \/ unreadable
Indexed(c) == wrote[c] \subseteq brought[c] \/ unreadable

\* The original comes first.
Unstored(c) ==
    I!Original \in Bringing(means[c]) /\ c \notin stored =>
        /\ wrote[c] \cap I!Documents = {}
        /\ doing[c] = "writing" => queue[c] \in {I!Brings(means[c]), <<>>}
Sourced == \A c \in Deliveries : arrived[I!Original] = c => c \in stored

Delivery(c) == Fresh(c) /\ Going(c) /\ Over(c) /\ Indexed(c) /\ Unstored(c)
DocumentInv == IngestTypes /\ Sourced /\ \A c \in Deliveries : Delivery(c)

LEMMA DocumentsHonest == ASSUME DocumentInv PROVE I!JobIsHonest /\ I!OriginalIsStored
BY DEF DocumentInv, Delivery, Over, Unstored, Bringing, I!JobIsHonest, I!OriginalIsStored

LEMMA DocumentInit == ASSUME I!Assumptions, I!Init PROVE DocumentInv
<1>1. IngestTypes
  BY DEF I!Init, IngestTypes, I!Operations, Whereabouts, Verdicts
<1>2. Sourced
  BY DEF I!Init, I!Assumptions, Sourced, I!Paths
<1>3. ASSUME NEW c \in Deliveries PROVE Delivery(c)
  <2>1. /\ doing[c] = "none" /\ verdict[c] = "none" /\ brought[c] = {} /\ rejected[c] = {}
        /\ wrote[c] = {}
    BY DEF I!Init
  <2> QED
    BY <2>1 DEF Delivery, Fresh, Going, Over, Indexed, Unstored
<1> QED
  BY <1>1, <1>2, <1>3 DEF DocumentInv

LEMMA HeadAndTail ==
  ASSUME NEW X, NEW q \in Seq(X), q # <<>>
  PROVE  Head(q) \in X /\ Tail(q) \in Seq(X) /\ I!Range(q) = {Head(q)} \cup I!Range(Tail(q))
<1>1. Len(q) \in Nat /\ Len(q) > 0 /\ Head(q) = q[1] /\ q \in [1..Len(q) -> X]
  OBVIOUS
<1>2. Len(Tail(q)) = Len(q) - 1 /\ \A k \in 1..(Len(q) - 1) : Tail(q)[k] = q[k + 1]
  BY <1>1
<1>3. Tail(q) \in Seq(X)
  OBVIOUS
<1>4. DOMAIN Tail(q) = 1..(Len(q) - 1) /\ DOMAIN q = 1..Len(q)
  BY <1>1, <1>2, <1>3
<1>5. ASSUME NEW x \in I!Range(q) PROVE x \in {Head(q)} \cup I!Range(Tail(q))
  <2>1. PICK k \in 1..Len(q) : x = q[k]
    BY <1>4 DEF I!Range
  <2>2. CASE k = 1
    BY <1>1, <2>1, <2>2
  <2>3. CASE k # 1
    <3>1. k - 1 \in 1..(Len(q) - 1) /\ (k - 1) + 1 = k
      BY <1>1, <2>1, <2>3
    <3>2. x = Tail(q)[k - 1]
      BY <1>2, <2>1, <3>1
    <3> QED
      BY <1>4, <3>1, <3>2 DEF I!Range
  <2> QED
    BY <2>2, <2>3
<1>6. ASSUME NEW x \in {Head(q)} \cup I!Range(Tail(q)) PROVE x \in I!Range(q)
  <2>1. CASE x = Head(q)
    BY <1>1, <1>4, <2>1 DEF I!Range
  <2>2. CASE x \in I!Range(Tail(q))
    <3>1. PICK k \in 1..(Len(q) - 1) : x = Tail(q)[k]
      BY <1>4, <2>2 DEF I!Range
    <3>2. x = q[k + 1] /\ k + 1 \in 1..Len(q)
      BY <1>1, <1>2, <3>1
    <3> QED
      BY <1>4, <3>2 DEF I!Range
  <2> QED
    BY <1>6, <2>1, <2>2
<1> QED
  BY <1>1, <1>3, <1>5, <1>6

\* What a call brings: its original first.
LEMMA BringsIs ==
  ASSUME NEW o \in I!Operations
  PROVE  /\ I!Brings(o) \in Seq(I!Paths) /\ I!Brings(o) # <<>>
         /\ I!Original \in Bringing(o) => Head(I!Brings(o)) = I!Original
<1>1. /\ I!Original \in I!Paths /\ "d1" \in I!Paths /\ "d2" \in I!Paths /\ I!Original # "d1"
  BY DEF I!Paths, I!Documents, I!Original
<1>2. CASE o = "adapter"
  <2>1. I!Brings(o) = <<I!Original, "d1", "d2">>
    BY <1>2 DEF I!Brings
  <2> QED
    BY <1>1, <2>1
<1>3. CASE o = "url"
  <2>1. I!Brings(o) = <<I!Original, "d1">>
    BY <1>3 DEF I!Brings
  <2> QED
    BY <1>1, <2>1
<1>4. CASE o \in {"text", "existing"}
  <2>1. I!Brings(o) = <<"d1">>
    BY <1>4 DEF I!Brings
  <2>2. I!Brings(o) \in Seq(I!Paths) /\ I!Brings(o) # <<>> /\ Len(I!Brings(o)) = 1
        /\ I!Brings(o)[1] = "d1" /\ DOMAIN I!Brings(o) = 1..1
    BY <1>1, <2>1
  <2>3. I!Original \notin Bringing(o)
    BY <1>1, <2>2 DEF Bringing, I!Range
  <2> QED
    BY <2>2, <2>3
<1> QED
  BY <1>2, <1>3, <1>4 DEF I!Operations

\* A call of which nothing changes stays as it was.
OfCall(c) == <<doing[c], means[c], queue[c], brought[c], rejected[c], verdict[c], wrote[c]>>
Onwards   == stored \subseteq stored' /\ (unreadable => unreadable')

LEMMA DeliveryStays ==
  ASSUME NEW c \in Deliveries, Delivery(c), Onwards, UNCHANGED OfCall(c)
  PROVE  Delivery(c)'
BY DEF Delivery, Onwards, OfCall, Begins, Fresh, Going, Over, Indexed, Unstored

\* A call that is over stays as it ended; one whose job is lost has none.
LEMMA MovesOn ==
  ASSUME NEW c \in Deliveries, Delivery(c), Onwards,
         UNCHANGED <<means[c], queue[c], brought[c], rejected[c], wrote[c]>>,
         \/ doing'[c] = doing[c]
         \/ doing'[c] = "over"
         \/ Begins(c) /\ Begins(c)',
         \/ verdict'[c] = verdict[c]
         \/ verdict'[c] \in {"no job", "running", "cancelled", "interrupted"}
         \/ verdict'[c] = "failed" /\ wrote[c] = {} /\ doing'[c] = "over"
  PROVE  Delivery(c)'
BY DEF Delivery, Onwards, OfCall, Begins, Fresh, Going, Over, Indexed, Unstored

\* A step of one call leaves the others as they are.
LEMMA OneCall ==
  ASSUME DocumentInv, NEW c \in Deliveries, IngestTypes', Sourced', Onwards, Delivery(c)',
         \A d \in Deliveries \ {c} : UNCHANGED OfCall(d)
  PROVE  DocumentInv'
<1>1. ASSUME NEW d \in Deliveries PROVE Delivery(d)'
  <2>1. CASE d = c
    BY <2>1
  <2>2. CASE d # c
    BY <2>2, DeliveryStays DEF DocumentInv
  <2> QED
    BY <2>1, <2>2
<1> QED
  BY <1>1 DEF DocumentInv

\* Where a call goes and what becomes of its job.
LEMMA Steps ==
  ASSUME DocumentInv, NEW c \in Deliveries,
         UNCHANGED <<arrived, means, queue, brought, rejected, wrote, stored, unreadable>>,
         NEW p \in Whereabouts, doing' = [doing EXCEPT ![c] = p],
         NEW v \in Verdicts, verdict' = [verdict EXCEPT ![c] = v],
         \/ p = doing[c]
         \/ p = "over"
         \/ Begins(c) /\ p \in {"none", "process", "replied", "brought"},
         \/ v = verdict[c]
         \/ v \in {"no job", "running", "cancelled", "interrupted"}
         \/ v = "failed" /\ wrote[c] = {} /\ p = "over"
  PROVE  DocumentInv'
<1>1. IngestTypes
  BY DEF DocumentInv
<1>2. /\ doing'[c] = p /\ verdict'[c] = v
      /\ \A d \in Deliveries \ {c} : doing'[d] = doing[d] /\ verdict'[d] = verdict[d]
  BY <1>1 DEF IngestTypes
<1>3. IngestTypes'
  BY <1>1 DEF IngestTypes
<1>4. Sourced'
  BY DEF DocumentInv, Sourced
<1>5. Onwards
  BY DEF Onwards
<1>6. Delivery(c)'
  <2>1. Delivery(c)
    BY DEF DocumentInv
  <2>2. \/ doing'[c] = doing[c]
        \/ doing'[c] = "over"
        \/ Begins(c) /\ Begins(c)'
    BY <1>2 DEF Begins
  <2>3. \/ verdict'[c] = verdict[c]
        \/ verdict'[c] \in {"no job", "running", "cancelled", "interrupted"}
        \/ verdict'[c] = "failed" /\ wrote[c] = {} /\ doing'[c] = "over"
    BY <1>2
  <2> QED
    BY <1>5, <2>1, <2>2, <2>3, MovesOn
<1>7. \A d \in Deliveries \ {c} : UNCHANGED OfCall(d)
  BY <1>2 DEF OfCall
<1> QED
  BY <1>3, <1>4, <1>5, <1>6, <1>7, OneCall

\* The same when its job stays as it is.
LEMMA GoesThere ==
  ASSUME DocumentInv, NEW c \in Deliveries,
         UNCHANGED <<arrived, means, queue, brought, rejected, wrote, stored, unreadable, verdict>>,
         NEW p \in Whereabouts, doing' = [doing EXCEPT ![c] = p],
         \/ p = "over"
         \/ Begins(c) /\ p \in {"none", "process", "replied", "brought"}
  PROVE  DocumentInv'
<1>1. verdict[c] \in Verdicts /\ verdict' = [verdict EXCEPT ![c] = verdict[c]]
  BY DEF DocumentInv, IngestTypes
<1> QED
  BY <1>1, Steps

LEMMA FailsStep ==
  ASSUME DocumentInv, NEW c \in Deliveries, I!Fails(c), Begins(c),
         UNCHANGED <<arrived, means, queue, brought, rejected, wrote, stored, unreadable>>
  PROVE  DocumentInv'
<1>1. doing' = [doing EXCEPT ![c] = "over"] /\ "over" \in Whereabouts
  BY DEF I!Fails, I!Goto, Whereabouts
<1>2. PICK s \in {"failed", "cancelled"} : I!Finish(c, s)
  BY DEF I!Fails
<1>3. wrote[c] = {}
  BY DEF DocumentInv, Delivery, Fresh
<1>4. CASE verdict' = [verdict EXCEPT ![c] = s]
  <2>1. s \in Verdicts
    BY <1>2 DEF Verdicts
  <2> QED
    BY <1>1, <1>2, <1>3, <1>4, <2>1, Steps
<1>5. CASE UNCHANGED verdict
  BY <1>1, <1>5, GoesThere
<1> QED
  BY <1>2, <1>4, <1>5 DEF I!Finish, I!Job

-----------------------------------------------------------------------------
(* Each step.                                                              *)

LEMMA BeginStep ==
  ASSUME DocumentInv, NEW c \in Deliveries, NEW o \in I!Operations, I!Begin(c, o)
  PROVE  DocumentInv'
<1>1. IngestTypes /\ Delivery(c) /\ Sourced
  BY DEF DocumentInv
<1>2. /\ doing[c] = "none" /\ means' = [means EXCEPT ![c] = o]
      /\ UNCHANGED <<arrived, queue, brought, rejected, wrote, stored, unreadable>>
  BY DEF I!Begin, I!disk
<1>3. PICK p \in {"process", "brought"}, v \in {"running", "no job"} :
        doing' = [doing EXCEPT ![c] = p] /\ verdict' = [verdict EXCEPT ![c] = v]
  BY DEF I!Begin, I!Goto, I!Job
<1>4. /\ doing'[c] = p /\ verdict'[c] = v /\ means'[c] = o
      /\ \A d \in Deliveries \ {c} : /\ doing'[d] = doing[d] /\ verdict'[d] = verdict[d]
                                     /\ means'[d] = means[d]
  BY <1>1, <1>2, <1>3 DEF IngestTypes
<1>5. IngestTypes'
  BY <1>1, <1>2, <1>3 DEF IngestTypes, Whereabouts, Verdicts
<1>6. Sourced' /\ Onwards
  BY <1>1, <1>2 DEF Sourced, Onwards
<1>7. brought[c] = {} /\ rejected[c] = {} /\ wrote[c] = {}
  BY <1>1, <1>2 DEF Delivery, Fresh, Begins
<1>8. Delivery(c)'
  BY <1>2, <1>3, <1>4, <1>7 DEF Delivery, Fresh, Begins, Going, Over, Indexed, Unstored
<1>9. \A d \in Deliveries \ {c} : UNCHANGED OfCall(d)
  BY <1>2, <1>4 DEF OfCall
<1> QED
  BY <1>5, <1>6, <1>8, <1>9, OneCall

LEMMA AcquireStep ==
  ASSUME DocumentInv, NEW c \in Deliveries, I!Acquire(c)
  PROVE  DocumentInv'
<1>1. IngestTypes /\ Delivery(c) /\ Sourced
  BY DEF DocumentInv
<1>2. /\ doing[c] = "brought"
      /\ UNCHANGED <<arrived, means, brought, rejected, wrote, stored, unreadable>>
  BY DEF I!Acquire, I!disk
<1>3. Begins(c)
  BY <1>2 DEF Begins
<1>4. CASE I!Fails(c) /\ UNCHANGED queue
  BY <1>2, <1>3, <1>4, FailsStep
<1>5. CASE /\ queue' = [queue EXCEPT ![c] = I!Brings(means[c])]
           /\ I!Goto(c, "writing") /\ UNCHANGED verdict
  <2>1. means[c] \in I!Operations /\ I!Brings(means[c]) \in Seq(I!Paths)
    BY <1>1, BringsIs DEF IngestTypes
  <2>2. /\ doing'[c] = "writing" /\ queue'[c] = I!Brings(means[c])
        /\ \A d \in Deliveries \ {c} : doing'[d] = doing[d] /\ queue'[d] = queue[d]
    BY <1>1, <1>5 DEF IngestTypes, I!Goto
  <2>3. IngestTypes'
    BY <1>1, <1>2, <1>5, <2>1 DEF IngestTypes, I!Goto, Whereabouts
  <2>4. Sourced' /\ Onwards
    BY <1>1, <1>2 DEF Sourced, Onwards
  <2>5. /\ brought[c] = {} /\ wrote[c] = {}
        /\ verdict[c] \notin {"succeeded", "partial", "failed"}
    BY <1>1, <1>3 DEF Delivery, Fresh
  <2>6. Delivery(c)'
    BY <1>2, <1>5, <2>2, <2>5
    DEF Delivery, Fresh, Begins, Going, Over, Indexed, Unstored, Bringing
  <2>7. \A d \in Deliveries \ {c} : UNCHANGED OfCall(d)
    BY <1>2, <1>5, <2>2 DEF OfCall
  <2> QED
    BY <2>3, <2>4, <2>6, <2>7, OneCall
<1> QED
  BY <1>4, <1>5 DEF I!Acquire

\* A call that wrote nothing fails; one that had nothing refused succeeds only
\* when all it brought was accepted.
LEMMA EndStep ==
  ASSUME DocumentInv, NEW c \in Deliveries, I!End(c)
  PROVE  DocumentInv'
<1>1. IngestTypes /\ Delivery(c) /\ Sourced
  BY DEF DocumentInv
<1>2. /\ doing[c] = "writing" /\ queue[c] = <<>>
      /\ doing' = [doing EXCEPT ![c] = "over"]
      /\ UNCHANGED <<arrived, means, queue, brought, rejected, wrote, stored, unreadable>>
  BY DEF I!End, I!Goto, I!disk, I!call
<1>3. CASE UNCHANGED verdict
  BY <1>2, <1>3, GoesThere DEF Whereabouts
<1>4. CASE verdict' = [verdict EXCEPT ![c] = I!Outcome(c)]
  <2>1. /\ doing'[c] = "over" /\ verdict'[c] = I!Outcome(c)
        /\ \A d \in Deliveries \ {c} : doing'[d] = doing[d] /\ verdict'[d] = verdict[d]
    BY <1>1, <1>2, <1>4 DEF IngestTypes
  <2>2. I!Outcome(c) \in Verdicts
    BY DEF I!Outcome, Verdicts
  <2>3. IngestTypes'
    BY <1>1, <1>2, <1>4, <2>2 DEF IngestTypes, Whereabouts
  <2>4. Sourced' /\ Onwards
    BY <1>1, <1>2 DEF Sourced, Onwards
  <2>5. I!Range(queue[c]) = {}
    BY <1>2 DEF I!Range
  <2>6. rejected[c] = {} => brought[c] = Bringing(means[c])
    BY <1>1, <1>2, <2>5 DEF Delivery, Going
  <2>7. Over(c)'
    BY <1>1, <1>2, <2>1, <2>6 DEF Delivery, Over, Indexed, I!Outcome
  <2>8. Delivery(c)'
    BY <1>1, <1>2, <2>1, <2>7 DEF Delivery, Fresh, Begins, Going, Indexed, Unstored
  <2>9. \A d \in Deliveries \ {c} : UNCHANGED OfCall(d)
    BY <1>2, <2>1 DEF OfCall
  <2> QED
    BY <2>3, <2>4, <2>8, <2>9, OneCall
<1> QED
  BY <1>3, <1>4 DEF I!End, I!Finish, I!Job

\* One file written, accepted or refused.
LEMMA WriteStep ==
  ASSUME I!Assumptions, DocumentInv, NEW c \in Deliveries, I!Write(c)
  PROVE  DocumentInv'
<1> DEFINE x     == Head(queue[c])
           stops == stopped[c] /\ means[c] = "adapter"
           lands == I!Installs(c, x) /\ ~stops
           fails == stops \/ I!Errs(c, x)
           Others == Deliveries \ {c}
<1>1. IngestTypes /\ Delivery(c) /\ Sourced
  BY DEF DocumentInv
<1>2. /\ doing[c] = "writing" /\ queue[c] # <<>>
      /\ UNCHANGED <<doing, means, verdict, unreadable>>
  BY DEF I!Write, I!job
<1>3. /\ queue[c] \in Seq(I!Paths) /\ x \in I!Paths /\ Tail(queue[c]) \in Seq(I!Paths)
      /\ I!Range(queue[c]) = {x} \cup I!Range(Tail(queue[c]))
  BY <1>1, <1>2, HeadAndTail DEF IngestTypes
<1>4. IF lands
      THEN /\ arrived' = [arrived EXCEPT ![x] = c]
           /\ wrote' = [wrote EXCEPT ![c] = wrote[c] \cup {x}]
           /\ stored' = IF x = I!Original THEN stored \cup {c} ELSE stored
      ELSE UNCHANGED <<arrived, wrote, stored>>
  BY DEF I!Write, I!disk
<1>5. IF fails
      THEN /\ rejected' = [rejected EXCEPT ![c] = rejected[c] \cup {x}]
           /\ queue' = [queue EXCEPT ![c] = I!Rest(c, x)]
           /\ UNCHANGED brought
      ELSE /\ brought' = [brought EXCEPT ![c] = brought[c] \cup {x}]
           /\ queue' = [queue EXCEPT ![c] = Tail(queue[c])]
           /\ UNCHANGED rejected
  BY DEF I!Write
<1>6. I!Rest(c, x) \in {<<>>, Tail(queue[c])} /\ (x = I!Original => I!Rest(c, x) = <<>>)
  BY DEF I!Rest
<1>7. lands => /\ arrived[x] # c /\ arrived[x] = replaceable[c][x]
               /\ (fails => unreadable)
  BY DEF I!Installs, I!Errs, I!Refuses
<1>8. ~lands /\ ~fails => arrived[x] = c
  BY DEF I!Installs, I!Errs, I!Refuses
<1>9. c \in Nat
  BY DEF I!Assumptions
<1> HIDE DEF x, lands, fails, stops
<1>10. /\ IF lands THEN wrote'[c] = wrote[c] \cup {x} ELSE wrote'[c] = wrote[c]
       /\ \A d \in Others : wrote'[d] = wrote[d]
       /\ lands => arrived'[x] = c
       /\ \A y \in I!Paths : y # x \/ ~lands => arrived'[y] = arrived[y]
  BY <1>1, <1>3, <1>4 DEF IngestTypes
<1>11. /\ IF fails THEN /\ rejected'[c] = rejected[c] \cup {x} /\ brought'[c] = brought[c]
                        /\ queue'[c] = I!Rest(c, x)
                   ELSE /\ rejected'[c] = rejected[c] /\ brought'[c] = brought[c] \cup {x}
                        /\ queue'[c] = Tail(queue[c])
       /\ \A d \in Others : /\ rejected'[d] = rejected[d] /\ brought'[d] = brought[d]
                            /\ queue'[d] = queue[d]
  BY <1>1, <1>5 DEF IngestTypes
<1>12. IngestTypes'
  <2>1. arrived' \in [I!Paths -> Nat]
    BY <1>1, <1>3, <1>4, <1>9 DEF IngestTypes
  <2>0. /\ wrote[c] \cup {x} \in SUBSET I!Paths /\ brought[c] \cup {x} \in SUBSET I!Paths
        /\ rejected[c] \cup {x} \in SUBSET I!Paths
    BY <1>1, <1>3 DEF IngestTypes
  <2>2. wrote' \in [Deliveries -> SUBSET I!Paths] /\ stored' \subseteq Deliveries
    BY <1>1, <1>4, <2>0 DEF IngestTypes
  <2>3. I!Rest(c, x) \in Seq(I!Paths)
    <3>1. <<>> \in Seq(I!Paths)
      OBVIOUS
    <3> QED
      BY <1>3, <1>6, <3>1
  <2>4. queue' \in [Deliveries -> Seq(I!Paths)]
    BY <1>1, <1>3, <1>5, <2>3 DEF IngestTypes
  <2>5. /\ brought' \in [Deliveries -> SUBSET I!Paths]
        /\ rejected' \in [Deliveries -> SUBSET I!Paths]
    BY <1>1, <1>5, <2>0 DEF IngestTypes
  <2> QED
    BY <1>1, <1>2, <2>1, <2>2, <2>4, <2>5 DEF IngestTypes
<1>13. Onwards
  BY <1>2, <1>4 DEF Onwards
<1>14. Sourced'
  <2>1. I!Original \in I!Paths
    BY DEF I!Paths
  <2>2. CASE lands /\ x = I!Original
    BY <1>4, <1>10, <2>1, <2>2, <1>1 DEF Sourced
  <2>3. CASE ~(lands /\ x = I!Original)
    BY <1>1, <1>10, <1>13, <2>1, <2>3 DEF Sourced, Onwards
  <2> QED
    BY <2>2, <2>3
<1>15. Fresh(c)'
  BY <1>2 DEF Fresh, Begins
<1>16. Going(c)'
  <2>1. rejected'[c] = {} => rejected[c] = {} /\ ~fails
    BY <1>11
  <2>2. rejected[c] = {} => brought[c] \cup I!Range(queue[c]) = Bringing(means[c])
    BY <1>1, <1>2 DEF Delivery, Going
  <2>3. rejected'[c] = {} => brought'[c] \cup I!Range(queue'[c]) = Bringing(means[c])
    BY <1>3, <1>11, <2>1, <2>2
  <2> QED
    BY <1>1, <1>2, <2>3 DEF Delivery, Going
<1>17. Over(c)'
  BY <1>1, <1>2 DEF Delivery, Going, Over
<1>18. Indexed(c)'
  BY <1>1, <1>2, <1>7, <1>10, <1>11 DEF Delivery, Indexed
<1>19. Unstored(c)'
  <2> SUFFICES ASSUME I!Original \in Bringing(means[c]), c \notin stored'
               PROVE  wrote'[c] \cap I!Documents = {} /\ queue'[c] = <<>>
    BY <1>2 DEF Unstored
  <2>1. c \notin stored
    BY <1>13 DEF Onwards
  <2>2. wrote[c] \cap I!Documents = {} /\ queue[c] = I!Brings(means[c])
    BY <1>1, <1>2, <2>1 DEF Delivery, Unstored
  <2>3. x = I!Original
    BY <1>1, <2>2, BringsIs DEF IngestTypes, x
  <2>4. ~lands
    BY <1>4, <2>3
  <2>5. fails
    BY <1>1, <1>8, <2>1, <2>3, <2>4 DEF Sourced
  <2> QED
    BY <1>6, <1>10, <1>11, <2>2, <2>3, <2>4, <2>5
<1>20. Delivery(c)'
  BY <1>15, <1>16, <1>17, <1>18, <1>19 DEF Delivery
<1>21. \A d \in Others : UNCHANGED OfCall(d)
  BY <1>2, <1>10, <1>11 DEF OfCall
<1> QED
  BY <1>12, <1>13, <1>14, <1>20, <1>21, OneCall

LEMMA EditStep == ASSUME DocumentInv, NEW y \in I!Paths, I!Assumptions, I!Edit(y)
                  PROVE  DocumentInv'
<1>1. /\ arrived' = [arrived EXCEPT ![y] = I!Edited]
      /\ UNCHANGED <<doing, means, queue, brought, rejected, verdict, wrote, stored, unreadable>>
  BY DEF I!Edit, I!call, I!job
<1>2. IngestTypes'
  BY <1>1 DEF DocumentInv, IngestTypes, I!Edited
<1>3. Sourced'
  <2>1. I!Original \in I!Paths /\ I!Edited \notin Deliveries
    BY DEF I!Paths, I!Assumptions
  <2> QED
    BY <1>1, <2>1 DEF DocumentInv, IngestTypes, Sourced
<1>4. ASSUME NEW c \in Deliveries PROVE Delivery(c)'
  BY <1>1, DeliveryStays DEF DocumentInv, OfCall, Onwards
<1> QED
  BY <1>2, <1>3, <1>4 DEF DocumentInv

LEMMA BreakStep == ASSUME DocumentInv,
         UNCHANGED <<arrived, doing, means, queue, brought, rejected, verdict, wrote, stored>>,
         unreadable => unreadable'
                   PROVE  DocumentInv'
<1>1. ASSUME NEW c \in Deliveries PROVE Delivery(c)'
  BY DeliveryStays DEF DocumentInv, OfCall, Onwards
<1> QED
  BY <1>1 DEF DocumentInv, IngestTypes, Sourced

\* Every step of a call or of what goes on around it.
LEMMA DocumentStep == ASSUME I!Assumptions, DocumentInv, [I!Next]_ingestVars PROVE DocumentInv'
<1>1. ASSUME NEW c \in Deliveries, I!Reply(c) PROVE DocumentInv'
  BY <1>1, GoesThere DEF I!Reply, I!Goto, I!job, I!disk, Begins, Whereabouts
<1>2. ASSUME NEW c \in Deliveries, I!ProcessFails(c) PROVE DocumentInv'
  BY <1>2, FailsStep DEF I!ProcessFails, I!call, I!disk, Begins
<1>3. ASSUME NEW c \in Deliveries, I!Heartbeat(c) PROVE DocumentInv'
  BY <1>3, GoesThere DEF I!Heartbeat, I!Goto, I!call, I!job, I!disk, Whereabouts
<1>4. ASSUME NEW c \in Deliveries, I!Check(c) PROVE DocumentInv'
  <2>1. /\ doing[c] = "replied"
        /\ UNCHANGED <<arrived, means, queue, brought, rejected, wrote, stored, unreadable>>
    BY <1>4 DEF I!Check, I!call, I!disk
  <2>2. CASE I!Fails(c)
    BY <2>1, <2>2, FailsStep DEF Begins
  <2>3. CASE UNCHANGED verdict /\ \E p \in {"over", "brought"} : I!Goto(c, p)
    BY <2>1, <2>3, GoesThere DEF I!Goto, Begins, Whereabouts
  <2> QED
    BY <1>4, <2>2, <2>3 DEF I!Check
<1>5. ASSUME NEW c \in Deliveries, I!Die(c) PROVE DocumentInv'
  <2>1. /\ doing' = [doing EXCEPT ![c] = "over"] /\ "over" \in Whereabouts
        /\ UNCHANGED <<arrived, means, queue, brought, rejected, wrote, stored, unreadable>>
    BY <1>5 DEF I!Die, I!Goto, I!call, I!disk, Whereabouts
  <2>2. CASE UNCHANGED verdict
    BY <2>1, <2>2, GoesThere
  <2>3. CASE verdict' = [verdict EXCEPT ![c] = "interrupted"]
    BY <2>1, <2>3, Steps DEF Verdicts
  <2> QED
    BY <1>5, <2>2, <2>3 DEF I!Die, I!Finish, I!Job
<1>6. ASSUME NEW c \in Deliveries, I!LoseJob(c) PROVE DocumentInv'
  <2>1. PICK s \in {"cancelled", "interrupted"} : verdict' = [verdict EXCEPT ![c] = s]
    BY <1>6 DEF I!LoseJob, I!Job
  <2>2. UNCHANGED <<arrived, doing, means, queue, brought, rejected, wrote, stored, unreadable>>
    BY <1>6 DEF I!LoseJob, I!call, I!disk
  <2>3. doing[c] \in Whereabouts /\ doing' = [doing EXCEPT ![c] = doing[c]] /\ s \in Verdicts
    BY <2>2 DEF DocumentInv, IngestTypes, Verdicts
  <2> QED
    BY <2>1, <2>2, <2>3, Steps
<1>7. ASSUME NEW c \in Deliveries, I!Cancel(c) PROVE DocumentInv'
  BY <1>7, BreakStep DEF I!Cancel, I!call, I!disk
<1>8. CASE I!Break
  BY <1>8, BreakStep DEF I!Break, I!call, I!job, I!disk
<1>9. CASE UNCHANGED ingestVars
  BY <1>9, BreakStep DEF ingestVars
<1> QED
  BY <1>1, <1>2, <1>3, <1>4, <1>5, <1>6, <1>7, <1>8, <1>9, BeginStep, AcquireStep, WriteStep,
     EndStep, EditStep DEF I!Next
=============================================================================
