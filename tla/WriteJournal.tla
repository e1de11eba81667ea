---------------------------- MODULE WriteJournal -----------------------------
(***************************************************************************)
(* Exact-byte compatibility writes: crates/llmbase-core/src/compat_io.rs   *)
(* and recover_journal_locked of recovery.rs.                              *)
(*                                                                         *)
(* A write with a library holds the writer lock, replays the journal, and  *)
(* takes the lock beside its destination before it commits a journal row;  *)
(* a standalone write takes only the lock beside the file.  Locks are tried *)
(* once and never waited for.  Both kinds replace the destination by a     *)
(* rename, without looking at it again.  Each write carries bytes of its   *)
(* own, so its number stands for them.                                     *)
(*                                                                         *)
(* refused, turn and edited are history variables.  FreesAll,              *)
(* ReplaceAnything, RecordFirst and RowFromJournal are mutants: plausible  *)
(* slips in the operator that follows each, used by no action.             *)
(***************************************************************************)
EXTENDS Naturals, Sequences, FiniteSets

CONSTANTS Files,     \* destinations under the configured roots
          Procs,     \* processes or threads that write
          Nobody,
          MaxWrites, MaxEdits  \* bounds on the run, for model checking only

\* Of the constants.
Assumptions == /\ Files # {} /\ Nobody \notin Procs
               /\ MaxWrites \in Nat /\ MaxEdits \in Nat

VARIABLES file,      \* the bytes of each file: the number of a write, or 0
          journal,   \* table write_journal, in the order committed
          writer,    \* who holds llmbase.writer.lock
          flock,     \* who holds the lock beside each file
          work,      \* what each process is doing
          begun,     \* number of writes begun
          edits,     \* number of edits by hand
          refused,   \* writes that returned Busy or Conflict
          turn,      \* writes in the order they took the lock of their file
          edited     \* files ever edited by hand

vars == <<file, journal, writer, flock, work, begun, edits, refused, turn, edited>>

Original == 0
Bytes    == 0..MaxWrites
Stages   == {"idle", "replay", "check", "reinstall", "note", "lock", "image",
             "record", "write", "ack"}
Entry    == [file : Files, before : Bytes, after : Bytes, applied : BOOLEAN]

Task(s, f, library, v) == [stage |-> s, file |-> f, library |-> library, value |-> v,
                           row |-> 0, before |-> Original]
AnyFile == CHOOSE f \in Files : TRUE
Idle    == Task("idle", AnyFile, FALSE, Original)

Pending == {k \in DOMAIN journal : ~journal[k].applied}

Init == /\ file = [f \in Files |-> Original]
        /\ journal = <<>>
        /\ writer = Nobody
        /\ flock = [f \in Files |-> Nobody]
        /\ work = [p \in Procs |-> Idle]
        /\ begun = 0 /\ edits = 0
        /\ refused = {} /\ turn = <<>> /\ edited = {}

At(p, s)   == work[p].stage = s
Go(p, s)   == work' = [work EXCEPT ![p].stage = s]
GoWithImage(p, s, b) == work' = [work EXCEPT ![p].stage = s, ![p].before = b]
GoToRow(p, s, k) == work' = [work EXCEPT ![p].stage = s, ![p].row = k]
FreesAll(p) == [f \in Files |-> Nobody]
FreedBy(p) == [f \in Files |-> IF flock[f] = p THEN Nobody ELSE flock[f]]

\* The call returns, or the process dies: its locks go with it.
Leave(p) == /\ work' = [work EXCEPT ![p] = Idle]
            /\ writer' = IF writer = p THEN Nobody ELSE writer
            /\ flock' = FreedBy(p)

Refuse(p) == Leave(p) /\ refused' = refused \cup ({work[p].value} \ {Original})

-----------------------------------------------------------------------------
\* atomic_write is called; with a library it takes the writer lock at once.
Begin(p, f, library) ==
    /\ At(p, "idle")
    /\ begun < MaxWrites
    /\ begun' = begun + 1
    /\ IF library /\ writer # Nobody
       THEN refused' = refused \cup {begun'} /\ UNCHANGED <<work, writer>>
       ELSE /\ work' = [work EXCEPT ![p] =
                           Task(IF library THEN "replay" ELSE "lock", f, library, begun')]
            /\ writer' = IF library THEN p ELSE writer
            /\ UNCHANGED refused
    /\ UNCHANGED <<file, journal, flock, edits, turn, edited>>

\* Library::open for anything else: it replays and is done.
Open(p) ==
    /\ At(p, "idle")
    /\ writer = Nobody
    /\ writer' = p
    /\ work' = [work EXCEPT ![p] = Task("replay", AnyFile, TRUE, Original)]
    /\ UNCHANGED <<file, journal, flock, begun, edits, refused, turn, edited>>

\* recover_journal_locked: the next pending row, under the lock of its file.
Replay(p) ==
    /\ At(p, "replay")
    /\ \/ /\ Pending = {}
          /\ IF work[p].value = Original THEN Leave(p)
             ELSE Go(p, "lock") /\ UNCHANGED <<writer, flock>>
          /\ UNCHANGED refused
       \/ \E k \in Pending :
             /\ \A l \in Pending : k <= l
             /\ IF flock[journal[k].file] # Nobody THEN Refuse(p)
                ELSE /\ flock' = [flock EXCEPT ![journal[k].file] = p]
                     /\ GoToRow(p, "check", k)
                     /\ UNCHANGED <<writer, refused>>
    /\ UNCHANGED <<file, journal, begun, edits, turn, edited>>

\* What the file may hold for the row to be installed again.
ReplaceAnything(k) == TRUE
MayReplace(k) == file[journal[k].file] = journal[k].before

Check(p) ==
    LET k == work[p].row
    IN  /\ At(p, "check")
        /\ IF file[journal[k].file] = journal[k].after
           THEN Go(p, "note") /\ UNCHANGED <<writer, flock, refused>>
           ELSE IF MayReplace(k)
           THEN Go(p, "reinstall") /\ UNCHANGED <<writer, flock, refused>>
           ELSE Refuse(p)
        /\ UNCHANGED <<file, journal, begun, edits, turn, edited>>

Reinstall(p) ==
    LET r == journal[work[p].row]
    IN  /\ At(p, "reinstall")
        /\ file' = [file EXCEPT ![r.file] = r.after]
        /\ Go(p, "note")
        /\ UNCHANGED <<journal, writer, flock, begun, edits, refused, turn, edited>>

Acknowledged(k) == [journal EXCEPT ![k].applied = TRUE]

Note(p) ==
    /\ At(p, "note")
    /\ journal' = Acknowledged(work[p].row)
    /\ flock' = FreedBy(p)
    /\ Go(p, "replay")
    /\ UNCHANGED <<file, writer, begun, edits, refused, turn, edited>>

RecordFirst(p) ==
    LET f == work[p].file
    IN  /\ At(p, "lock")
        /\ IF flock[f] # Nobody
           THEN /\ Refuse(p)
                /\ journal' = Append(journal, [file |-> f, before |-> file[f],
                                  after |-> work[p].value, applied |-> FALSE])
           ELSE /\ flock' = [flock EXCEPT ![f] = p]
                /\ Go(p, IF work[p].library THEN "image" ELSE "write")
                /\ UNCHANGED <<journal, writer, refused>>
        /\ UNCHANGED <<file, begun, edits, turn, edited>>

\* The lock beside the destination: Busy refuses the write.
Lock(p) ==
    LET f == work[p].file
    IN  /\ At(p, "lock")
        /\ IF flock[f] # Nobody THEN Refuse(p) /\ UNCHANGED turn
           ELSE /\ flock' = [flock EXCEPT ![f] = p]
                /\ turn' = Append(turn, work[p].value)
                /\ Go(p, IF work[p].library THEN "image" ELSE "write")
                /\ UNCHANGED <<writer, refused>>
        /\ UNCHANGED <<file, journal, begun, edits, edited>>

\* The before-image, read under the lock of the file.
Image(p) ==
    /\ At(p, "image")
    /\ GoWithImage(p, "record", file[work[p].file])
    /\ UNCHANGED <<file, journal, writer, flock, begun, edits, refused, turn, edited>>

RowFromJournal(p) ==
    LET earlier == {k \in DOMAIN journal : journal[k].file = work[p].file}
    IN  [file |-> work[p].file, after |-> work[p].value, applied |-> FALSE,
         before |-> IF earlier = {} THEN Original
                    ELSE journal[CHOOSE k \in earlier :
                                    \A l \in earlier : l <= k].after]
Row(p) == [file |-> work[p].file, before |-> work[p].before,
           after |-> work[p].value, applied |-> FALSE]

\* record_journal, committed before the destination is touched.
Record(p) ==
    /\ At(p, "record")
    /\ journal' = Append(journal, Row(p))
    /\ GoToRow(p, "write", Len(journal) + 1)
    /\ UNCHANGED <<file, writer, flock, begun, edits, refused, turn, edited>>

\* Stage, fsync, rename: the destination is not looked at again.
Write(p) ==
    /\ At(p, "write")
    /\ file' = [file EXCEPT ![work[p].file] = work[p].value]
    /\ IF work[p].library THEN Go(p, "ack") /\ UNCHANGED <<writer, flock>>
       ELSE Leave(p)
    /\ UNCHANGED <<journal, begun, edits, refused, turn, edited>>

Ack(p) ==
    /\ At(p, "ack")
    /\ journal' = Acknowledged(work[p].row)
    /\ Leave(p)
    /\ UNCHANGED <<file, begun, edits, refused, turn, edited>>

\* The process dies, or an I/O error is returned.
Crash(p) ==
    /\ ~At(p, "idle")
    /\ Leave(p)
    /\ UNCHANGED <<file, journal, begun, edits, refused, turn, edited>>

\* A person or a program that knows none of the locks writes the file.
Edit(f, b) ==
    /\ edits < MaxEdits
    /\ b \in 0..begun /\ b # file[f]
    /\ file' = [file EXCEPT ![f] = b]
    /\ edits' = edits + 1
    /\ edited' = edited \cup {f}
    /\ UNCHANGED <<journal, writer, flock, work, begun, refused, turn>>

Next ==
    \/ \E p \in Procs :
          \/ \E f \in Files, library \in BOOLEAN : Begin(p, f, library)
          \/ Open(p) \/ Replay(p) \/ Check(p) \/ Reinstall(p) \/ Note(p)
          \/ Lock(p) \/ Image(p) \/ Record(p) \/ Write(p) \/ Ack(p)
          \/ Crash(p)
    \/ \E f \in Files, b \in Bytes : Edit(f, b)

Spec == Init /\ [][Next]_vars

-----------------------------------------------------------------------------
(* Properties.                                                             *)

\* Types; a process holds what its step needs: the writer lock from the
\* replay to the end of a write with a library, the file's lock to replace it.
TypeOK ==
    /\ file \in [Files -> Bytes]
    /\ journal \in Seq(Entry)
    /\ writer \in Procs \cup {Nobody}
    /\ flock \in [Files -> Procs \cup {Nobody}]
    /\ work \in [Procs -> [stage : Stages, file : Files, library : BOOLEAN,
                           value : Bytes, row : Nat, before : Bytes]]
    /\ begun \in Bytes /\ edits \in Nat /\ refused \subseteq Bytes
    /\ turn \in Seq(Bytes) /\ edited \subseteq Files
    /\ \A p \in Procs :
          /\ work[p].library => writer = p
          /\ work[p].stage \in {"image", "record", "write", "ack"} =>
                flock[work[p].file] = p
          /\ work[p].stage \in {"check", "reinstall", "note"} =>
                flock[journal[work[p].row].file] = p

\* compat_io.rs: "a Busy refusal can never leave a new pending write that
\* later takes effect".  Nor does a refusal for a conflict met in the replay.
RefusedHasNoEffect ==
    /\ \A k \in DOMAIN journal : journal[k].after \notin refused
    /\ \A f \in Files \ edited : file[f] \notin refused

\* A file no hand has touched never goes back: neither a live write nor the
\* replay of a crashed one puts bytes over those of a write that took the
\* file's lock later, journaled or standalone.
Before(v, w) == \E i, j \in DOMAIN turn : i < j /\ turn[i] = v /\ turn[j] = w
NeverBackStep ==
    \A f \in Files \ edited' :
        file'[f] # file[f] =>
            file[f] = Original \/ Before(file[f], file'[f])
NeverBack == [][NeverBackStep]_vars

\* The before-image kept for audit and backup is what the write replaced,
\* though other writers come and go between the replay and the rename.
ImageIsReplacedStep ==
    \A p \in Procs :
        At(p, "write") /\ work[p].library /\ file' # file /\ edits' = edits
          /\ work[p].file \notin edited /\ work'[p].stage = "ack"
            => journal[work[p].row].before = file[work[p].file]
ImageIsReplaced == [][ImageIsReplacedStep]_vars

=============================================================================
