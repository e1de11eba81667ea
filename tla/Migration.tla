------------------------------ MODULE Migration ------------------------------
(***************************************************************************)
(* Copy-first migration, backup and restore: inspect, copy_first, backup,  *)
(* verify_copy and restore of crates/llmbase-core/src/migration.rs.        *)
(*                                                                         *)
(* One process copies, from the original into a snapshot and from the      *)
(* snapshot into a new place.  It may die, and be run again, at any step.  *)
(* Files are read one by one while editors write, and while other native   *)
(* processes open the libraries whose writer lock is free: the copier has  *)
(* the source's only where there was a lock file when it began.            *)
(*                                                                         *)
(* A database is told apart by its version: it carries write intents and   *)
(* projection batches that a dead process left pending.  The files named   *)
(* by earlier receipts and configurations are files like the others.       *)
(* touched and stirred are history variables.                              *)
(*                                                                         *)
(* InspectsOnce, ClaimsLate and TrustsSnapshots are mutants.               *)
(***************************************************************************)
EXTENDS Naturals

CONSTANTS Places, Original, Snapshot, Restored,
          LastFile,     \* files are 1..LastFile, in the order they are listed
          None,
          MaxEvents, MaxRuns  \* bounds, for model checking only

VARIABLES file,     \* contents, 0 where there is no file
          db,       \* the native databases
          receipt,  \* migration-receipt.json
          at, from, to,  \* where the copier stands
          k,        \* the next file
          listed,   \* the files that mapped_files found
          seen,     \* source_manifest
          locked,   \* the copier has the writer lock of the source
          touched,  \* places others changed since a copy into them began
          stirred,  \* how often a source's file was changed meanwhile
          events, runs

copier  == <<from, to, k, listed, seen, locked>>
history == <<touched, stirred>>
bounds  == <<events, runs>>
vars    == <<file, db, receipt, at, copier, history, bounds>>

Names     == 1..LastFile
Generated == LastFile      \* rewritten when a pending batch is replayed
Texts     == 1..2
Replayed  == 3             \* what a batch makes of it
Targets   == {Snapshot, Restored}
SourceOf  == [t \in Targets |-> IF t = Snapshot THEN Original ELSE Snapshot]

NoFiles    == [n \in Names |-> 0]
NoDatabase == [made |-> FALSE, version |-> 0, intent |-> FALSE, batch |-> FALSE]

\* What an inspection finds; and what a receipt says.
Manifests == [file : [Names -> 0..Replayed],
              db : [made : BOOLEAN, version : Nat, intent : BOOLEAN, batch : BOOLEAN]]
Receipts  == [state : {"copying", "complete"}, manifest : Manifests,
              records : Manifests \cup {None}]
Assumptions == LastFile \in Nat \ {0} /\ None \notin Receipts

Records(p) == [file |-> file[p], db |-> db[p]]
Complete(p) == receipt[p] # None /\ receipt[p].state = "complete"

Init ==
    /\ file = [p \in Places |-> IF p = Original THEN [n \in Names |-> 1] ELSE NoFiles]
    /\ \E d \in {NoDatabase, [NoDatabase EXCEPT !.made = TRUE]} :
          db = [p \in Places |-> IF p = Original THEN d ELSE NoDatabase]
    /\ receipt = [p \in Places |-> None]
    /\ at = "idle" /\ from = None /\ to = None /\ k = 1 /\ listed = {} /\ seen = None
    /\ locked = FALSE /\ touched = {}
    /\ stirred = [t \in Targets |-> [n \in Names |-> 0]]
    /\ events = 0 /\ runs = 0

-----------------------------------------------------------------------------
(* The copier.                                                             *)

\* verify_copy: the receipt is complete, the files are those it records and
\* the database is there.
Verified(p) == /\ Complete(p) /\ db[p].made
               /\ Records(p) = receipt[p].records

\* restore verifies the snapshot, then copies from it like any library.
TrustsSnapshots(t) == TRUE
MayCopy(t) == t = Restored => Verified(Snapshot)

Start(t) ==
    /\ at = "idle" /\ runs < MaxRuns
    /\ MayCopy(t)
    /\ at' = "lock" /\ from' = SourceOf[t] /\ to' = t
    /\ runs' = runs + 1
    /\ UNCHANGED <<file, db, receipt, k, listed, seen, locked, history, events>>

\* mapped_files.
List == /\ listed' = {n \in Names : file[from][n] # 0}
        /\ k' = 1

\* existing_lock: no lock file, no lock.
Lock ==
    /\ at = "lock"
    /\ locked' = db[from].made
    /\ List
    /\ seen' = [file |-> NoFiles, db |-> NoDatabase]
    /\ stirred' = IF receipt[to] = None THEN [stirred EXCEPT ![to] = NoFiles] ELSE stirred
    /\ at' = "inspect"
    /\ UNCHANGED <<file, db, receipt, from, to, touched, bounds>>

Idle == /\ at' = "idle" /\ from' = None /\ to' = None
        /\ k' = 1 /\ listed' = {} /\ seen' = None /\ locked' = FALSE

\* What was listed and is gone is an error.
Readable == k \in listed => file[from][k] # 0

Inspect ==
    /\ at = "inspect" /\ k \in Names /\ Readable
    /\ seen' = [seen EXCEPT !.file[k] = IF k \in listed THEN file[from][k] ELSE 0]
    /\ k' = k + 1
    /\ UNCHANGED <<file, db, receipt, at, from, to, listed, locked, history, bounds>>

InspectDatabase ==
    /\ at = "inspect" /\ k \notin Names
    /\ seen' = [seen EXCEPT !.db = db[from]]
    /\ at' = "claim"
    /\ UNCHANGED <<file, db, receipt, from, to, k, listed, locked, history, bounds>>

\* A target is new and empty, or it bears the receipt of this very copy.
ClaimsLate == UNCHANGED receipt
WriteReceipt == receipt' = [receipt EXCEPT ![to] =
                     [state |-> "copying", manifest |-> seen, records |-> None]]

Claim ==
    /\ at = "claim"
    /\ IF receipt[to] = None
       THEN file[to] = NoFiles /\ ~db[to].made /\ WriteReceipt
       ELSE /\ receipt[to].manifest = seen /\ ~Complete(to)
            /\ UNCHANGED receipt
    /\ List
    /\ at' = "copy"
    /\ UNCHANGED <<file, db, from, to, seen, locked, history, bounds>>

Copy ==
    /\ at = "copy" /\ k \in Names /\ Readable
    /\ IF k \in listed
       THEN /\ file[to][k] \in {0, file[from][k]}
            /\ file' = [file EXCEPT ![to][k] = file[from][k]]
       ELSE UNCHANGED file
    /\ k' = k + 1
    /\ UNCHANGED <<db, receipt, at, from, to, listed, seen, locked, history, bounds>>

\* SQLite's backup, renamed over what an earlier attempt left.
CopyDatabase ==
    /\ at = "copy" /\ k \notin Names
    /\ IF db[from].made THEN ~db[from].intent /\ db' = [db EXCEPT ![to] = db[from]]
                        ELSE UNCHANGED db
    /\ List
    /\ at' = "again"
    /\ UNCHANGED <<file, receipt, from, to, seen, locked, history, bounds>>

\* The second inspection must find what the first one found.
InspectsOnce(n) == TRUE
Unchanged(n) == seen.file[n] = IF n \in listed THEN file[from][n] ELSE 0

InspectAgain ==
    /\ at = "again" /\ k \in Names /\ Readable
    /\ Unchanged(k)
    /\ k' = k + 1
    /\ UNCHANGED <<file, db, receipt, at, from, to, listed, seen, locked, history, bounds>>

InspectDatabaseAgain ==
    /\ at = "again" /\ k \notin Names
    /\ db[from] = seen.db
    /\ at' = "open"
    /\ UNCHANGED <<file, db, receipt, copier, history, bounds>>

\* Library::open replays what is pending in the copied database, into the copy.
Open ==
    /\ at = "open"
    /\ db' = [db EXCEPT ![to].made = TRUE, ![to].batch = FALSE]
    /\ file' = IF db[to].batch THEN [file EXCEPT ![to][Generated] = Replayed] ELSE file
    /\ at' = "seal"
    /\ UNCHANGED <<receipt, copier, history, bounds>>

Seal ==
    /\ at = "seal"
    /\ receipt' = [receipt EXCEPT ![to].state = "complete", ![to].records = Records(to)]
    /\ Idle
    /\ UNCHANGED <<file, db, history, bounds>>

\* A check failed, an error was returned, or the process died.
Stop ==
    /\ at # "idle"
    /\ Idle
    /\ UNCHANGED <<file, db, receipt, history, bounds>>

-----------------------------------------------------------------------------
(* Editors and native processes.                                           *)

Stir(p, n) ==
    /\ touched' = touched \cup {p}
    /\ stirred' = [t \in Targets |-> [m \in Names |->
          IF m = n /\ SourceOf[t] = p /\ ~Complete(t) /\ stirred[t][m] < 2
          THEN stirred[t][m] + 1 ELSE stirred[t][m]]]

Edit(p, n, text) ==
    /\ events < MaxEvents /\ text # file[p][n]
    /\ file' = [file EXCEPT ![p][n] = text]
    /\ Stir(p, n)
    /\ events' = events + 1
    /\ UNCHANGED <<db, receipt, at, copier, runs>>

\* A native process opens the library, writes and ends, or dies with an intent
\* or a batch pending.
Use(p, intent, batch) ==
    /\ events < MaxEvents
    /\ ~(locked /\ from = p)
    /\ db' = [db EXCEPT ![p] = [made |-> TRUE, version |-> db[p].version + 1,
                                intent |-> intent, batch |-> batch]]
    /\ file' = IF db[p].batch THEN [file EXCEPT ![p][Generated] = Replayed] ELSE file
    /\ IF db[p].batch THEN Stir(p, Generated) ELSE touched' = touched \cup {p} /\ UNCHANGED stirred
    /\ events' = events + 1
    /\ UNCHANGED <<receipt, at, copier, runs>>

\* A handle that was open before the copier took the lock commits to the ledger of
\* jobs, which needs no writer lock.
Commit(p) ==
    /\ events < MaxEvents /\ db[p].made
    /\ db' = [db EXCEPT ![p].version = @ + 1]
    /\ touched' = touched \cup {p}
    /\ events' = events + 1
    /\ UNCHANGED <<file, receipt, at, copier, stirred, runs>>

Next == \/ \E t \in Targets : Start(t)
        \/ Lock \/ Inspect \/ InspectDatabase \/ Claim \/ Copy \/ CopyDatabase
        \/ InspectAgain \/ InspectDatabaseAgain \/ Open \/ Seal \/ Stop
        \/ \E p \in Places, n \in Names, text \in Texts \cup {0} : Edit(p, n, text)
        \/ \E p \in Places, intent, batch \in BOOLEAN : Use(p, intent, batch)
        \/ \E p \in Places : Commit(p)

Spec == Init /\ [][Next]_vars

-----------------------------------------------------------------------------
(* Properties.                                                             *)

Untouched(t) == t \notin touched

\* architecture.md: "Original source changes during copying reject acceptance."
\* A copy that nobody else touched and whose receipt is complete holds the
\* files and the database of its manifest, but for a file that was changed and
\* changed back, and for the generated file of a batch that was pending.
CompleteIsWhole ==
    \A t \in Targets : Complete(t) /\ Untouched(t) =>
        LET wanted == receipt[t].manifest
        IN  /\ \A n \in Names :
                  \/ file[t][n] = wanted.file[n]
                  \/ stirred[t][n] > 1
                  \/ n = Generated /\ wanted.db.batch
            /\ wanted.db.made => db[t].version = wanted.db.version

\* What was restored is what its snapshot recorded, and the snapshot was whole.
RestoredIsRecorded ==
    Complete(Restored) /\ {Snapshot, Restored} \cap touched = {} =>
        /\ Complete(Snapshot)
        /\ file[Restored] = receipt[Snapshot].records.file

\* A copy cut short bears a receipt, so that it can be taken up again and is
\* never taken for somebody's library.
BegunIsClaimed ==
    \A t \in Targets : Untouched(t) /\ (file[t] # NoFiles \/ db[t].made) => receipt[t] # None

CopiesAreWhole == CompleteIsWhole /\ RestoredIsRecorded /\ BegunIsClaimed

=============================================================================
