------------------------------- MODULE Ingest -------------------------------
(***************************************************************************)
(* Documents that come from outside: a configured adapter process and its  *)
(* job (crates/llmbase-core/src/plugins.rs), a fetched URL and a given     *)
(* text (crates/llmbase-core/src/ingest.rs).                               *)
(*                                                                         *)
(* A call brings an original and the documents made from it.  Each is      *)
(* written by compare and swap, one after another, under one writer        *)
(* session; a write is one step here, see SourceStore for its inside.      *)
(* Meanwhile editors write too, the caller cancels, and the job is         *)
(* cancelled or loses its lease, which nothing renews once the process has *)
(* ended.                                                                  *)
(*                                                                         *)
(* A file's content is the number of the call that brought it, 0 if there  *)
(* is no file, Edited if an editor wrote it.  wrote and stored are history *)
(* variables.  GoesOn and CountsAll are mutants.              *)
(***************************************************************************)
EXTENDS Naturals, Sequences, Functions

CONSTANTS Calls,      \* numbers from 1
          MaxEvents   \* bound on what editors and others do, for model checking

VARIABLES file,       \* of each path
          broken,     \* a file elsewhere does not parse, so sync fails
          lock,       \* the writer session: its call, or 0
          at, op,     \* of each call
          expected,   \* the content it may replace, by path
          todo,       \* the paths it has still to write
          accepted, failed,
          status,     \* its job
          cancel,     \* its token
          wrote,      \* what it has changed on disk
          stored,     \* the originals that were ever on disk
          events

job  == <<status, cancel>>
disk == <<file, wrote, stored>>
call == <<op, expected, todo, accepted, failed>>
vars == <<file, broken, lock, at, call, job, wrote, stored, events>>

Original  == "original"
Documents == {"d1", "d2"}
Paths     == Documents \cup {Original}
Edited    == 9

Operations == {"adapter", "url", "text", "existing"}

\* Assets come before documents.
Brings(o) == CASE o = "adapter" -> <<Original, "d1", "d2">>
               [] o = "url"     -> <<Original, "d1">>
               [] o \in {"text", "existing"} -> <<"d1">>

\* A call is told from what is not there and from what an editor wrote.
Assumptions == Calls \subseteq Nat \ {0, Edited}

Init == /\ file = [x \in Paths |-> 0] /\ broken = FALSE /\ lock = 0
        /\ at = [c \in Calls |-> "none"] /\ op = [c \in Calls |-> "text"]
        /\ expected = [c \in Calls |-> [x \in Paths |-> 0]]
        /\ todo = [c \in Calls |-> <<>>]
        /\ accepted = [c \in Calls |-> {}] /\ failed = [c \in Calls |-> {}]
        /\ status = [c \in Calls |-> "none"] /\ cancel = [c \in Calls |-> FALSE]
        /\ wrote = [c \in Calls |-> {}] /\ stored = {}
        /\ events = 0

Goto(c, place) == at' = [at EXCEPT ![c] = place]
Job(c, s)      == status' = [status EXCEPT ![c] = s]
Leased(c)      == status[c] = "running"

-----------------------------------------------------------------------------
\* A text comes with the hash that its caller reviewed; a file that is in the
\* library already is brought only where nothing is.
Expects(o) == IF o = "existing" THEN [x \in Paths |-> 0] ELSE file

\* The adapter's job is running from the start, and no worker can claim it.
Begin(c, o) ==
    /\ at[c] = "none" /\ status[c] = "none"
    /\ op' = [op EXCEPT ![c] = o]
    /\ IF o = "adapter" THEN Goto(c, "process") /\ Job(c, "running")
                        ELSE Goto(c, "brought") /\ Job(c, "no job")
    /\ expected' = [expected EXCEPT ![c] = Expects(o)]
    /\ UNCHANGED <<broken, lock, todo, accepted, failed, cancel, disk, events>>

\* The process replies with the hashes it was told, or ends, or runs out of its
\* time or its output.
Reply(c) ==
    /\ at[c] = "process"
    /\ expected' = [expected EXCEPT ![c] = file]
    /\ Goto(c, "replied")
    /\ UNCHANGED <<broken, lock, op, todo, accepted, failed, job, disk, events>>

\* finish_job, which is fenced by the lease; without it the job stays as it is.
Finish(c, s) == IF Leased(c) THEN Job(c, s) ELSE UNCHANGED status

Fails(c) == /\ Goto(c, "over")
            /\ \E s \in {"failed"} \cup IF cancel[c] THEN {"cancelled"} ELSE {} : Finish(c, s)

ProcessFails(c) ==
    /\ at[c] = "process"
    /\ Fails(c)
    /\ UNCHANGED <<broken, lock, call, cancel, disk, events>>

\* The heartbeat finds the job cancelled or the lease lost, and the child is
\* killed.
Heartbeat(c) ==
    /\ at[c] = "process" /\ ~Leased(c)
    /\ Goto(c, "over")
    /\ UNCHANGED <<broken, lock, call, job, disk, events>>

\* The job is looked at once more, the reply is validated as a whole, and the
\* token is looked at, all before anything is written.
Check(c) ==
    /\ at[c] = "replied"
    /\ IF status[c] = "cancelled" THEN Goto(c, "over") /\ UNCHANGED status
       ELSE IF cancel[c] THEN Fails(c)
       ELSE \/ Goto(c, "brought") /\ UNCHANGED status
            \/ Fails(c)
    /\ UNCHANGED <<broken, lock, call, cancel, disk, events>>

\* WriterSession::acquire: busy, or the session is this call's.  What a URL may
\* replace is what its paths hold now.
Acquire(c) ==
    /\ at[c] = "brought"
    /\ IF lock # 0 \/ (op[c] = "url" /\ cancel[c])
       THEN Fails(c) /\ UNCHANGED <<lock, expected, todo>>
       ELSE /\ lock' = c
            /\ expected' = IF op[c] = "url" THEN [expected EXCEPT ![c] = file] ELSE expected
            /\ todo' = [todo EXCEPT ![c] = Brings(op[c])]
            /\ Goto(c, "writing") /\ UNCHANGED status
    /\ UNCHANGED <<broken, op, accepted, failed, cancel, disk, events>>

-----------------------------------------------------------------------------
\* What was already accepted is accepted again.
Installs(c, x) == file[x] # c /\ file[x] = expected[c][x]
Refuses(c, x)  == file[x] # c /\ file[x] # expected[c][x]

\* The file is installed, and a document is indexed; the index may fail after.
Errs(c, x) == Refuses(c, x) \/ (x # Original /\ broken)

\* Without its original no document is written; a document that fails leaves
\* the others their turn.
GoesOn(c, x) == Tail(todo[c])
Rest(c, x)   == IF x = Original \/ op[c] # "adapter" THEN <<>> ELSE Tail(todo[c])

Write(c) ==
    /\ at[c] = "writing" /\ todo[c] # <<>>
    /\ LET x == Head(todo[c])
           stops == cancel[c] /\ op[c] = "adapter"
       IN  /\ IF Installs(c, x) /\ ~stops
              THEN /\ file' = [file EXCEPT ![x] = c]
                   /\ wrote' = [wrote EXCEPT ![c] = @ \cup {x}]
                   /\ stored' = IF x = Original THEN stored \cup {c} ELSE stored
              ELSE UNCHANGED disk
           /\ IF stops \/ Errs(c, x)
              THEN /\ failed' = [failed EXCEPT ![c] = @ \cup {x}]
                   /\ todo' = [todo EXCEPT ![c] = Rest(c, x)]
                   /\ UNCHANGED accepted
              ELSE /\ accepted' = [accepted EXCEPT ![c] = @ \cup {x}]
                   /\ todo' = [todo EXCEPT ![c] = Tail(@)]
                   /\ UNCHANGED failed
    /\ UNCHANGED <<broken, lock, at, op, expected, job, events>>

\* Nothing accepted is an error, something refused a partial success.
CountsAll(c) == IF accepted[c] = {} THEN "failed" ELSE "succeeded"
Outcome(c)   == IF accepted[c] = {} THEN "failed"
                ELSE IF failed[c] # {} THEN "partial" ELSE "succeeded"

End(c) ==
    /\ at[c] = "writing" /\ todo[c] = <<>>
    /\ lock' = 0
    /\ Goto(c, "over")
    /\ Finish(c, Outcome(c))
    /\ UNCHANGED <<broken, call, cancel, disk, events>>

\* The server dies; the lease runs out.
Die(c) ==
    /\ at[c] \notin {"none", "over"} /\ events < MaxEvents
    /\ events' = events + 1
    /\ Goto(c, "over")
    /\ lock' = IF lock = c THEN 0 ELSE lock
    /\ Finish(c, "interrupted")
    /\ UNCHANGED <<broken, call, cancel, disk>>

-----------------------------------------------------------------------------
(* Editors, callers and other workers.                                     *)

Happens == events < MaxEvents /\ events' = events + 1

Edit(x) == /\ Happens
           /\ file[x] # Edited
           /\ file' = [file EXCEPT ![x] = Edited]
           /\ UNCHANGED <<broken, lock, at, call, job, wrote, stored>>

Break == /\ Happens
         /\ broken' = TRUE
         /\ UNCHANGED <<lock, at, call, job, disk>>

Cancel(c) == /\ Happens
             /\ at[c] \notin {"none", "over"} /\ ~cancel[c]
             /\ cancel' = [cancel EXCEPT ![c] = TRUE]
             /\ UNCHANGED <<broken, lock, at, call, status, disk>>

\* cancel_job, or a claim that finds the lease expired.
LoseJob(c) == /\ Happens
              /\ Leased(c)
              /\ \E s \in {"cancelled", "interrupted"} : Job(c, s)
              /\ UNCHANGED <<broken, lock, at, call, cancel, disk>>

Next == \/ \E c \in Calls : \/ \E o \in Operations : Begin(c, o)
                            \/ Reply(c) \/ ProcessFails(c) \/ Heartbeat(c) \/ Check(c)
                            \/ Acquire(c) \/ Write(c) \/ End(c) \/ Die(c)
                            \/ Cancel(c) \/ LoseJob(c)
        \/ \E x \in Paths : Edit(x)
        \/ Break

Spec == Init /\ [][Next]_vars

-----------------------------------------------------------------------------
(* Properties.                                                             *)

\* plugins.md: "Partial concurrent conflicts return a partial job with accepted
\* and failed documents; they never report an empty success."  A job that
\* succeeded brought all, a partial one some and not all, and one that failed
\* changed nothing, unless the index could not be brought up to date.
JobIsHonest ==
    \A c \in Calls :
        /\ status[c] = "succeeded" => accepted[c] = Range(Brings(op[c]))
        /\ status[c] = "partial"   => accepted[c] # {} /\ failed[c] # {}
        /\ status[c] = "failed"    => wrote[c] = {} \/ broken

\* Of a document that was written, the original it names by its hash was stored
\* before; a reader may find another there, never none.
OriginalIsStored ==
    \A c \in Calls : Original \in Range(Brings(op[c])) /\ wrote[c] \cap Documents # {}
                     => c \in stored

=============================================================================
