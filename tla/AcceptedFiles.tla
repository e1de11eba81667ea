---------------------------- MODULE AcceptedFiles ----------------------------
(***************************************************************************)
(* What llmbase promises about the files of a library, whoever crashes and *)
(* whenever: an accepted write, delete or rename takes effect at once and  *)
(* as a whole, from the content it was accepted against, and nothing else  *)
(* the program does changes a file.  An editor outside the program may     *)
(* change any file at any time; while the last accepted operation is not   *)
(* settled, it may be asserted again over such an edit of its own file,    *)
(* and over nothing else.  The module SourceStore implements this contract *)
(* with a write intent in SQLite, staged files and replay.                 *)
(***************************************************************************)
EXTENDS Naturals, Sequences

CONSTANTS Paths,    \* the files of the library
          Contents, \* what a file may hold
          Absent    \* the file does not exist

VARIABLES view,     \* what each file holds once accepted work is carried out
          log,      \* the operations accepted so far, oldest first
          settled,  \* whether the last of them needs no more work
          touched   \* files edited from outside since the last one was accepted

acceptedVars == <<view, log, settled, touched>>

(***************************************************************************)
(* An operation: `path` is the file it was asked about, `target` the file  *)
(* that receives `content` (the destination of a rename, `path` itself     *)
(* otherwise), `expected` what `path` held when it was accepted.           *)
(***************************************************************************)
Operation ==
    [op : {"write", "write_asset", "delete", "rename"},
     path : Paths, target : Paths,
     expected : Contents \cup {Absent}, content : Contents \cup {Absent}]

Removes(i) == i.op \in {"delete", "rename"}
Installs(i) == i.op # "delete"

\* What a file holds after the operation.
Outcome(i, p, before) ==
    IF Installs(i) /\ p = i.target THEN i.content
    ELSE IF Removes(i) /\ p = i.path THEN Absent
    ELSE before

-----------------------------------------------------------------------------

AcceptedInit ==
    /\ view \in [Paths -> Contents \cup {Absent}]
    /\ log = <<>>
    /\ settled = TRUE
    /\ touched = {}

Accept ==
    /\ settled /\ settled' = FALSE
    /\ \E i \in Operation :
          /\ log' = Append(log, i)
          /\ view[i.path] = i.expected
          /\ i.op = "rename" => view[i.target] = Absent
          /\ view' = [p \in Paths |-> Outcome(i, p, view[p])]
    /\ touched' = {}

Settle ==
    /\ ~settled
    /\ settled' = TRUE
    /\ UNCHANGED <<view, log, touched>>

Edit(edited) ==
    /\ view' \in [Paths -> Contents \cup {Absent}]
    /\ \A p \in Paths \ edited : view'[p] = view[p]
    /\ touched' = touched \cup edited
    /\ UNCHANGED <<log, settled>>

Reassert(p) ==
    /\ ~settled
    /\ p \in touched
    /\ view' = [view EXCEPT ![p] = Outcome(log[Len(log)], p, view[p])]
    /\ UNCHANGED <<log, settled, touched>>

AcceptedNext ==
    \/ Accept
    \/ Settle
    \/ \E edited \in SUBSET Paths : Edit(edited)
    \/ \E p \in Paths : Reassert(p)

AcceptedSpec == AcceptedInit /\ [][AcceptedNext]_acceptedVars

=============================================================================
