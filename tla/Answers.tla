------------------------------ MODULE Answers ------------------------------
(***************************************************************************)
(* crates/llmbase-core/src/answers.rs: an answer is saved as a note and    *)
(* bound to it in saved_answers; a saved answer is judged by the model and *)
(* may become a draft article, which apply_draft of compile.rs accepts.    *)
(*                                                                         *)
(* The calls run side by side and may die between any two of their steps;  *)
(* people change and delete files all the while.  Only the guarded writes  *)
(* hold the writer lock, and end by indexing every file; every other step  *)
(* here is a reading or a single statement.  A text is its visibility flag *)
(* and which edit it is from, equal when its hash is.  An answer is what   *)
(* it cites and the visibility asked for it; its id stands for its text.   *)
(* The job of a promotion is JobLedger's; here it may fail.                *)
(*                                                                         *)
(* NoGuards and RanksTheNote are mutants.                                  *)
(***************************************************************************)
EXTENDS Naturals, FiniteSets, Sequences

CONSTANTS Sources, Flags,      \* what a file may say of its visibility
          Answers,             \* [cites : SUBSET (Sources \X Nat), visibility : 0..2]
          Calls,               \* calls under way at the same time
          None, MaxEdits, MaxCalls

VARIABLES file, row, past,     \* the sources, their rows and revisions
          note, noteRow,       \* the note of each answer, and its row
          saved,               \* saved_answers: the revision of the note, or None
          drafts, receipts,    \* by key: the draft, the judgement
          target,              \* the article a promotion is about
          at, call, seen,      \* of each call: the step, what for, what it read
          edits, calls         \* bounds on the run

sources == <<file, row, past>>
notes   == <<note, noteRow>>
vars    == <<sources, notes, saved, drafts, receipts, target, at, call, seen,
             edits, calls>>

Text(flag, n) == [flag |-> flag, edit |-> n]
Written == "accepted"                  \* the note, or article, as it was made
ByHand  == "edited"

Assumptions ==
    /\ Answers \subseteq [cites : SUBSET (Sources \X Nat), visibility : 0..2]
    /\ None \notin [flag : Flags, edit : Nat] \cup {Written, ByHand}
    /\ MaxEdits \in Nat /\ MaxCalls \in Nat

NoCall  == [answer |-> None, private |-> FALSE]
Nothing == [guards |-> {}, key |-> None, promote |-> FALSE]

Init == /\ \E flag \in [Sources -> Flags] :
             file = [s \in Sources |-> Text(flag[s], 0)]
        /\ row = [s \in Sources |-> [rev |-> 1, text |-> file[s], deleted |-> FALSE]]
        /\ past = [s \in Sources |-> <<file[s]>>]
        /\ note = [a \in Answers |-> None]
        /\ noteRow = [a \in Answers |-> [rev |-> 0, text |-> None]]
        /\ saved = [a \in Answers |-> None]
        /\ drafts = {} /\ receipts = {} /\ target = None
        /\ at = [c \in Calls |-> "idle"]
        /\ call = [c \in Calls |-> NoCall] /\ seen = [c \in Calls |-> Nothing]
        /\ edits = 0 /\ calls = 0

-----------------------------------------------------------------------------
(* Visibility, twice: the policy of visibility.rs, and visibility_rank.    *)

\* Anything but a well-formed public or internal is private.
Visibility(flag) == IF flag = "public" THEN 0 ELSE IF flag = "internal" THEN 1 ELSE 2

\* visibility_rank: private means private: true, or visibility "private".
Rank(flag) == IF flag = "private" THEN 2 ELSE IF flag = "internal" THEN 1 ELSE 0

Strictest(ranks) == CHOOSE m \in ranks : \A n \in ranks : n <= m

-----------------------------------------------------------------------------
(* Reading.                                                                *)

Cited(a) == {e[1] : e \in a.cites}

\* get, publicly, wants the row and the file to be public.
Readable(s, private) ==
    \/ private
    \/ /\ Visibility(row[s].text.flag) = 0
       /\ row[s].deleted \/ (file[s] # None /\ Visibility(file[s].flag) = 0)

\* resolve_evidence.
Resolves(e, private) ==
    /\ Readable(e[1], private) /\ e[2] \in DOMAIN past[e[1]]
    /\ private \/ Visibility(past[e[1]][e[2]].flag) = 0

\* The current text of a candidate counts, and the one it was cited in.
Ranks(a) == {0} \cup {Rank(row[e[1]].text.flag) : e \in a.cites}
                \cup {Rank(past[e[1]][e[2]].flag) : e \in a.cites}

\* validate_answer_evidence; without a visibility, when an answer is served.
ValidEvidence(a, private) == \A e \in a.cites : Resolves(e, private)

\* saved_answer: the note, as indexed and on disk, is the one accepted.
Served(a, private) ==
    /\ saved[a] # None
    /\ private \/ a.visibility = 0
    /\ noteRow[a] = [rev |-> saved[a], text |-> Written]
    /\ note[a] = Written
    /\ ValidEvidence(a, private)

\* Source guards: what a write depends on, as it was read.
Guards(ss) == {<<s, row[s].rev, row[s].text>> : s \in ss}

GuardsHold(guards) == \A g \in guards : /\ ~row[g[1]].deleted
                                        /\ row[g[1]].rev = g[2]
                                        /\ row[g[1]].text = g[3]
                                        /\ file[g[1]] = g[3]

-----------------------------------------------------------------------------
(* Indexing.                                                               *)

\* The rows after the files are read; `new` are the notes as they will be.
Indexed(new) ==
    /\ LET Changed(s) == file[s] # None /\ (row[s].deleted \/ row[s].text # file[s])
       IN  /\ row' = [s \in Sources |->
                IF file[s] = None THEN [row[s] EXCEPT !.deleted = TRUE]
                ELSE IF Changed(s)
                THEN [rev |-> Len(past[s]) + 1, text |-> file[s], deleted |-> FALSE]
                ELSE row[s]]
           /\ past' = [s \in Sources |-> IF Changed(s) THEN Append(past[s], file[s])
                                         ELSE past[s]]
    /\ noteRow' = [a \in Answers |->
         IF new[a] = noteRow[a].text THEN noteRow[a]
         ELSE [rev  |-> IF new[a] = None THEN noteRow[a].rev ELSE noteRow[a].rev + 1,
               text |-> new[a]]]

Sync == /\ Indexed(note)
        /\ <<row', noteRow'>> # <<row, noteRow>>
        /\ UNCHANGED <<file, note, saved, drafts, receipts, target, at, call, seen,
                       edits, calls>>

-----------------------------------------------------------------------------
(* A call goes from step to step; whatever fails, or dies, leaves it idle. *)

Goto(c, step) == at' = [at EXCEPT ![c] = step]
End(c) == /\ Goto(c, "idle")
          /\ call' = [call EXCEPT ![c] = NoCall] /\ seen' = [seen EXCEPT ![c] = Nothing]

Die(c) == /\ at[c] # "idle" /\ End(c)
          /\ UNCHANGED <<sources, notes, saved, drafts, receipts, target, edits, calls>>

Enter(c, a, private, step, guards) ==
    /\ at[c] = "idle" /\ calls < MaxCalls /\ calls' = calls + 1
    /\ call' = [call EXCEPT ![c] = [answer |-> a, private |-> private]]
    /\ seen' = [seen EXCEPT ![c] = [Nothing EXCEPT !.guards = guards]]
    /\ Goto(c, step)
    /\ UNCHANGED <<sources, notes, saved, drafts, receipts, target, edits>>

\* save_answer reads the candidates first: what the write will be guarded by.
BeginSave(c, a, private) ==
    /\ a.visibility = 0 \/ private
    /\ \A s \in Cited(a) : Readable(s, private)
    /\ Enter(c, a, private, "validate", Guards(Cited(a)))

\* Then it checks them.  An answer that is saved already is only served.
ValidateSave(c) ==
    LET a == call[c].answer
    IN  /\ at[c] = "validate"
        /\ IF ValidEvidence(a, call[c].private) /\ a.visibility >= Strictest(Ranks(a))
              /\ saved[a] = None
           THEN Goto(c, "write") /\ UNCHANGED <<call, seen>>
           ELSE End(c)
        /\ UNCHANGED <<sources, notes, saved, drafts, receipts, target, edits, calls>>

NoGuards(c) == {}

Guarded(c) == seen[c].guards

\* write_source_guarded_many: the note is created, or is there already.
WriteNote(c) ==
    LET a  == call[c].answer
        ok == GuardsHold(Guarded(c)) /\ note[a] \in {None, Written}
    IN  /\ at[c] = "write"
        /\ IF ok THEN /\ note' = [note EXCEPT ![a] = Written]
                      /\ Indexed(note')
                      /\ Goto(c, "record") /\ UNCHANGED <<call, seen, file>>
           ELSE End(c) /\ UNCHANGED <<sources, notes>>
        /\ UNCHANGED <<saved, drafts, receipts, target, edits, calls>>

\* The row takes the revision the note has by then.
RecordNote(c) ==
    LET a == call[c].answer
    IN  /\ at[c] = "record"
        /\ saved' = IF noteRow[a].text # None /\ saved[a] = None
                    THEN [saved EXCEPT ![a] = noteRow[a].rev] ELSE saved
        /\ End(c)
        /\ UNCHANGED <<sources, notes, drafts, receipts, target, edits, calls>>

-----------------------------------------------------------------------------
(* Promotion.                                                              *)

BeginPromotion(c, a) ==
    /\ Served(a, TRUE)
    /\ Enter(c, a, TRUE, "judge", Guards(Cited(a)))

Stale(e) == [of |-> e, stale |-> row[e[1]].deleted \/ row[e[1]].rev # e[2]]

RanksTheNote(a) == {a.visibility}

PromotionRanks(a) == {a.visibility} \cup Ranks(a)

\* The evidence is read again, after the guards; a judgement on the same
\* answer, guards, evidence and visibility is used again.
Judge(c) ==
    LET a   == call[c].answer
        key == [answer     |-> a,
                guards     |-> seen[c].guards,
                status     |-> {Stale(e) : e \in a.cites},
                visibility |-> Strictest(PromotionRanks(a))]
    IN  /\ at[c] = "judge"
        /\ IF Served(a, TRUE) /\ ~\E r \in receipts : r.key = key
           THEN /\ \/ \E yes \in BOOLEAN :
                        /\ seen' = [seen EXCEPT ![c].key = key, ![c].promote = yes]
                        /\ Goto(c, "persist") /\ UNCHANGED call
                   \/ End(c)                    \* no or bad judgement, cancelled
           ELSE End(c)
        /\ UNCHANGED <<sources, notes, saved, drafts, receipts, target, edits, calls>>

\* The draft and its guards, in one transaction; the first of a key stays.
PersistDraft(c) ==
    LET key == seen[c].key
        new == [key |-> key, base |-> target, applied |-> FALSE,
                guards |-> seen[c].guards,
                visibility |-> IF target = None THEN key.visibility
                               ELSE Strictest({key.visibility, target.visibility})]
    IN  /\ at[c] = "persist"
        /\ drafts' = IF seen[c].promote /\ ~\E d \in drafts : d.key = key
                     THEN drafts \cup {new} ELSE drafts
        /\ Goto(c, "finish")
        /\ UNCHANGED <<sources, notes, saved, receipts, target, call, seen, edits, calls>>

\* finish_job may find its lease lost; the receipt follows it.
FinishPromotion(c) ==
    /\ at[c] = "finish"
    /\ receipts' = receipts \cup {[key |-> seen[c].key, promote |-> seen[c].promote]}
    /\ End(c)
    /\ UNCHANGED <<sources, notes, saved, drafts, target, edits, calls>>

\* apply_draft: the note and every guarded source are as they were, and the
\* article is as it was, or is this draft already.
ApplyDraft(d) ==
    LET a   == d.key.answer
        new == [from |-> d.key, visibility |-> d.visibility]
    IN  /\ noteRow[a] = [rev |-> saved[a], text |-> Written] /\ note[a] = Written
        /\ GuardsHold(d.guards)
        /\ target = new \/ (~d.applied /\ target = d.base)
        /\ target' = new
        /\ drafts' = (drafts \ {d}) \cup {[d EXCEPT !.applied = TRUE]}
        /\ Indexed(note)
        /\ <<target, drafts>> # <<target', drafts'>>
        /\ UNCHANGED <<file, note, saved, receipts, at, call, seen, edits, calls>>

-----------------------------------------------------------------------------
(* People.                                                                 *)

Edit == edits < MaxEdits /\ edits' = edits + 1

EditSource(s) == /\ Edit
                 /\ \E t \in {Text(flag, edits') : flag \in Flags} \cup {None} :
                      file' = [file EXCEPT ![s] = t]
                 /\ file[s] # None
                 /\ UNCHANGED <<row, past, notes, saved, drafts, receipts, target, at,
                                call, seen, calls>>

EditNote(a) == /\ Edit /\ note[a] # None
               /\ note' = [note EXCEPT ![a] = IF @ = Written THEN ByHand ELSE Written]
               /\ UNCHANGED <<sources, noteRow, saved, drafts, receipts, target, at,
                              call, seen, calls>>

EditTarget == /\ Edit
              /\ \E v \in {0, 2} : target' = [from |-> None, visibility |-> v]
              /\ UNCHANGED <<sources, notes, saved, drafts, receipts, at, call, seen,
                             calls>>

Next == \/ Sync \/ EditTarget
        \/ \E s \in Sources : EditSource(s)
        \/ \E a \in Answers : EditNote(a)
        \/ \E d \in drafts : ApplyDraft(d)
        \/ \E c \in Calls :
             \/ \E a \in Answers :
                  \/ \E private \in BOOLEAN : BeginSave(c, a, private)
                  \/ BeginPromotion(c, a)
             \/ ValidateSave(c) \/ WriteNote(c) \/ RecordNote(c)
             \/ Judge(c) \/ PersistDraft(c) \/ FinishPromotion(c) \/ Die(c)

Spec == Init /\ [][Next]_vars

-----------------------------------------------------------------------------
(* Properties.                                                             *)

TypeOK == /\ \A s \in Sources : row[s].rev = Len(past[s])
          /\ note \in [Answers -> {None, Written, ByHand}]
          /\ at \in [Calls -> {"idle", "validate", "write", "record", "judge",
                               "persist", "finish"}]
          /\ edits \in 0..MaxEdits /\ calls \in 0..MaxCalls

\* No source an answer cites is less public, in its file at this moment or in
\* the revision cited, than what is made of the answer.
AsRestrictive(a, visibility) ==
    \A e \in a.cites :
      /\ file[e[1]] # None /\ visibility >= Visibility(file[e[1]].flag)
      /\ visibility >= Visibility(past[e[1]][e[2]].flag)

WritesNoLess == \A a \in Answers : note[a] = None /\ note'[a] = Written =>
                                     AsRestrictive(a, a.visibility)

\* When an answer becomes a note, and when what was promoted of it becomes an
\* article, it is at least as restricted as every source it cites is in the
\* files at that moment, indexed or not, and was when it was cited: no edit
\* between the check of the evidence, the model's judgement, the review and
\* the write makes private text public.
NoteAsRestrictive == [][WritesNoLess]_vars

AppliesNoLess ==
    target' # target /\ target'.from # None =>
      AsRestrictive(target'.from.answer, target'.visibility)

\* The same of a promoted answer that is applied.
AppliedAsRestrictive == [][AppliesNoLess]_vars
=============================================================================
