------------------------------- MODULE Repair -------------------------------
(***************************************************************************)
(* Library::repair of crates/llmbase-core/src/maintenance_repair.rs: the   *)
(* stages that rename, delete, complete, link and merge articles, one job  *)
(* for all of them, with people and other processes at work in between.    *)
(*                                                                         *)
(* An article is what its text says (parts), what its generated metadata   *)
(* was made from (made), its links and whether it is private.  Near-empty  *)
(* stands for every reason to take it for garbage, empty made for every    *)
(* reason to ask the model for a summary or for tags.  An accepted write   *)
(* is one step: its journal and its window are SourceStore's subject.      *)
(* Category tags are not written into articles with a regenerated taxonomy *)
(* (the default of TaxonomyRequest).                                       *)
(*                                                                         *)
(* KeptUnchecked, FixesOnly and SupportsPublic are mutants: slips in the   *)
(* operator that follows each, used by none.                               *)
(***************************************************************************)
EXTENDS Naturals, Sequences, FiniteSets, Functions

CONSTANTS Names,      \* slugs an article may have
          Cleaned,    \* Cleaned[n]: the slug heal_slugs gives n
          Similar,    \* the pairs of slugs that look like one concept
          Ascii,      \* the slugs without a CJK letter
          Worlds,     \* the articles to begin with
          Orders,     \* orders in which the taxonomy may list slugs
          Plans,      \* sequences of modes a request may ask for
          Hides,      \* the private_inputs under which people hide articles
          Added,      \* what a person may add to a public article
          Private,    \* what a person may add and hide
          None, MaxEvents

\* Two articles may look alike, not one; no taxonomy lists a slug twice; and to
\* begin with what is in a private article is in no public one, and what people
\* add is in neither.
Assumptions ==
    /\ IsFiniteSet(Names)
    /\ \A o \in Orders : /\ o \in Seq({o[i] : i \in DOMAIN o})
                         /\ \A i, j \in DOMAIN o : o[i] = o[j] => i = j
    /\ Similar \subseteq Names \X Names
    /\ \A s \in Similar : s[1] # s[2]
    /\ \A w \in Worlds :
         LET hidden == UNION {w[n].parts : n \in {m \in Names : w[m] # None /\ w[m].private}}
         IN  /\ w = [n \in Names |-> w[n]]
             /\ \A n \in Names : w[n] # None =>
                  /\ DOMAIN w[n] = {"parts", "made", "links", "private"}
                  /\ w[n].private \in BOOLEAN
                  /\ ~w[n].private =>
                       (w[n].parts \cup w[n].made) \cap (hidden \cup {Private}) = {}
             /\ Added \notin hidden \cup {Private}

VARIABLES file, row,         \* the articles on disk, and as indexed
          tax, accepted,     \* the taxonomy: pairs <<category, slug>> in order,
                             \* and whether a person accepted it
          private_inputs,    \* of the request
          plan,              \* the modes still to carry out, the first under way
          at,                \* where in it the repair is
          todo, item,        \* what the stage has still to do, and is doing
          seen,              \* the rows it read for that
          renames, all,      \* the renames to carry into links, and of the stage
          linking,           \* the articles whose links are to be rewritten yet
          stage,             \* whether the stage has fixes, failures
          total,             \* the same for the finished stages
          receipts, changed, \* whether the job has write intents; changed files
          terminal, status,  \* the error that stopped it; its job
          cancel, leased,
          secret,            \* what has been in a private article
          events             \* edits, a cancellation, the loss of the lease

content == <<file, row, tax, secret>>
work    == <<plan, at, todo, item, seen, renames, all, linking, stage, total>>
outcome == <<receipts, changed, terminal, status>>
world   == <<private_inputs, accepted, cancel, leased, events>>
vars    == <<content, work, outcome, world>>

NoNotes == [fixed |-> FALSE, failed |-> FALSE]
NoLinks == [left |-> {}, failed |-> FALSE]

Init == /\ file \in Worlds
        /\ row = [n \in Names |-> [rev |-> 0, text |-> file[n]]]
        /\ \E order \in Orders :
             tax = [i \in DOMAIN order |-> <<order[i], order[i]>>]
        /\ accepted \in BOOLEAN /\ private_inputs \in BOOLEAN
        /\ plan \in Plans
        /\ at = "next" /\ todo = {} /\ item = None /\ seen = row
        /\ renames = <<>> /\ all = <<>> /\ linking = NoLinks
        /\ stage = NoNotes /\ total = NoNotes
        /\ receipts = FALSE /\ changed = FALSE
        /\ terminal = "none" /\ status = "running"
        /\ cancel = FALSE /\ leased = TRUE
        /\ secret = UNION {file[n].parts : n \in {m \in Names :
                              file[m] # None /\ file[m].private}}
        /\ events = 0

-----------------------------------------------------------------------------
(* Reading.                                                                *)

Exists(n) == row[n].text # None

\* What the request may read.
Scope == {n \in Names : Exists(n) /\ (private_inputs \/ ~row[n].text.private)}

\* snapshot_locked fails when a file is not what the index says.
Live == \A n \in Scope : file[n] = row[n].text

\* sync: what every accepted write ends with, in any process.
Indexed(files) ==
    [n \in Names |-> IF row[n].text = files[n] THEN row[n]
                     ELSE [rev |-> row[n].rev + 1, text |-> files[n]]]

Joined(map, old, new) ==
    [n \in DOMAIN map \cup {old} |-> IF n = old THEN new ELSE map[n]]

Renamed(map, n) == IF n \in DOMAIN map THEN map[n] ELSE n

\* rewrite_text.
Rewrite(t, map) == [t EXCEPT !.links = {Renamed(map, l) : l \in @}]

-----------------------------------------------------------------------------
(* accepted_write: under a live lease, with every guard as it was read and *)
(* the destination as expected; otherwise the stage notes a failure.       *)

Unmoved(n) == row[n] = seen[n] /\ file[n] = seen[n].text

Guards(guards, n, expected) ==
    /\ leased
    /\ \A g \in guards : Exists(g) /\ Unmoved(g)
    /\ file[n] = expected

Note(fixed, failed) == stage' = [fixed  |-> stage.fixed \/ fixed,
                                 failed |-> stage.failed \/ failed]

\* The files of an accepted write: a recorded intent, unless nothing changes.
Accept(files) ==
    /\ file' = files
    /\ row' = Indexed(files)
    /\ receipts' = (receipts \/ files # file)
    /\ changed' = (changed \/ files # file)

\* One that got past its heartbeat and is refused has synced all the same if another
\* process had left an intent to be replayed first.
Reject ==
    /\ row' = row \/ (leased /\ row' = Indexed(file))
    /\ UNCHANGED <<file, receipts, changed>>

Write(n, t) == [file EXCEPT ![n] = t]

-----------------------------------------------------------------------------
(* The frame of the stages.                                                *)

Mode == IF plan = <<>> THEN "none" ELSE plan[1]

Rest == <<tax, terminal, status, secret, world>>

\* An error that leaves a stage drops its notes, not its writes.
Abort(error) ==
    /\ terminal' = error /\ at' = "final"
    /\ stage' = NoNotes /\ todo' = {} /\ item' = None
    /\ renames' = <<>> /\ all' = <<>> /\ linking' = NoLinks
    /\ UNCHANGED <<content, plan, seen, total, receipts, changed, status, world>>

EndStage ==
    /\ at = "end"
    /\ total' = [fixed  |-> total.fixed \/ stage.fixed,
                 failed |-> total.failed \/ stage.failed]
    /\ stage' = NoNotes /\ plan' = Tail(plan) /\ at' = "next"
    /\ todo' = {} /\ item' = None /\ renames' = <<>> /\ all' = <<>>
    /\ UNCHANGED <<content, seen, linking, outcome, world>>

\* The names that links lead to from articles the request reads, and that
\* resolve to nothing, not even to a private article.
Unresolved == {m \in Names : ~Exists(m) /\ \E n \in Scope : m \in row[n].text.links}

Group(hidden) == {n \in Names : /\ seen[n].text # None
                                /\ seen[n].text.private = hidden}

Visible(r) == [n \in Names |-> IF n \in Scope THEN r[n]
                               ELSE [rev |-> 0, text |-> None]]

\* What a stage finds to do in its snapshot.
Items ==
    CASE Mode = "slugs"     -> {n \in Scope : Cleaned[n] # n}
      [] Mode = "clean"     -> {n \in Scope : row[n].text.parts = {}}
      [] Mode = "metadata"  -> {n \in Scope : /\ row[n].text.parts # {}
                                              /\ row[n].text.made = {}}
      [] Mode = "normalize" -> BOOLEAN
      [] Mode = "stubs"     -> Unresolved
      [] Mode = "dedup"     ->
           {s \in Similar : /\ Range(s) \subseteq Scope
                            /\ row[s[1]].text.private = row[s[2]].text.private}
      [] OTHER              -> {}

\* Every stage begins with a snapshot of current files, under the writer.
Begin ==
    /\ at = "next" /\ Mode \notin {"none", "taxonomy"} /\ ~cancel /\ Live
    /\ todo' = Items /\ seen' = Visible(row) /\ at' = "each"
    /\ UNCHANGED <<content, plan, item, renames, all, linking, stage, total,
                   outcome, world>>

Stop ==
    /\ at = "next" /\ plan # <<>>
    /\ \/ cancel /\ Abort("cancelled")
       \/ Mode # "taxonomy" /\ ~Live /\ Abort("error")

\* With nothing left: slugs and dedup carry their renames into the taxonomy,
\* slugs rewrites the links first.
Exhausted ==
    /\ at = "each" /\ todo = {}
    /\ at' = CASE Mode = "slugs" /\ renames # <<>> -> "links"
               [] Mode = "dedup" /\ all # <<>>     -> "refresh"
               [] OTHER                            -> "end"
    /\ UNCHANGED <<content, plan, todo, item, seen, renames, all, linking, stage,
                   total, outcome, world>>

\* The client's answer to an item, or a cancellation, or a failure.
NoAnswer ==
    /\ at \in {"ask", "confirm"}
    /\ \/ cancel /\ Abort("cancelled")
       \/ Abort("error")

Take == /\ at = "each" /\ todo # {}
        /\ \E i \in todo : item' = i /\ todo' = todo \ {i}

Done == /\ at' = "each" /\ UNCHANGED <<plan, todo, item, seen, renames, all,
                                    linking, total>>

\* One guarded write of the stage, or its refusal.
Attempt(guards, n, expected, t) ==
    IF Guards(guards, n, expected)
    THEN Accept(Write(n, t)) /\ Note(TRUE, FALSE)
    ELSE Reject /\ Note(FALSE, TRUE)

-----------------------------------------------------------------------------
(* heal_slugs and clean: wholly under the writer.                          *)

RenameOne ==
    /\ Mode = "slugs" /\ Take
    /\ LET n == item'
           c == Cleaned[n]
           moved == [file EXCEPT ![c] = file[n], ![n] = None]
       IN  IF file[c] = None /\ leased /\ Exists(n) /\ file[n] = seen[n].text
              /\ row[n].text = seen[n].text
           THEN /\ Accept(moved) /\ Note(TRUE, FALSE)
                /\ renames' = Joined(renames, n, c)
                /\ all' = renames'
           ELSE /\ IF file[c] = None THEN Reject
                   ELSE UNCHANGED <<file, row, receipts, changed>>
                /\ Note(FALSE, TRUE) /\ UNCHANGED <<renames, all>>
    /\ UNCHANGED <<Rest, plan, at, seen, linking, total>>

DeleteGarbage ==
    /\ Mode = "clean" /\ Take
    /\ LET n == item'
       IN  IF leased /\ Exists(n) /\ file[n] = seen[n].text
              /\ row[n].text = seen[n].text
           THEN Accept(Write(n, None)) /\ Note(TRUE, FALSE)
           ELSE Reject /\ Note(FALSE, TRUE)
    /\ UNCHANGED <<Rest, plan, at, seen, renames, all, linking, total>>

-----------------------------------------------------------------------------
(* metadata, dirty_tags, normalize_tags, broken_links: the model answers   *)
(* without the writer, the write takes it again.                           *)

Ask ==
    /\ Mode \in {"metadata", "normalize", "stubs"} /\ Take /\ ~cancel
    /\ at' = "ask"
    /\ UNCHANGED <<content, plan, seen, renames, all, linking, stage, total,
                   outcome, world>>

WriteMetadata ==
    /\ Mode = "metadata" /\ at = "ask"
    /\ LET t == seen[item].text
       IN  Attempt({item}, item, t, [t EXCEPT !.made = t.parts])
    /\ Done /\ UNCHANGED Rest

\* One answer for the tags of all the articles of a visibility; each write
\* guards all of them, refreshes its own in what was seen, and the first
\* refused one ends the group.
WriteTags(n) ==
    /\ Mode = "normalize" /\ at = "ask"
    /\ n \in Group(item)
    /\ LET group == Group(item)
           t == seen[n].text
           made == t.made \cup UNION {seen[g].text.parts : g \in group}
       IN  /\ t.made # made
           /\ Attempt(group, n, t, [t EXCEPT !.made = made])
           /\ IF Guards(group, n, t)
              THEN seen' = [seen EXCEPT ![n] = row'[n]] /\ UNCHANGED at
              ELSE at' = "each" /\ UNCHANGED seen
    /\ UNCHANGED <<Rest, plan, todo, item, renames, all, linking, total>>

\* Nothing to rename in the group, or no more.
TagsDone ==
    /\ Mode = "normalize" /\ at = "ask"
    /\ Done /\ UNCHANGED <<content, stage, outcome, world>>

SupportsPublic(supports) == FALSE

\* A stub is private when any article it was made from is.
StubPrivate(supports) == \E n \in supports : seen[n].text.private

WriteStub ==
    /\ Mode = "stubs" /\ at = "ask"
    /\ LET supports == {n \in Names : /\ seen[n].text # None
                                      /\ item \in seen[n].text.links}
           t == [parts   |-> UNION {seen[n].text.parts : n \in supports},
                 made    |-> {}, links |-> {},
                 private |-> StubPrivate(supports)]
       IN  Attempt(supports, item, None, t)
    /\ Done /\ UNCHANGED Rest

\* CANNOT_GENERATE is a failure of this stub alone.
Declined ==
    /\ Mode = "stubs" /\ at = "ask"
    /\ Note(FALSE, TRUE) /\ Done
    /\ UNCHANGED <<content, outcome, world>>

-----------------------------------------------------------------------------
(* rewrite_links: one article at a time under the writer, each from the    *)
(* snapshot taken when it begins.                                          *)

\* A public article keeps its link to a private one.
Scoped(t) ==
    LET hidden == {o \in DOMAIN renames : Exists(o) /\ row[o].text.private}
    IN  [o \in {d \in DOMAIN renames : t.private \/ d \notin hidden} |-> renames[o]]

BeginLinks ==
    /\ at = "links"
    /\ IF Live
       THEN /\ linking' = [left |-> {n \in Scope : Rewrite(row[n].text, Scoped(row[n].text))
                                                  # row[n].text},
                           failed |-> FALSE]
            /\ seen' = Visible(row) /\ at' = "linking"
            /\ UNCHANGED <<content, plan, todo, item, renames, all, stage, total,
                           outcome, world>>
       ELSE Abort("error")

RewriteLinks(n) ==
    /\ at = "linking" /\ n \in linking.left
    /\ LET t == seen[n].text
           ok == Guards({n}, n, t)
       IN  /\ Attempt({n}, n, t, Rewrite(t, Scoped(t)))
           /\ linking' = [left   |-> linking.left \ {n},
                          failed |-> linking.failed \/ ~ok]
    /\ UNCHANGED <<Rest, plan, at, todo, item, seen, renames, all, total>>

\* A merge goes on to its deletion only when every link was rewritten.
LinksDone ==
    /\ at = "linking" /\ linking.left = {}
    /\ at' = CASE Mode = "slugs"   -> "refresh"
               [] linking.failed   -> "each"
               [] OTHER            -> "drop"
    /\ Note(FALSE, linking.failed)
    /\ linking' = NoLinks
    /\ UNCHANGED <<content, plan, todo, item, seen, renames, all, total, outcome,
                   world>>

-----------------------------------------------------------------------------
(* deduplicate.                                                            *)

\* The two articles as they are by now, read without the writer.
ReadPair ==
    /\ Mode = "dedup" /\ at = "each" /\ todo # {}
    /\ IF cancel THEN Abort("cancelled")
       ELSE \E s \in todo :
         IF \E n \in Range(s) : Exists(n) /\ n \notin Scope THEN Abort("error")
         ELSE /\ todo' = todo \ {s} /\ item' = s /\ seen' = row
              /\ at' = IF Range(s) \subseteq Scope THEN "confirm" ELSE "each"
              /\ UNCHANGED <<content, plan, renames, all, linking, stage, total,
                             outcome, world>>

NotSame ==
    /\ at = "confirm"
    /\ Done /\ UNCHANGED <<content, stage, outcome, world>>

Parts(n) == seen[n].text.parts

\* The one without CJK letters, else the longer body, else the first.
Primary(s) ==
    LET second == IF (s[1] \in Ascii) # (s[2] \in Ascii) THEN s[2] \in Ascii
                  ELSE Cardinality(Parts(s[2])) > Cardinality(Parts(s[1]))
    IN  IF second THEN s[2] ELSE s[1]

\* The second's text is appended unless it is there already.
Merged(p, s) ==
    LET a == seen[p].text
        b == seen[s].text
    IN  [parts   |-> a.parts \cup b.parts,
         made    |-> a.made \cup b.made,
         links   |-> a.links \cup (IF b.parts \subseteq a.parts THEN {}
                                   ELSE b.links \cup {s}),
         private |-> a.private]

Merge ==
    /\ at = "confirm" /\ ~cancel
    /\ LET p == Primary(item)
           s == CHOOSE n \in Range(item) : n # p
           map == [n \in {s} |-> p]
       IN  /\ Attempt({p, s}, p, seen[p].text, Merged(p, s))
           /\ IF Guards({p, s}, p, seen[p].text)
              THEN /\ renames' = map /\ at' = "links"
                   /\ item' = [kept |-> p, gone |-> s,
                               merged |-> Rewrite(Merged(p, s), map),
                               rest   |-> Rewrite(seen[s].text, map)]
              ELSE at' = "each" /\ UNCHANGED <<renames, item>>
    /\ UNCHANGED <<Rest, plan, todo, seen, all, linking, total>>

KeptUnchecked == row[item.gone].text = item.rest

\* Before the second article goes: both are what the merge made of them.
AsMerged ==
    /\ row[item.gone].text = item.rest
    /\ row[item.kept].text = item.merged /\ file[item.kept] = item.merged

Drop ==
    /\ at = "drop"
    /\ IF Exists(item.gone) /\ item.gone \notin Scope THEN Abort("error")
       ELSE /\ IF leased /\ AsMerged /\ file[item.gone] = row[item.gone].text
               THEN /\ Accept(Write(item.gone, None)) /\ Note(TRUE, FALSE)
                    /\ all' = Joined(all, item.gone, item.kept)
               ELSE /\ Note(FALSE, TRUE)
                    /\ UNCHANGED <<file, row, receipts, changed, all>>
            /\ at' = "each" /\ renames' = <<>>
            /\ UNCHANGED <<Rest, plan, todo, item, seen, linking, total>>

-----------------------------------------------------------------------------
(* refresh_taxonomy: the references follow the renames.                    *)

Listed == {tax[i][2] : i \in DOMAIN tax}

\* Articles placed under their own name keep their place.
Reserved == {n \in Listed : Exists(n) /\ n \notin DOMAIN all}

\* The end of a chain of renames.
Target(n) ==
    LET after[i \in 0..Cardinality(Names)] ==
          IF i = 0 THEN n ELSE Renamed(all, after[i - 1])
    IN  after[Cardinality(Names)]

Place(placed, entry) ==
    LET t == Target(entry[2])
    IN  IF \/ ~Exists(t)
           \/ t # entry[2] /\ t \in Reserved
           \/ \E i \in DOMAIN placed : placed[i][2] = t
        THEN placed ELSE Append(placed, <<entry[1], t>>)

\* A category with these slugs.
InSomeOrder(category, slugs) ==
    CHOOSE q \in [1..Cardinality(slugs) -> {category} \X slugs] :
       /\ \A n \in slugs : \E i \in DOMAIN q : q[i][2] = n
       /\ \A i, j \in DOMAIN q : q[i] = q[j] => i = j

Refreshed ==
    LET upto[i \in 0..Len(tax)] ==
          IF i = 0 THEN <<>> ELSE Place(upto[i - 1], tax[i])
        kept == upto[Len(tax)]
        left == {n \in Names : /\ Exists(n)
                               /\ ~row[n].text.private \/ (private_inputs /\ accepted)
                               /\ \A i \in DOMAIN kept : kept[i][2] # n}
    IN  kept \o InSomeOrder("other", left)

Refresh ==
    /\ at = "refresh"
    /\ IF Mode = "dedup" /\ cancel THEN Abort("cancelled")
       ELSE IF \E n \in Names : Exists(n) /\ file[n] # row[n].text
       THEN Abort("error")
       ELSE /\ IF ~accepted /\ \E n \in Range(all) : Exists(n) /\ row[n].text.private
               THEN Note(FALSE, TRUE) /\ UNCHANGED tax
               ELSE \/ tax' = Refreshed /\ Note(tax' # tax, FALSE)
                    \/ Note(FALSE, TRUE) /\ UNCHANGED tax
            /\ at' = "end"
            /\ UNCHANGED <<file, row, secret, plan, todo, item, seen, renames, all,
                           linking, total, outcome, world>>

-----------------------------------------------------------------------------
(* The taxonomy is regenerated when something is left under other; then    *)
(* the job is finished, whatever happened.                                 *)

Regenerate ==
    /\ at = "next" /\ Mode = "taxonomy"
    /\ IF \A i \in DOMAIN tax : tax[i][1] # "other"
       THEN /\ UNCHANGED <<tax, total, terminal>>
       ELSE /\ leased
            /\ \/ /\ tax' = IF accepted \/ private_inputs THEN tax
                            ELSE InSomeOrder("new", Scope)
                  /\ total' = [total EXCEPT !.fixed = TRUE]
                  /\ UNCHANGED terminal
               \/ /\ total' = [total EXCEPT !.failed = TRUE]
                  /\ UNCHANGED <<tax, terminal>>
               \/ /\ terminal' = IF cancel THEN "cancelled" ELSE "error"
                  /\ UNCHANGED <<tax, total>>
    /\ plan' = Tail(plan)
    /\ UNCHANGED <<file, row, secret, at, todo, item, seen, renames, all, linking,
                   stage, receipts, changed, status, world>>

\* The heartbeat before a regeneration returns its error as it is.
LostBeforeRegeneration ==
    /\ at = "next" /\ Mode = "taxonomy" /\ ~leased
    /\ at' = "done"
    /\ UNCHANGED <<content, plan, todo, item, seen, renames, all, linking, stage,
                   total, outcome, world>>

FixesOnly == total.fixed

\* A stage that failed half-way has left its receipts.
HasEffects == total.fixed \/ receipts

\* busy: the writer was not had in a hundred attempts; rebuilt, saved: the
\* projections and the requested reports were written.
Finish ==
    /\ at = "final" \/ (at = "next" /\ plan = <<>>)
    /\ \E busy, rebuilt, saved \in BOOLEAN :
         LET error == IF terminal = "none" /\ busy THEN "error" ELSE terminal
             bad == \/ error # "none"
                    \/ total.failed \/ ~saved
                    \/ HasEffects /\ ~rebuilt
         IN  /\ terminal' = error
             /\ status' = IF ~leased THEN status
                          ELSE IF ~bad THEN "succeeded"
                          ELSE IF HasEffects THEN "partial"
                          ELSE IF error = "cancelled" /\ saved THEN "cancelled"
                          ELSE "failed"
    /\ at' = "done"
    /\ UNCHANGED <<content, plan, todo, item, seen, renames, all, linking, stage,
                   total, receipts, changed, world>>

-----------------------------------------------------------------------------
(* Everyone else.                                                          *)

Held == \/ at \in {"links", "linking", "drop"}
        \/ /\ Mode \in {"slugs", "clean"}
           /\ at \notin {"next", "final"}

OtherSync ==
    /\ ~Held /\ at # "done" /\ row # Indexed(file)
    /\ row' = Indexed(file)
    /\ UNCHANGED <<file, tax, secret, work, outcome, world>>

\* A person adds to a public article, empties it, hides it with something
\* secret in it, or writes a new one.
Edits(n) ==
    LET t == file[n]
        fresh == [parts |-> {Added}, made |-> {}, links |-> {}, private |-> FALSE]
    IN  IF t = None THEN {fresh}
        ELSE IF t.private THEN {}
        ELSE {[t EXCEPT !.parts = @ \cup {Added}], [t EXCEPT !.parts = {}]}
             \cup (IF private_inputs \in Hides
                   THEN {[t EXCEPT !.parts = @ \cup {Private}, !.private = TRUE]}
                   ELSE {})

Edit(n) ==
    /\ events < MaxEvents /\ at # "done"
    /\ \E t \in Edits(n) :
         /\ file' = [file EXCEPT ![n] = t]
         /\ secret' = IF t.private THEN secret \cup {Private} ELSE secret
    /\ events' = events + 1
    /\ UNCHANGED <<row, tax, work, outcome, private_inputs, accepted, cancel, leased>>

Cancel ==
    /\ ~cancel /\ at # "done" /\ events < MaxEvents
    /\ cancel' = TRUE /\ events' = events + 1
    /\ UNCHANGED <<content, work, outcome, private_inputs, accepted, leased>>

LoseLease ==
    /\ leased /\ at # "done" /\ events < MaxEvents
    /\ leased' = FALSE /\ events' = events + 1
    /\ UNCHANGED <<content, work, outcome, private_inputs, accepted, cancel>>

Next == \/ Begin \/ Stop \/ Exhausted \/ EndStage \/ NoAnswer
        \/ RenameOne \/ DeleteGarbage
        \/ Ask \/ WriteMetadata \/ (\E n \in Names : WriteTags(n)) \/ TagsDone
        \/ WriteStub \/ Declined
        \/ BeginLinks \/ (\E n \in Names : RewriteLinks(n)) \/ LinksDone
        \/ ReadPair \/ NotSame \/ Merge \/ Drop
        \/ Refresh \/ Regenerate \/ LostBeforeRegeneration \/ Finish
        \/ OtherSync \/ (\E n \in Names : Edit(n)) \/ Cancel \/ LoseLease

Spec == Init /\ [][Next]_vars

-----------------------------------------------------------------------------
(* Properties.                                                             *)

\* What a person wrote into a private article is in no public one: neither
\* merged into it, nor its stub, nor behind its generated metadata.
VisibilityKept ==
    \A n \in Names : file[n] # None /\ ~file[n].private =>
      (file[n].parts \cup file[n].made) \cap secret = {}

\* An article that a merge takes away is, word for word, in another one
\* (repair_duplicates), whatever people did in the meantime.
PreservesContent ==
    \A n \in Names :
      at = "drop" /\ file[n] # None /\ file'[n] = None =>
        \E k \in Names : file'[k] # None /\ file[n].parts \subseteq file'[k].parts
ContentPreserved == [][PreservesContent]_vars

\* A job that says it failed or was cancelled has changed no article, also
\* when an error threw away the notes of the stage that had.
StatusIsHonest == status \in {"failed", "cancelled"} => ~changed

\* A refresh lists no article twice, leaves out no public one, and moves none
\* that was placed under a slug which still stands.
KeepsPlaces ==
    at = "refresh" /\ tax' # tax =>
      /\ \A i, j \in DOMAIN tax' : i # j => tax'[i][2] # tax'[j][2]
      /\ \A n \in Names : Exists(n) /\ ~row[n].text.private =>
           \E i \in DOMAIN tax' : tax'[i][2] = n
      /\ \A i \in DOMAIN tax :
           Exists(tax[i][2]) /\ tax[i][2] \notin DOMAIN all =>
             tax[i] \in Range(tax')
PlacesKept == [][KeepsPlaces]_vars

=============================================================================
