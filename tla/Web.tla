-------------------------------- MODULE Web --------------------------------
(***************************************************************************)
(* The reads and writes of the web surface: web_read.rs, web_write.rs, the *)
(* article snapshots of maintenance.rs with its exports, its lint and its  *)
(* deterministic repair, and search of store.rs.                           *)
(*                                                                         *)
(* A request reads in sections.  The first, under the writer lock, takes   *)
(* every source it may see and compares the files; a later one reads the   *)
(* index, a metadata file or the articles anew.  Between them people edit, *)
(* other processes index, and metadata files are replaced.  One accepted   *)
(* write is one step, its window being SourceStore's subject; what it may  *)
(* leave behind when the scan that ends it fails is not left out.          *)
(*                                                                         *)
(* A text is what it says of its visibility, the names it gives its        *)
(* source, the names it links to, whether it looks like garbage, whether   *)
(* its tags want tidying, and whether its front matter parses; texts are   *)
(* equal when their hashes are.  open, changed are history variables.      *)
(* Left out are the layouts, the language profile, tags and collections,   *)
(* and the caches that Catalog is about.                                   *)
(*                                                                         *)
(* RowsOnly and CurrentText are mutants: slips in the operator that        *)
(* follows each, used by none.                                             *)
(***************************************************************************)
EXTENDS Naturals, Sequences, FiniteSets, Lists

CONSTANTS Order,       \* the sources, by kind and path; their slugs in order
          Articles,    \* those that are compiled
          Texts,       \* Texts[s]: what the file of s may say
          Worlds,      \* the files to begin with
          Aliases,     \* what aliases.json may hold: maps from words to slugs
          Words,       \* names people ask for
          Operations,  \* what is asked
          Bound,       \* [nodes, near]: of an exported graph
          None, MaxEvents

Sources == Elements(Order)

Assumptions ==
    /\ IsList(Order) /\ Articles \subseteq Sources
    /\ \A f \in Worlds : f \in [Sources -> Elements(f)]
    /\ Bound.nodes \in Nat \ {0} /\ Bound.near \in Nat
    /\ MaxEvents \in Nat

VARIABLES file,        \* what each source's file says, or None
          row,         \* its text as indexed, or None when it is deleted
          rev,         \* its revision
          past,        \* the texts of its revisions
          stuck,       \* an accepted write whose scan failed: <<source, text>>
          index,       \* the articles index.json lists, or None
          health,      \* the texts health.json was made of, or None
          aliases,     \* aliases.json
          at, op,      \* the section a request is at, and what it is
          private,     \* whether it may see what is private
          saw, revs,   \* the texts it took in its first section, and revisions
          word, found, \* the name asked for, the article that is
          todo,        \* the articles it has still to write
          done, failed, \* those it counts as written; whether one failed
          result,      \* its answer
          open,        \* the public texts in the files since it began
          changed,     \* the files it changed
          events

library == <<file, row, rev, past, stuck, index, health, aliases>>
request == <<at, op, private, saw, revs, word, found, todo, done, failed>>
vars    == <<library, request, result, open, changed, events>>

NoAnswer == [outcome |-> "none", shown |-> {}, made |-> {}, written |-> {}]
Nothing  == [s \in Sources |-> None]

Init == /\ file \in Worlds
        /\ row = file /\ past = [s \in Sources |-> {file[s]} \ {None}]
        /\ rev = [s \in Sources |-> 1] /\ revs = rev
        /\ stuck = None /\ index = None /\ health = None
        /\ aliases \in Aliases
        /\ at = "idle" /\ op = "none" /\ private = FALSE
        /\ saw = Nothing /\ word = None /\ found = None
        /\ todo = {} /\ done = {} /\ failed = FALSE
        /\ result = NoAnswer /\ open = {} /\ changed = {} /\ events = 0

-----------------------------------------------------------------------------
(* What is read of the library at one moment.                              *)

Visible(s)  == row[s] # None /\ (private \/ ~row[s].private)

\* validate_public_source_snapshot: the file must be there, parse, be public.
Validated(s) == private \/ (file[s] # None /\ ~file[s].broken /\ ~file[s].private)

\* list: all that is visible, or a refusal if one of them is not public now.
List(among) == {s \in among : Visible(s)}
Lists(among) == \A s \in List(among) : Validated(s)

\* live_sources: every file is still what the index says.
RowsOnly == Lists(Sources)
Live == Lists(Sources) /\ \A s \in List(Sources) : file[s] = row[s]

\* The articles that bear a name; a person's alias comes before all others.
Named(w) ==
    LET view == List(Articles)
    IN  IF w \in DOMAIN aliases /\ aliases[w] \in view THEN {aliases[w]}
        ELSE {s \in view : w \in row[s].names \cup {s}}

\* Snapshot::resolve: one article, none, or too many to tell.
Resolves(w) == Cardinality(Named(w)) = 1
Target(w)   == CHOOSE s \in Named(w) : TRUE

Outgoing(s) == UNION {Named(w) : w \in {v \in row[s].links : Resolves(v)}}
Incoming(s) == {r \in List(Articles) : s \in Outgoing(r)}
Rows(among) == {<<s, row[s]>> : s \in among}

\* export_graph: breadth first, with a bound on the nodes and on those next to
\* one.  line is all that was ever queued, and the first n of it are popped.
Nearby(s) == Outgoing(s) \cup Incoming(s)

Visit(g, n, depth) ==
    LET s     == g.line[n].node
        nodes == g.nodes \cup {s}
        near  == InOrder(Order, Nearby(s))
        new   == InOrder(Take(near, Bound.near), Sources \ nodes)
    IN  IF n > Len(g.line) \/ s \in g.nodes THEN g
        ELSE IF Cardinality(g.nodes) >= Bound.nodes THEN [g EXCEPT !.cut = TRUE]
        ELSE IF g.line[n].depth >= depth THEN [g EXCEPT !.nodes = nodes]
        ELSE [nodes |-> nodes,
              line  |-> g.line \o [i \in DOMAIN new |->
                          [node |-> new[i], depth |-> g.line[n].depth + 1]],
              cut   |-> g.cut \/ Len(near) > Bound.near]

Pops == 1 + Bound.nodes * Bound.near

Graph(root, depth) ==
    LET after[n \in 0..Pops] ==
          IF n = 0
          THEN [nodes |-> {}, line |-> <<[node |-> root, depth |-> 0]>>, cut |-> FALSE]
          ELSE Visit(after[n - 1], n, depth)
    IN  after[Pops]

-----------------------------------------------------------------------------
(* A request.                                                              *)

OpenIn(f) == {<<s, f[s]>> : s \in {r \in Sources :
                f[r] # None /\ ~f[r].broken /\ ~f[r].private}}

Answer(outcome, shown, made) ==
    /\ result' = [outcome |-> outcome, shown |-> shown, made |-> made, written |-> done]
    /\ at' = "answered"
    /\ UNCHANGED <<library, op, private, saw, revs, word, found, todo, done, failed,
                   open, changed, events>>

Refuse == Answer("refused", {}, {})

\* live_sources, or for the repair its own snapshot, under the lock.
Begin(o, p, w) ==
    /\ at = "idle"
    /\ op' = o /\ private' = p /\ word' = w
    /\ open' = OpenIn(file)
    /\ at' = "first"
    /\ UNCHANGED <<library, saw, revs, found, todo, done, failed, result, changed, events>>

Garbage(s) == row[s].thin
Untidy(s)  == row[s].untidy

First ==
    /\ at = "first"
    /\ IF IF op = "fix" THEN ~Lists(Articles) ELSE ~Live THEN Refuse
       ELSE /\ saw' = [s \in Sources |-> IF Visible(s) THEN row[s] ELSE None]
            /\ todo' = CASE op = "delete" -> {s \in List(Articles) : s = word}
                         [] op = "clean"  -> {s \in List(Articles) : Garbage(s)}
                         [] op = "fix"    -> {s \in List(Articles) : Untidy(s)}
                         [] OTHER         -> {}
            /\ revs' = rev
            /\ at' = IF op \in {"delete", "clean", "fix"} THEN "write" ELSE "second"
            /\ UNCHANGED <<library, op, private, word, found, done, failed, result, open,
                           changed, events>>

Taken(among) == {<<s, saw[s]>> : s \in {r \in among : saw[r] # None}}

\* articles, collections, raw_list, raw_detail and web_wiki_export need only
\* what was taken; the lite list is cut to what index.json mentions.
FromTaken ==
    /\ at = "second" /\ op \in {"list", "lite"}
    /\ Answer("ok", Taken(IF op = "list" THEN Sources
                          ELSE IF index = None THEN {} ELSE index), {})

\* health and stats: the report is withheld once a revision was ever hidden.
HiddenEver == \E s \in Sources : \E t \in past[s] : t.private

ReadHealth ==
    /\ at = "second" /\ op = "health"
    /\ Answer("ok", {}, IF health = None \/ (~private /\ HiddenEver) THEN {} ELSE health)

\* search reads the index without the lock, and validates each hit.
Search ==
    /\ at = "second" /\ op = "search"
    /\ LET hits == {s \in Articles : Visible(s) /\ word \in row[s].names}
       IN  IF \A s \in hits : Validated(s) THEN Answer("ok", Rows(hits) \cup Taken(hits), {})
           ELSE Refuse

\* article: resolve the name in a snapshot of its own ...
ResolveName ==
    /\ at = "second" /\ op = "article"
    /\ IF Lists(Articles) /\ Resolves(word) /\ saw[Target(word)] # None
       THEN /\ found' = Target(word) /\ at' = "third"
            /\ UNCHANGED <<library, op, private, saw, revs, word, todo, done, failed,
                           result, open, changed, events>>
       ELSE Refuse

\* ... and take the backlinks of the slug, resolved once more, in another.
ExportFound ==
    /\ at = "third"
    /\ IF Lists(Articles) /\ Resolves(found)
       THEN Answer("ok", Taken({found}) \cup Rows(Incoming(Target(found))), {})
       ELSE Refuse

\* maintenance_article_aliases, export_tag and lint: every article.
ExportAll ==
    /\ at = "second" /\ op = "aliases"
    /\ IF Lists(Articles) THEN Answer("ok", Rows(List(Articles)), {}) ELSE Refuse

ExportGraph ==
    /\ at = "second" /\ op = "graph"
    /\ IF Lists(Articles) /\ Resolves(word)
       THEN Answer("ok", Rows(Graph(Target(word), 2).nodes), {})
       ELSE Refuse

-----------------------------------------------------------------------------
(* Writes.                                                                 *)

Parses(f) == \A s \in Sources : f[s] # None => ~f[s].broken

\* recover_locked: an intent left pending is replayed first, scan included.
Replays == IF stuck = None THEN TRUE ELSE file[stuck[1]] = stuck[2] /\ Parses(file)

\* The rows, and revisions, once the files f are indexed.
Revised(f) == [s \in Sources |-> IF f[s] = row[s] THEN rev[s] ELSE rev[s] + 1]
Indexed(f) == /\ row' = f /\ rev' = Revised(f)
              /\ past' = [s \in Sources |-> past[s] \cup ({f[s]} \ {None})]

\* delete_source compares row and file with the text the request took, the
\* repair's write_source_guarded the revision as well.
CurrentText(s, r) == r[s] # None /\ file[s] = r[s]
AsTaken(s, r) == r[s] = saw[s] /\ file[s] = saw[s]

Accepts(s) ==
    LET r == IF stuck = None THEN row ELSE file
    IN  /\ Replays /\ AsTaken(s, r)
        /\ op = "fix" => revs[s] = Revised(r)[s]

New(s) == IF op = "fix" THEN [saw[s] EXCEPT !.untidy = FALSE] ELSE None

\* Each article in turn.  The write is accepted and indexed; or accepted, but
\* the scan fails, which is told as an error; or refused.
WriteNext(s) ==
    LET f == [file EXCEPT ![s] = New(s)]
    IN  /\ file' = f
        /\ changed' = changed \cup {s}
        /\ open' = open \cup OpenIn(f)
        /\ IF Parses(f)
           THEN Indexed(f) /\ stuck' = None /\ done' = done \cup {s} /\ UNCHANGED failed
           ELSE /\ stuck' = <<s, New(s)>> /\ failed' = TRUE
                /\ UNCHANGED <<row, rev, past, done>>

RefuseNext ==
    /\ IF stuck # None /\ Replays THEN Indexed(file) /\ stuck' = None
       ELSE UNCHANGED <<row, rev, past, stuck>>
    /\ failed' = TRUE
    /\ UNCHANGED <<file, done, changed, open>>

Write(s) ==
    /\ at = "write" /\ s \in todo
    /\ todo' = todo \ {s}
    /\ IF Accepts(s) THEN WriteNext(s) ELSE RefuseNext
    /\ UNCHANGED <<index, health, aliases, at, op, private, saw, revs, word, found,
                   result, events>>

\* What was written, what was not, or a refusal if nothing was.
Outcome(rebuilt) ==
    IF done = {} /\ (failed \/ op = "delete" \/ ~rebuilt) THEN "refused"
    ELSE IF failed \/ ~rebuilt THEN "partial" ELSE "ok"

\* A rebuild follows, Projections' subject; here it may fail.
Finish ==
    /\ at = "write" /\ todo = {}
    /\ \E rebuilt \in IF op = "delete" \/ (op = "clean" /\ done = {}) THEN {TRUE}
                      ELSE BOOLEAN :
         Answer(Outcome(rebuilt), {}, {})

-----------------------------------------------------------------------------
(* Everybody else.                                                         *)

\* What happens after the answer shows in no other.
Happens == at # "answered" /\ events < MaxEvents /\ events' = events + 1

\* A person writes or removes a file.
Edit(s, t) ==
    /\ Happens /\ t # file[s]
    /\ file' = [file EXCEPT ![s] = t]
    /\ open' = IF at = "idle" THEN open ELSE open \cup OpenIn(file')
    /\ UNCHANGED <<row, rev, past, stuck, index, health, aliases, request, result, changed>>

\* A process indexes the files, after what was left pending.
Sync ==
    /\ Happens /\ Parses(file) /\ Replays
    /\ row # file \/ stuck # None
    /\ Indexed(file) /\ stuck' = None
    /\ UNCHANGED <<file, index, health, aliases, request, result, open, changed>>

\* index.json is rebuilt from the public articles; a lint of all articles is
\* kept as health.json.
Rebuild ==
    /\ Happens
    /\ index' = {s \in Articles : row[s] # None /\ ~row[s].private}
    /\ UNCHANGED <<file, row, rev, past, stuck, health, aliases, request, result, open,
                   changed>>

Report ==
    /\ Happens
    /\ health' = {row[s] : s \in {r \in Articles : row[r] # None}}
    /\ UNCHANGED <<file, row, rev, past, stuck, index, aliases, request, result, open,
                   changed>>

Next == \/ \E o \in Operations, p \in BOOLEAN, w \in Words : Begin(o, p, w)
        \/ First \/ FromTaken \/ ReadHealth \/ Search
        \/ ResolveName \/ ExportFound \/ ExportAll \/ ExportGraph
        \/ \E s \in Sources : Write(s)
        \/ Finish
        \/ \E s \in Sources : \E t \in Texts[s] \cup {None} : Edit(s, t)
        \/ Sync \/ Rebuild \/ Report

Spec == Init /\ [][Next]_vars

-----------------------------------------------------------------------------
(* Properties.                                                             *)

\* http-read.md: all content is checked before the answer, and no old snapshot
\* is published.  Each text of which a public answer shows something was in
\* its file, and public, at some moment since the request began; and what was
\* made of all articles is shown only if all of it was public.
NothingHiddenAnswered ==
    ~private => /\ result.shown \subseteq open
                /\ \A t \in result.made : ~t.private

\* An exported graph is all that lies within the depth, or says it is cut
\* (export_graph).
GraphIsExact ==
    at = "second" /\ op = "graph" /\ Resolves(word) =>
      LET root == Target(word)
          one  == {root} \cup Nearby(root)
          all  == one \cup UNION {Nearby(s) : s \in one}
          g    == Graph(root, 2)
      IN  /\ g.nodes \subseteq all /\ Cardinality(g.nodes) <= Bound.nodes
          /\ ~g.cut => g.nodes = all

\* maintenance.md: some changed and others failed is partial.  What is told as
\* written was written, and "ok" hides no failure.
ClaimsAreTrue ==
    /\ result.written \subseteq changed
    /\ result.outcome = "ok" => result.written = changed /\ ~failed

\* http-write.md: cleanup answers what it removed, and Conflict when all of it
\* failed; maintenance.md says the same of the repair.
RefusedChangesNothing == result.outcome = "refused" => changed = {}

\* A request deletes or rewrites a file only as it took it, so what it
\* rewrites loses nothing, and a public one touches nothing hidden since.
WritesAsTaken ==
    events' = events => \A s \in Sources : file'[s] # file[s] =>
        /\ file[s] = saw[s]
        /\ IF op = "fix" THEN file'[s] = [file[s] EXCEPT !.untidy = FALSE]
           ELSE file'[s] = None /\ (s = word \/ file[s].thin)
=============================================================================
