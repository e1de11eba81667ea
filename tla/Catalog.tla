------------------------------ MODULE Catalog ------------------------------
(***************************************************************************)
(* crates/llmbase-core/src/catalog.rs and the reads of store.rs and        *)
(* maintenance.rs it rests on: aliases, backlinks, the knowledge graph,    *)
(* accepted relations, the taxonomy, cached entities and introductions,    *)
(* for a public caller and for the owner.                                  *)
(*                                                                         *)
(* Every operation takes the writer lock, so it is one step; only people's *)
(* edits of the files come between.  A view V is what a caller sees: the   *)
(* rows of the sources listed for it.  It is an operator of the rows R, so *)
(* that one can ask what it would be were the rows others.  A source's     *)
(* text is what the views tell apart: whether it is private, the names it  *)
(* answers to, its wiki links and the references in its frontmatter.       *)
(* Sources stand for their ids and slugs.  A taxonomy is the sequence of   *)
(* its categories in the order they are written, each with its depth.      *)
(* Limits other than the graph's, labels, languages and titles are left    *)
(* out.                                                                    *)
(*                                                                         *)
(* TrustsCaches is a mutant: a plausible slip in the operator that follows *)
(* it, used by no action.                                                  *)
(***************************************************************************)
EXTENDS Naturals, Sequences, FiniteSets, Lists

CONSTANTS Order,       \* the sources, by kind and path
          Compiled,    \* those that are articles; the others are raw
          Texts,       \* Texts[s]: what the file of s may say
          Worlds,      \* the files to begin with
          Ends,        \* the ends a relation is made between, by its id
          Documents,   \* taxonomies a caller may set
          Queries,     \* the bounds a graph is asked with
          None, MaxEvents

Sources  == {Order[i] : i \in DOMAIN Order}
AllTexts == UNION {Texts[s] : s \in Sources}
EndSet   == {Ends[i] : i \in DOMAIN Ends}

Assumptions ==
    /\ IsList(Order) /\ \A i, j \in DOMAIN Order : Order[i] = Order[j] => i = j
    /\ None \notin Sources /\ None \notin AllTexts /\ Compiled \subseteq Sources
    /\ Worlds \subseteq [Sources -> AllTexts]
    /\ IsList(Ends) /\ EndSet \subseteq Sources \X Sources
    /\ \A t \in AllTexts : t.private \in BOOLEAN /\ IsList(t.links) /\ IsList(t.cites)
    /\ \A d \in Documents : IsList(d) /\ \A i \in DOMAIN d : /\ d[i].open \in BOOLEAN
                                                           /\ d[i].depth \in Nat
    /\ \A q \in Queries : /\ q.depth \in Nat /\ q.neighbours \in Nat \ {0}
                          /\ q.nodes \in Nat \ {0} /\ q.edges \in Nat \ {0}
    /\ MaxEvents \in Nat

VARIABLES file,        \* what each source's file says, or None
          row,         \* its row: [rev, text, deleted]
          past,        \* the texts of its revisions
          relations,   \* catalog_relations: by its ends, or None
          accepted,    \* catalog_documents: the accepted taxonomy, or None
          cache,       \* generated documents in the meta directory
          by,          \* who took the last step: "public", "owner" or "other"
          events       \* edits, writes and generations so far

vars == <<file, row, past, relations, accepted, cache, by, events>>

Public  == 0                                 \* visibility, from lax to strict
Levels  == {Public, 2}
Caches  == {"taxonomy", "entities", "entities.private", "xici"}

Init == /\ file \in Worlds
        /\ row = [s \in Sources |->
                    [rev |-> 1, text |-> file[s], deleted |-> FALSE]]
        /\ past = [s \in Sources |-> <<file[s]>>]
        /\ relations = [e \in EndSet |-> None]
        /\ accepted = None
        /\ cache = [c \in Caches |-> None]
        /\ by = "other" /\ events = 0

-----------------------------------------------------------------------------
(* What a caller may read.                                                 *)

\* validate_public_source_snapshot: the file itself must still be public.
Validated(s) == row[s].deleted \/ (file[s] # None /\ ~file[s].private)

\* Library::get; a private caller reads every row.
Readable(R, s, private) ==
    R[s] # None /\ (private \/ (~R[s].text.private /\ Validated(s)))

\* Library::list, of the sources among those.
View(R, among, private) ==
    [s \in {s \in among : /\ R[s] # None /\ ~R[s].deleted
                          /\ private \/ ~R[s].text.private} |-> R[s]]

\* One source that is no longer public fails the whole list.
Refused(R, V, private) == \E s \in DOMAIN V : ~Readable(R, s, private)

\* get, for a source that is not deleted.
LiveSource(s, private) == Readable(row, s, private) /\ ~row[s].deleted

\* resolve_evidence: the cited revision and the current one must be readable.
Resolves(R, e, private) ==
    /\ Readable(R, e[1], private)
    /\ e[2] \in DOMAIN past[e[1]]
    /\ private \/ ~past[e[1]][e[2]].private

-----------------------------------------------------------------------------
(* Aliases.                                                                *)

\* AliasIndex: the sources among those, of a view, that answer to a name.
Named(V, among, w) == {s \in among : w \in {s} \cup V[s].text.names}

\* AliasIndex::resolve; of an ambiguous name it names none.
Resolve(V, among, w) ==
    IF \E s \in among : Named(V, among, w) = {s}
    THEN CHOOSE s \in among : Named(V, among, w) = {s} ELSE None

Words(V) == UNION {{s} \cup V[s].text.names : s \in DOMAIN V}

\* aliases: every name, with the sources that answer to it.
Aliases(R, private) ==
    LET V == View(R, Compiled, private)
    IN  IF Refused(R, V, private) THEN None
        ELSE {<<w, Named(V, DOMAIN V, w)>> : w \in Words(V)}

\* backlinks: the articles with a link that resolves to the target.
Backlinks(R, target, private) ==
    LET V  == View(R, Compiled, private)
        to == Resolve(V, DOMAIN V, target)
    IN  IF Refused(R, V, private) \/ to = None THEN None
        ELSE {s \in DOMAIN V : \E i \in DOMAIN V[s].text.links :
                                 Resolve(V, DOMAIN V, V[s].text.links[i]) = to}

-----------------------------------------------------------------------------
(* The edges of the graph, as lists of what the loops of graph insert.     *)

Edge(from, to, kind, supports, notes) ==
    [key |-> <<from, to, kind>>, supports |-> supports, notes |-> notes]

Current(V, s) == {<<s, V[s].rev>>}

\* Relations both ends of which the caller sees, with a support that is not
\* deleted unless the relation needs none.
Supports(R, rels, e, private) == {x \in rels[e].supports : Resolves(R, x, private)}

Related(R, rels, V, private) ==
    {e \in EndSet : /\ rels[e] # None /\ ~rels[e].deleted
                    /\ e[1] \in DOMAIN V /\ e[2] \in DOMAIN V
                    /\ private \/ rels[e].visibility = Public
                    /\ \/ rels[e].unconditional
                       \/ \E x \in Supports(R, rels, e, private) : ~R[x[1]].deleted}

Manual(R, rels, V, private) ==
    LET shown == InOrder(Ends, Related(R, rels, V, private))
    IN  [i \in DOMAIN shown |->
           Edge(shown[i][1], shown[i][2], "manual",
                Supports(R, rels, shown[i], private), rels[shown[i]].notes)]

\* The links of a source that name one source of the view.
LinksOf(V, s) ==
    LET links == InOrder(V[s].text.links,
                         {w \in Words(V) : Resolve(V, DOMAIN V, w) # None})
    IN  [i \in DOMAIN links |-> Edge(s, Resolve(V, DOMAIN V, links[i]), "wikilink",
                                     Current(V, s), {})]

\* source_reference_index: the one raw source of the view a reference names.
Cited(V, w) == Resolve(V, DOMAIN V \ Compiled, w)

CitesOf(V, s) ==
    LET cites == IF s \in Compiled
                 THEN InOrder(V[s].text.cites, {w \in Words(V) : Cited(V, w) # None})
                 ELSE <<>>
    IN  [i \in DOMAIN cites |-> Edge(s, Cited(V, cites[i]), "source_reference",
                                     Current(V, Cited(V, cites[i])), {})]

\* Every two articles that cite one raw source.
Citing(V, r) ==
    {s \in DOMAIN V \cap Compiled : \E i \in DOMAIN V[s].text.cites : Cited(V, V[s].text.cites[i]) = r}

SharedOf(V, r) ==
    LET citing == InOrder(Order, Citing(V, r))
    IN  Flat([i \in DOMAIN citing |-> [j \in 1..Len(citing) - i |->
          [first |-> i = 1 /\ j = 1,
           edge  |-> Edge(citing[i], citing[i + j], "shared_source", Current(V, r), {})]]])

\* What each source of a view gives, one after the other.
Listed(V) == InOrder(Order, DOMAIN V)

Derived(V) ==
    LET in == Listed(V)
    IN  Flat([i \in DOMAIN in |-> LinksOf(V, in[i])])
          \o Flat([i \in DOMAIN in |-> CitesOf(V, in[i])])

Shared(V) ==
    LET in == Listed(V) IN Flat([i \in DOMAIN in |-> SharedOf(V, in[i])])

Keys(edges) == {e.key : e \in edges}

\* insert_edge: an edge met again gains supports; a new one needs room.
Insert(acc, e, limit) ==
    IF e.key \in Keys(acc.edges)
    THEN [acc EXCEPT !.edges =
            {IF f.key = e.key THEN [f EXCEPT !.supports = @ \cup e.supports] ELSE f
               : f \in acc.edges}]
    ELSE IF Cardinality(acc.edges) < limit
    THEN [acc EXCEPT !.edges = @ \cup {e}]
    ELSE [acc EXCEPT !.truncated = TRUE]

\* The last loop leaves the pairs of a source, truncated, once it is full.
InsertShared(acc, c, limit) ==
    LET next == Insert(acc, c.edge, limit)
    IN  IF Cardinality(acc.edges) >= limit /\ ~c.first THEN acc
        ELSE [next EXCEPT !.truncated = @ \/ Cardinality(next.edges) >= limit]

NoEdges == [edges |-> {}, truncated |-> FALSE]

InsertAll(all, limit) ==
    LET upto[n \in 0..Len(all)] ==
          IF n = 0 THEN NoEdges ELSE Insert(upto[n - 1], all[n], limit)
    IN  upto[Len(all)]

InsertAllShared(acc, all, limit) ==
    LET upto[n \in 0..Len(all)] ==
          IF n = 0 THEN acc ELSE InsertShared(upto[n - 1], all[n], limit)
    IN  upto[Len(all)]

\* Edges in order of precedence.
Collect(R, rels, V, private, limit) ==
    InsertAllShared(InsertAll(Manual(R, rels, V, private) \o Derived(V), limit),
                    Shared(V), limit)

-----------------------------------------------------------------------------
(* The graph.  Breadth first: line is all that was ever queued, and the    *)
(* first n of it are popped.                                               *)

Neighbours(keys, s) == {k[1] : k \in {l \in keys : l[2] = s}}
                         \cup {k[2] : k \in {l \in keys : l[1] = s}}

NodesOf(line) == {line[i].node : i \in DOMAIN line}

\* Of each node at most so many neighbours, in order.
Pop(found, n, keys, q) ==
    IF n > Len(found.line) \/ found.line[n].depth >= q.depth THEN found
    ELSE LET at   == found.line[n]
             near == InOrder(Order, Neighbours(keys, at.node))
             new  == InOrder(Take(near, q.neighbours), Sources \ NodesOf(found.line))
             kept == Take(new, q.nodes - Len(found.line))
         IN  [line      |-> found.line \o [i \in DOMAIN kept |->
                              [node |-> kept[i], depth |-> at.depth + 1]],
              truncated |-> \/ found.truncated
                            \/ Len(near) > q.neighbours
                            \/ Len(new) > Len(kept)]

Walk(start, keys, q) ==
    LET after[n \in 0..Len(Order)] ==
          IF n = 0
          THEN [line |-> <<[node |-> start, depth |-> 0]>>, truncated |-> FALSE]
          ELSE Pop(after[n - 1], n, keys, q)
        found == after[Len(Order)]
    IN  [nodes |-> NodesOf(found.line), truncated |-> found.truncated]

\* With no root, the first sources of the list.
First(V, limit) ==
    LET in   == Listed(V)
        kept == Take(in, limit)
    IN  [nodes     |-> {kept[i] : i \in DOMAIN kept},
         truncated |-> Len(in) > limit]

Graph(R, rels, q, private) ==
    LET V     == View(R, Sources, private)
        all   == Collect(R, rels, V, private, q.edges)
        start == Resolve(V, DOMAIN V, q.root)
        found == IF q.root # None THEN Walk(start, Keys(all.edges), q)
                 ELSE First(V, q.nodes)
    IN  IF Refused(R, V, private) \/ (q.root # None /\ start = None) THEN None
        ELSE [nodes     |-> DOMAIN V \cap found.nodes,
              edges     |-> {e \in all.edges : {e.key[1], e.key[2]} \subseteq found.nodes},
              truncated |-> all.truncated \/ found.truncated]

-----------------------------------------------------------------------------
(* Documents: the taxonomy, entities, introductions.                       *)

\* validate_public_aggregate: every source consulted is readable and live.
TrustsCaches(R, doc) == TRUE
Verified(R, doc) ==
    \A s \in doc.consulted : Readable(R, s, FALSE) /\ ~R[s].deleted

Category(key, depth, open, slugs) ==
    [id |-> key, depth |-> depth, open |-> open, slugs |-> slugs]

\* The categories below one.
Below(t, i) == {j \in DOMAIN t : i < j /\ \A m \in i + 1..j : t[m].depth > t[i].depth}

\* localize_nodes.  A category that is private, or files an article the reader
\* does not see, is withheld with all below it.
Withheld(t, view, private, i) ==
    ~private /\ \E j \in DOMAIN t : /\ i = j \/ i \in Below(t, j)
                                    /\ ~t[j].open \/ ~(t[j].slugs \subseteq view)

\* Whether the articles of k are filed before those of i: what is below a
\* category comes first.
Earlier(t, k, i) == k \in Below(t, i) \/ (k < i /\ i \notin Below(t, k))

\* Each article is filed where it is met first.
FiledAt(t, view, private, i) ==
    IF Withheld(t, view, private, i) THEN {}
    ELSE {s \in t[i].slugs \cap view :
            \A k \in DOMAIN t : Earlier(t, k, i) /\ s \in t[k].slugs
                                  => Withheld(t, view, private, k)}

\* A public reader sees no category without articles.
Localize(t, view, private) ==
    [i \in {i \in DOMAIN t : /\ ~Withheld(t, view, private, i)
                             /\ \/ private
                                \/ \E k \in {i} \cup Below(t, i) :
                                     FiledAt(t, view, private, k) # {}}
       |-> [id |-> t[i].id, filed |-> FiledAt(t, view, private, i)]]

Slugs(t)      == UNION {t[i].slugs : i \in DOMAIN t}
HasPrivate(t) == \E i \in DOMAIN t : ~t[i].open

\* catalog_document: an accepted taxonomy hides the generated one.
TaxonomyDocument == IF accepted # None THEN accepted ELSE cache["taxonomy"]

\* fallback_taxonomy, of a library without tags.
Fallback(V) == [categories |-> <<Category("all", 0, TRUE, DOMAIN V)>>,
                consulted |-> {}, made |-> {}]

Taxonomy(R, private) ==
    LET V   == View(R, Compiled, private)
        doc == IF TaxonomyDocument # None THEN TaxonomyDocument ELSE Fallback(V)
    IN  IF Refused(R, V, private) \/ (~private /\ ~Verified(R, doc)) THEN None
        ELSE [shown |-> Localize(doc.categories, DOMAIN V, private),
              made |-> doc.made, of |-> doc.consulted]

\* entities: the owner's document if there is one; publicly an entry only if
\* it is public and the reader sees every article it is about.
Entities(R, private) ==
    LET doc == IF private /\ cache["entities.private"] # None
               THEN cache["entities.private"] ELSE cache["entities"]
        V   == View(R, Compiled, private)
    IN  IF Refused(R, V, private) \/ doc = None
           \/ (~private /\ (~doc.open \/ ~Verified(R, doc)))
        THEN None
        ELSE [entries |-> IF private THEN {e \cap DOMAIN V : e \in doc.entries}
                          ELSE {e \in doc.entries : e # {} /\ e \subseteq DOMAIN V},
              made    |-> doc.made, of |-> doc.consulted]

\* xici: a public reader sees an introduction made of public sources only.
Introduction(R, private) ==
    LET doc == cache["xici"]
    IN  IF doc = None \/ (~private /\ (doc.consulted = {} \/ ~Verified(R, doc)))
        THEN None ELSE [made |-> doc.made, of |-> doc.consulted]

-----------------------------------------------------------------------------
(* Operations.                                                             *)

Count(who) == events < MaxEvents /\ events' = events + 1 /\ by' = who
Caller(private) == IF private THEN "owner" ELSE "public"

\* A person writes, hides, publishes or deletes a source.
Edit(s, t) == /\ Count("other") /\ t # file[s]
              /\ file' = [file EXCEPT ![s] = t]
              /\ UNCHANGED <<row, past, relations, accepted, cache>>

\* Library::sync: rows follow the files; what changed is a new revision.
Sync ==
    LET Changed(s) == file[s] # None /\ (row[s].deleted \/ row[s].text # file[s])
    IN  /\ row' = [s \in Sources |->
             IF file[s] = None THEN [row[s] EXCEPT !.deleted = TRUE]
             ELSE IF Changed(s)
             THEN [rev |-> Len(past[s]) + 1, text |-> file[s], deleted |-> FALSE]
             ELSE row[s]]
        /\ past' = [s \in Sources |-> IF Changed(s) THEN Append(past[s], file[s])
                                      ELSE past[s]]
        /\ row' # row /\ by' = "other"
        /\ UNCHANGED <<file, relations, accepted, cache, events>>

\* stricter_visibility
Stricter(old, new) == IF old >= new THEN old ELSE new

\* What a relation written again keeps of the one before it, deleted or not.  Its
\* notes are the keys of its metadata, one for each level it was written at: a key
\* written again stays, with the new value.
Retaining(old, new) ==
    IF old = None THEN new
    ELSE [new EXCEPT !.rev           = old.rev + 1,
                     !.visibility    = Stricter(old.visibility, new.visibility),
                     !.unconditional = @ \/ old.unconditional,
                     !.supports      = @ \cup old.supports,
                     !.notes         = @ \cup old.notes]

\* add_relation.  A public relation rests on what the public may read.
AddRelation(e, level, supports, private) ==
    LET May(p) == /\ LiveSource(e[1], p) /\ LiveSource(e[2], p)
                  /\ \A x \in supports : Resolves(row, x, p)
    IN  /\ Count(Caller(private))
        /\ May(private)
        /\ IF level = Public THEN May(FALSE) ELSE private
        /\ relations[e] # None => private \/ relations[e].visibility = Public
        /\ relations' = [relations EXCEPT ![e] =
             Retaining(@, [rev |-> 1, deleted |-> FALSE, visibility |-> level,
                           supports |-> supports, notes |-> {level},
                           unconditional |-> supports = {}])]
        /\ UNCHANGED <<file, row, past, accepted, cache>>

RemoveRelation(e, private) ==
    /\ Count(Caller(private))
    /\ relations[e] # None /\ ~relations[e].deleted
    /\ private \/ relations[e].visibility = Public
    /\ Readable(row, e[1], private) /\ Readable(row, e[2], private)
    /\ relations' = [relations EXCEPT ![e].rev = @ + 1, ![e].deleted = TRUE]
    /\ UNCHANGED <<file, row, past, accepted, cache>>

\* set_taxonomy.  A public caller may not replace what it could not have set.
SetTaxonomy(categories, private) ==
    LET V == View(row, Compiled, private)
        May(c) == Slugs(c) \subseteq DOMAIN V /\ (private \/ ~HasPrivate(c))
    IN  /\ Count(Caller(private))
        /\ ~Refused(row, V, private)
        /\ May(categories)
        /\ ~private /\ TaxonomyDocument # None => May(TaxonomyDocument.categories)
        /\ accepted' = [categories |-> categories, consulted |-> {}, made |-> {}]
        /\ UNCHANGED <<file, row, past, relations, cache>>

\* A generated document replaces its cache: what its sources said, and which
\* they were.  It is made when the files are as indexed.
Generate(c, private) ==
    LET view == DOMAIN View(row, Compiled, private)
    IN  /\ Count("other")
        /\ private <=> c = "entities.private"
        /\ view # {} /\ \A s \in view : file[s] = row[s].text
        /\ cache' = [cache EXCEPT ![c] =
             [open       |-> ~private,
              consulted  |-> view,
              made       |-> {row[s].text : s \in view},
              entries    |-> {{s} : s \in view} \cup {view},
              categories |-> <<Category("made", 0, TRUE, view)>>]]
        /\ UNCHANGED <<file, row, past, relations, accepted>>

Cite(e) == {{}} \cup {{<<s, n>>} : s \in {e[1], e[2]}, n \in 1..2}

Next == \/ \E s \in Sources : \E t \in Texts[s] \cup {None} : Edit(s, t)
        \/ Sync
        \/ \E private \in BOOLEAN :
             \/ \E e \in EndSet :
                  \/ \E level \in Levels, x \in Cite(e) : AddRelation(e, level, x, private)
                  \/ RemoveRelation(e, private)
             \/ \E d \in Documents : SetTaxonomy(d, private)
             \/ \E c \in Caches : Generate(c, private)

Spec == Init /\ [][Next]_vars

-----------------------------------------------------------------------------
(* Properties.                                                             *)

TypeOK == /\ file \in [Sources -> AllTexts \cup {None}]
          /\ \A s \in Sources : row[s].rev = Len(past[s])
          /\ \A e \in EndSet : relations[e] # None => relations[e].visibility \in Levels
          /\ by \in {"public", "owner", "other"} /\ events \in 0..MaxEvents

OpenNow(s)  == row[s].deleted \/ (file[s] # None /\ ~file[s].private)
AllOpen(ts) == \A t \in ts : ~t.private

\* What was generated is of texts that were public, and each source consulted
\* is still there and public in its file.
StillOpen(g) == AllOpen(g.made) /\ \A s \in g.of : file[s] # None /\ ~file[s].private

Filed(shown) == UNION {shown[i].filed : i \in DOMAIN shown}

AllEdges == [root |-> None, depth |-> 0, neighbours |-> 1,
             nodes |-> Len(Order), edges |-> 100]

\* What a public caller is shown is public: every source is public in its
\* file at that moment, also when the index does not know of the edit, every
\* cited revision was public, every relation's notes were given for the
\* public, and a cached document is shown only while every source it was made
\* of is public in its file still, however its text was made.
NothingHiddenShown ==
    LET aliases  == Aliases(row, FALSE)
        graph    == Graph(row, relations, AllEdges, FALSE)
        taxonomy == Taxonomy(row, FALSE)
        entities == Entities(row, FALSE)
        xici     == Introduction(row, FALSE)
    IN  /\ aliases # None => \A x \in aliases : \A s \in x[2] : OpenNow(s)
        /\ graph # None =>
             /\ \A s \in graph.nodes : OpenNow(s)
             /\ \A e \in graph.edges :
                  /\ \A x \in e.supports : OpenNow(x[1]) /\ ~past[x[1]][x[2]].private
                  /\ e.notes \subseteq {Public}
        /\ taxonomy # None =>
             /\ \A s \in Filed(taxonomy.shown) : OpenNow(s)
             /\ StillOpen(taxonomy)
        /\ entities # None =>
             /\ \A s \in UNION entities.entries : OpenNow(s)
             /\ StillOpen(entities)
        /\ xici # None => StillOpen(xici)

WithoutPrivate == [s \in Sources |-> IF row[s].text.private THEN None ELSE row[s]]
PublicRelations ==
    [e \in EndSet |-> IF relations[e] # None /\ relations[e].visibility # Public
                    THEN None ELSE relations[e]]

\* Private rows and private relations do not shape what the public sees: every
\* public view is what it would be if they did not exist.  A private namesake
\* makes no alias ambiguous, and no private article takes a place in a graph.
PublicIgnoresPrivate ==
    /\ Aliases(row, FALSE) = Aliases(WithoutPrivate, FALSE)
    /\ \A s \in Sources : ~row[s].text.private =>
         Backlinks(row, s, FALSE) = Backlinks(WithoutPrivate, s, FALSE)
    /\ \A q \in Queries :
         Graph(row, relations, q, FALSE) = Graph(WithoutPrivate, PublicRelations, q, FALSE)
    /\ Taxonomy(row, FALSE) = Taxonomy(WithoutPrivate, FALSE)
    /\ Entities(row, FALSE) = Entities(WithoutPrivate, FALSE)

\* The edges between the sources of a view, told without order or limit.
EveryEdge(V) ==
    LET in      == DOMAIN V
        One(w, among) == {s \in among : w \in {s} \cup V[s].text.names}
        Said(q) == {q[i] : i \in DOMAIN q}
        cites   == {c \in (in \cap Compiled) \X in :
                      \E w \in Said(V[c[1]].text.cites) : One(w, in \ Compiled) = {c[2]}}
    IN  {<<p[1], p[2], "wikilink">> : p \in
            {p \in in \X in : \E w \in Said(V[p[1]].text.links) : One(w, in) = {p[2]}}}
        \cup {<<c[1], c[2], "source_reference">> : c \in cites}
        \cup {<<Order[i[1]], Order[i[2]], "shared_source">> : i \in
            {i \in (DOMAIN Order) \X (DOMAIN Order) :
               /\ i[1] < i[2]
               /\ \E r \in in : {<<Order[i[1]], r>>, <<Order[i[2]], r>>} \subseteq cites}}

\* What lies within so many edges of a source.
Ball(s, depth, keys) ==
    LET within[d \in 0..depth] ==
          IF d = 0 THEN {s}
          ELSE within[d - 1] \cup UNION {Neighbours(keys, r) : r \in within[d - 1]}
    IN  within[depth]

GraphIsExact(q, private) ==
    LET V   == View(row, Sources, private)
        g   == Graph(row, relations, q, private)
        all == {<<e[1], e[2], "manual">> : e \in Related(row, relations, V, private)}
                 \cup EveryEdge(V)
        Reach(keys) == IF q.root = None THEN DOMAIN V
                       ELSE Ball(Resolve(V, DOMAIN V, q.root), q.depth, keys)
    IN  g # None =>
          /\ Cardinality(g.nodes) <= q.nodes
          /\ Keys(g.edges) \subseteq all
          /\ g.nodes \subseteq Reach(Keys(g.edges))
          /\ ~g.truncated => /\ g.nodes = Reach(all)
                             /\ Keys(g.edges) = {k \in all : {k[1], k[2]} \subseteq g.nodes}

\* A graph is no larger than asked and holds what is there; one that does not
\* say it is truncated is exactly what the links, references and relations
\* make it: with a root all that is within the depth, and every edge between.
\* No article is shown twice in the taxonomy, and the owner finds there every
\* article it files.
ViewsAreExact ==
    /\ \A q \in Queries, private \in BOOLEAN : GraphIsExact(q, private)
    /\ \A private \in BOOLEAN :
         LET t == Taxonomy(row, private)
         IN  t # None =>
               /\ \A i, j \in DOMAIN t.shown : i # j => t.shown[i].filed \cap t.shown[j].filed = {}
               /\ private /\ TaxonomyDocument # None =>
                    Filed(t.shown) = Slugs(TaxonomyDocument.categories) \cap DOMAIN View(row, Compiled, TRUE)

\* What a step may do to what is accepted.  A relation never becomes less
\* private and a relation written again keeps its supports and notes, also
\* after it was removed; its revisions count up.  A public caller replaces a
\* taxonomy, and touches a relation, only if all it is about is public in the
\* files, whatever the index still says.
WritesKeep ==
    /\ \A e \in EndSet : relations[e] # None /\ relations'[e] # relations[e] =>
         LET old == relations[e]
             new == relations'[e]
         IN  /\ new.visibility >= old.visibility /\ new.rev = old.rev + 1
             /\ old.supports \subseteq new.supports /\ old.notes \subseteq new.notes
             /\ by' = "public" => /\ old.visibility = Public
                                  /\ OpenNow(e[1]) /\ OpenNow(e[2])
    /\ accepted' # accepted /\ by' = "public" /\ TaxonomyDocument # None =>
         /\ ~HasPrivate(TaxonomyDocument.categories)
         /\ \A s \in Slugs(TaxonomyDocument.categories) : OpenNow(s)

ScopedWrites == [][WritesKeep]_vars
=============================================================================
