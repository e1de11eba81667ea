----------------------------- MODULE Generation -----------------------------
(***************************************************************************)
(* What becomes of a model's answer before it is published, in             *)
(* crates/llmbase-core/src/maintenance_model.rs and entities_model.rs: a   *)
(* category tree is normalised, or made of the tags, and the articles      *)
(* tagged with their categories; entities are asked for batch by batch and *)
(* merged.                                                                 *)
(*                                                                         *)
(* A tree is the sequence of its nodes in the order they are visited, each *)
(* with its depth.  A name stands for its lower case, a size for the bytes *)
(* of a prompt, a description for its length; of people, events and places *)
(* there is one, they are treated alike.  Labels and languages are left    *)
(* out; locks, leases and the publication itself are in Projections.       *)
(*                                                                         *)
(* KeepsRepeats is a mutant, a plausible slip in FirstNamed.               *)
(***************************************************************************)
EXTENDS Naturals, Sequences, Lists

CONSTANTS Order,         \* the articles, by slug
          Tags,          \* the tags an article may bear, a set of sequences
          Trees,         \* the trees a model may answer with
          Mentions,      \* the entities of an answer, a set of sequences
          Sizes,         \* what an article adds to a prompt, [article -> size]
          MaxDepth, MaxNodes, BatchSize, MaxPrompt,
          Other, TagIds, \* the id of the remainder, the ids of tags' categories
          None, MaxEvents

Articles == Elements(Order)

IsTree(tree) ==
    IsList(tree) /\ \A i \in DOMAIN tree : /\ DOMAIN tree[i] = {"id", "depth", "slugs"}
                                          /\ IsList(tree[i].slugs)

Assumptions ==
    /\ IsList(Order) /\ Firsts(Order) = DOMAIN Order
    /\ \A t \in Tags : IsList(t)
    /\ None \notin Trees /\ \A t \in Trees : IsTree(t)
    /\ None \notin Mentions /\ \A m \in Mentions : IsList(m)
    /\ None \notin {"succeeded", "failed", "cancelled"}
    /\ BatchSize \in Nat \ {0} /\ MaxEvents \in Nat

VARIABLES text,          \* an article: its tags, and the own ones a person gave it
          seen,          \* the articles as captured, or None
          touched,       \* those a person has changed since
          at,            \* the next step of the call
          batches,       \* the prompts: the articles of each
          k,             \* the next batch, or the next article to tag
          found,         \* the entities answered so far
          answer,        \* the tree that was answered, or None
          published,     \* the tree or the entities written, or None
          tagging, degraded, failed, cancel,
          status, events

vars == <<text, seen, touched, at, batches, k, found, answer, published, tagging,
          degraded, failed, cancel, status, events>>

Own(tags) == InOrder(tags, {t \in Elements(tags) : ~t.category})

Init == /\ text \in [Articles -> {[tags |-> t, own |-> Own(t)] : t \in Tags}]
        /\ seen = None /\ touched = {} /\ at = "idle" /\ batches = <<>> /\ k = 1
        /\ found = <<>> /\ answer = None /\ published = None
        /\ tagging = FALSE /\ degraded = FALSE /\ failed = FALSE /\ cancel = FALSE
        /\ status = None /\ events = 0

-----------------------------------------------------------------------------
(* Category trees.                                                         *)

FiledIn(tree, n) == UNION {Elements(tree[i].slugs) : i \in 1..n}

KeepsRepeats(tree, i) == Select(tree[i].slugs, Firsts(tree[i].slugs))

\* An article stays where it is named first.
FirstNamed(tree, i) ==
    Select(tree[i].slugs,
           {p \in Firsts(tree[i].slugs) : tree[i].slugs[p] \notin FiledIn(tree, i - 1)})

\* What the visit rejects: an id that is missing or used twice, an article that
\* was not supplied, and trees out of bounds.
Valid(tree) ==
    /\ Len(tree) <= MaxNodes
    /\ \A i \in DOMAIN tree : /\ tree[i].depth <= MaxDepth /\ tree[i].id # ""
                              /\ Elements(tree[i].slugs) \subseteq Articles
                              /\ \A j \in 1..i-1 : tree[j].id # tree[i].id

\* normalize_tree: what is named nowhere goes to a root of its own; None is an
\* error.
Normalized(tree) ==
    LET visited == [i \in DOMAIN tree |-> [tree[i] EXCEPT !.slugs = FirstNamed(tree, i)]]
        missing == InOrder(Order, Articles \ FiledIn(tree, Len(tree)))
        others  == {i \in DOMAIN tree : tree[i].id = Other}
    IN  IF ~Valid(tree) THEN None
        ELSE IF missing = <<>> THEN visited
        ELSE IF others = {}
          THEN Append(visited, [id |-> Other, depth |-> 0, slugs |-> missing])
        ELSE LET i == CHOOSE i \in others : TRUE
             IN  IF visited[i].depth = 0
                   THEN [visited EXCEPT ![i].slugs = @ \o missing] ELSE None

\* fallback_tree: a category for every tag that is the first of an article.
FirstTag(tags) == IF Own(tags) = <<>> THEN <<Other>> ELSE Own(tags)[1].name
Fallback(texts) ==
    LET firsts == [i \in DOMAIN Order |-> FirstTag(texts[Order[i]].tags)]
        groups == Select(firsts, Firsts(firsts))
    IN  [i \in DOMAIN groups |->
           [id |-> TagIds[i], depth |-> 0,
            slugs |-> Select(Order, {p \in DOMAIN Order : firsts[p] = groups[i]})]]

\* category_paths: the ids from the root to the article's node.
Path(tree, s) ==
    LET i == CHOOSE i \in DOMAIN tree : s \in Elements(tree[i].slugs)
    IN  Select([j \in DOMAIN tree |-> tree[j].id],
               {j \in 1..i : \A m \in j + 1..i : tree[m].depth > tree[j].depth})

\* The own tags, then one for every category on the path.
Tagged(tags, path) ==
    Own(tags) \o [d \in DOMAIN path |-> [category |-> TRUE, name |-> SubSeq(path, 1, d)]]

-----------------------------------------------------------------------------
(* Entities.                                                               *)

Prompt(size, first, last) ==
    LET upto[n \in first - 1..last] ==
          IF n < first THEN 0 ELSE upto[n - 1] + size[Order[n]]
    IN  upto[last]

Least(S)    == CHOOSE n \in S : \A m \in S : n <= m
Greatest(S) == CHOOSE n \in S : \A m \in S : m <= n

\* As many articles from here as the batch size and the budget allow, one at
\* least.
LastOf(size, first) ==
    LET most == Least({first + BatchSize - 1, Len(Order)})
    IN  Greatest({e \in first..most : e = first \/ Prompt(size, first, e) <= MaxPrompt})

\* The ranges that are asked for; None when one article exceeds the budget.
Batches(size) ==
    LET start(b) == IF b = <<>> THEN 1 ELSE b[Len(b)][2] + 1
        upto[n \in 0..Len(Order)] ==
          IF n = 0 THEN <<>>
          ELSE IF start(upto[n - 1]) > Len(Order) THEN upto[n - 1]
          ELSE Append(upto[n - 1], <<start(upto[n - 1]), LastOf(size, start(upto[n - 1]))>>)
        all == upto[Len(Order)]
    IN  IF \A i \in DOMAIN all : Prompt(size, all[i][1], all[i][2]) <= MaxPrompt
          THEN all ELSE None

\* parse_entities: a name or a local name, and articles of the batch.
Parses(mentions, batch) ==
    LET known == SubSeq(Order, batch[1], batch[2])
    IN  mentions # None /\ \A m \in Elements(mentions) :
          /\ m.name # "" \/ m.local # ""
          /\ m.articles # {} /\ m.articles \subseteq Elements(known)

\* Up from i, each entity to its parent, until one is its own.
Root(parents, i) ==
    LET up[n \in 0..i] == IF n = 0 THEN i ELSE parents[up[n - 1]] IN up[i]

\* Joins i with the last entity before it that has the same key.
Join(parents, keys, i) ==
    LET before == {j \in 1..i-1 : keys[j] = keys[i]}
        two    == {Root(parents, i), Root(parents, Greatest(before))}
    IN  IF keys[i] = "" \/ before = {} THEN parents
        ELSE [parents EXCEPT ![Greatest(two)] = Least(two)]

\* The entities of one group as one: the first of it, with the articles of all
\* and the longest description.
AsOne(entities, group) ==
    [entities[Least(group)] EXCEPT
       !.articles = UNION {entities[i].articles : i \in group},
       !.text     = Greatest({entities[i].text : i \in group})]

Joined(entities) ==
    LET names  == [i \in DOMAIN entities |-> entities[i].name]
        locals == [i \in DOMAIN entities |-> entities[i].local]
        upto[n \in 0..Len(entities)] ==
          IF n = 0 THEN [i \in DOMAIN entities |-> i]
          ELSE Join(Join(upto[n - 1], names, n), locals, n)
    IN  upto[Len(entities)]

\* dedup_entities: those that have one root are one.
Merge(entities) ==
    {AsOne(entities, {j \in DOMAIN entities :
                        Root(Joined(entities), j) = Root(Joined(entities), i)})
       : i \in DOMAIN entities}

-----------------------------------------------------------------------------
(* The calls.                                                              *)

End(result) == at' = "over" /\ status' = result

\* generate_taxonomy: the articles are captured before the model is asked.
StartTaxonomy ==
    /\ at = "idle" /\ at' = "taxonomy"
    /\ seen' = text /\ tagging' \in BOOLEAN
    /\ UNCHANGED <<text, touched, batches, k, found, answer, published, degraded,
                   failed, cancel, status, events>>

\* The model answers, or fails, and with fallback_to_tags the tags stand in for
\* it; the tree is published while the articles are as captured.
Answer ==
    /\ at = "taxonomy"
    /\ \E tree \in Trees \cup {None}, fallback \in BOOLEAN :
         LET used   == IF tree = None /\ fallback THEN Fallback(seen) ELSE tree
             result == IF used = None THEN None ELSE Normalized(used)
             stale  == text # seen
         IN  \/ /\ cancel /\ End("cancelled")
                /\ UNCHANGED <<answer, published, degraded>>
             \/ /\ result = None \/ stale
                /\ End("failed") /\ UNCHANGED <<answer, published, degraded>>
             \/ /\ ~cancel /\ result # None /\ ~stale
                /\ answer' = used /\ published' = result /\ degraded' = (tree = None)
                /\ at' = "tags" /\ UNCHANGED status
    /\ UNCHANGED <<text, seen, touched, batches, k, found, tagging, failed, cancel, events>>

\* write_source_guarded: the article is as captured, or the write fails.
WriteTags(s, tags) ==
    IF text[s] = seen[s] THEN text' = [text EXCEPT ![s].tags = tags]
    ELSE UNCHANGED text

\* sync_category_tags, one article; a cancelled job stops here.
Tag ==
    /\ at = "tags" /\ tagging /\ k <= Len(Order)
    /\ LET s    == Order[k]
           tags == Tagged(seen[s].tags, Path(published, s))
       IN  IF cancel \/ tags = seen[s].tags
             THEN /\ failed' = (failed \/ cancel)
                  /\ k' = IF cancel THEN Len(Order) + 1 ELSE k + 1
                  /\ UNCHANGED text
             ELSE /\ WriteTags(s, tags)
                  /\ failed' = (failed \/ text[s] # seen[s]) /\ k' = k + 1
    /\ UNCHANGED <<seen, touched, at, batches, found, answer, published, tagging,
                   degraded, cancel, status, events>>

\* finish.
Finish ==
    /\ at = "tags" /\ (tagging => k > Len(Order))
    /\ End(IF degraded \/ failed THEN "partial" ELSE "succeeded")
    /\ UNCHANGED <<text, seen, touched, batches, k, found, answer, published, tagging,
                   degraded, failed, cancel, events>>

\* generate_entities: the prompts are laid out before the first is sent.
StartEntities ==
    /\ at = "idle" /\ seen' = text
    /\ \E size \in Sizes :
         IF Batches(size) = None THEN End("failed") /\ UNCHANGED batches
         ELSE batches' = Batches(size) /\ at' = "entities" /\ UNCHANGED status
    /\ UNCHANGED <<text, touched, k, found, answer, published, tagging, degraded,
                   failed, cancel, events>>

\* One batch: an answer that does not parse ends the call.
Extract ==
    /\ at = "entities" /\ k <= Len(batches)
    /\ \E mentions \in Mentions \cup {None} :
         LET bad == ~Parses(mentions, batches[k])
         IN  \/ cancel /\ End("cancelled") /\ UNCHANGED <<k, found>>
             \/ bad /\ End("failed") /\ UNCHANGED <<k, found>>
             \/ /\ ~cancel /\ ~bad
                /\ found' = found \o mentions /\ k' = k + 1
                /\ UNCHANGED <<at, status>>
    /\ UNCHANGED <<text, seen, touched, batches, answer, published, tagging, degraded,
                   failed, cancel, events>>

PublishEntities ==
    /\ at = "entities" /\ k > Len(batches)
    /\ LET bad == found = <<>> \/ text # seen
       IN  \/ cancel /\ End("cancelled") /\ UNCHANGED published
           \/ bad /\ End("failed") /\ UNCHANGED published
           \/ ~cancel /\ ~bad /\ published' = Merge(found) /\ End("succeeded")
    /\ UNCHANGED <<text, seen, touched, batches, k, found, answer, tagging, degraded,
                   failed, cancel, events>>

\* A person gives an article other tags, or somebody cancels.
Edit ==
    /\ at \notin {"idle", "over"} /\ events < MaxEvents /\ events' = events + 1
    /\ \/ /\ \E s \in Articles, tags \in Tags :
               /\ text' = [text EXCEPT ![s] = [tags |-> tags, own |-> Own(tags)]]
               /\ touched' = touched \cup {s}
          /\ UNCHANGED cancel
       \/ cancel' = TRUE /\ UNCHANGED <<text, touched>>
    /\ UNCHANGED <<seen, at, batches, k, found, answer, published, tagging, degraded,
                   failed, status>>

Next == \/ StartTaxonomy \/ Answer \/ Tag \/ Finish
        \/ StartEntities \/ Extract \/ PublishEntities
        \/ Edit

Spec == Init /\ [][Next]_vars

-----------------------------------------------------------------------------
(* Properties.                                                             *)

\* A published tree files every article once, where the answer named it first,
\* under ids that are its own.
FiledOnce ==
    answer # None =>
      LET named(s) == {i \in DOMAIN answer : s \in Elements(answer[i].slugs)}
      IN  /\ \A s \in Articles :
               \E i \in DOMAIN published : \E p \in DOMAIN published[i].slugs :
                 /\ published[i].slugs[p] = s
                 /\ \A j \in DOMAIN published : \A r \in DOMAIN published[j].slugs :
                      published[j].slugs[r] = s => j = i /\ r = p
                 /\ named(s) # {} => i \in named(s) /\ \A j \in named(s) : i <= j
          /\ \A i \in DOMAIN published :
               /\ Elements(published[i].slugs) \subseteq Articles
               /\ \A j \in DOMAIN published : published[i].id = published[j].id => i = j

\* The batches take the articles in order, leave none out and fit the budget.
BatchesCover ==
    batches # <<>> =>
      /\ batches[1][1] = 1 /\ batches[Len(batches)][2] = Len(Order)
      /\ \A i \in DOMAIN batches :
           /\ batches[i][1] <= batches[i][2]
           /\ batches[i][2] - batches[i][1] < BatchSize
           /\ i > 1 => batches[i][1] = batches[i - 1][2] + 1

\* Entities that share a name, or are joined by others that do, become one that
\* has their articles; no others do.
MergedExactly ==
    (at = "over" /\ answer = None /\ published # None) =>
      LET alike(i, j) == \/ found[i].name # "" /\ found[i].name = found[j].name
                         \/ found[i].local # "" /\ found[i].local = found[j].local
          closed   == {C \in SUBSET DOMAIN found :
                         \A i \in C, j \in DOMAIN found : alike(i, j) => j \in C}
          class(i) == {j \in DOMAIN found : \A C \in closed : i \in C => j \in C}
      IN  published = {AsOne(found, class(i)) : i \in DOMAIN found}

\* Whatever is tagged, the own tags of an article are those a person gave it last.
OwnTagsKept == \A s \in Articles : Own(text[s].tags) = text[s].own

\* A job that succeeded has tagged what nobody changed, one that failed or was
\* cancelled has changed nothing.
StatusIsHonest ==
    /\ status = "succeeded" /\ tagging =>
         \A s \in Articles \ touched :
           text[s].tags = Tagged(seen[s].tags, Path(published, s))
    /\ status \in {"failed", "cancelled"} =>
         published = None /\ \A s \in Articles \ touched : text[s] = seen[s]
=============================================================================
