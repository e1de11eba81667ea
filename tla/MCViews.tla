------------------------------- MODULE MCViews -------------------------------
(* Instances of Views for TLC: each part small enough to be told at a       *)
(* glance, large enough for what is hidden, cut or merged.                  *)
EXTENDS Views, TLC

CONSTANTS p1, p2, t1, t2

(* Two articles that link to each other and cite a raw source; either can  *)
(* be hidden, and then b bears a's other name.                             *)

Source(hidden, names, links, cites) ==
    [private |-> hidden, names |-> names, links |-> links, cites |-> cites]
SourceA == Source(FALSE, {"x"}, <<"y">>, <<"z">>)
SourceB == Source(FALSE, {"y"}, <<"x", "a">>, <<"z">>)
SourceR == Source(FALSE, {"z"}, <<>>, <<>>)
HiddenA == Source(TRUE, {"x"}, <<"y">>, <<"z">>)
HiddenB == Source(TRUE, {"x", "y"}, <<>>, <<>>)
Category(key, depth, shown, slugs) ==
    [id |-> key, depth |-> depth, open |-> shown, slugs |-> slugs]
Bounds(root, depth, neighbours, nodes, edges) ==
    [root |-> root, depth |-> depth, neighbours |-> neighbours,
     nodes |-> nodes, edges |-> edges]

MCShelf     == <<"a", "b", "r">>
MCCompiled  == {"a", "b"}
MCSayings   == [a |-> {SourceA, HiddenA}, b |-> {SourceB, HiddenB}, r |-> {SourceR}]
MCLibraries == {[a |-> SourceA, b |-> t, r |-> SourceR] : t \in {SourceB, HiddenB}}
MCEnds      == <<<<"a", "b">>>>
MCDocuments ==
    {<<Category(1, 0, TRUE, {"a"}), Category(2, 1, FALSE, {"b"})>>,
     <<Category(1, 0, TRUE, {"a", "b"}), Category(2, 1, TRUE, {"a"})>>}
MCQueries   == {Bounds(None, 0, 1, 2, 9), Bounds("x", 1, 1, 3, 2),
                Bounds("b", 2, 2, 3, 9), Bounds("r", 2, 2, 2, 9)}

(* Three articles, one of which can be hidden and then bears the other's    *)
(* name, and one of which may come not to parse.                           *)

Page(hidden, names, links, thin, untidy, broken) ==
    [private |-> hidden, names |-> names, links |-> links, thin |-> thin,
     untidy |-> untidy, broken |-> broken]
PageA   == Page(FALSE, {"x"}, {"y"}, FALSE, TRUE, FALSE)
PageB   == Page(FALSE, {"y"}, {"r", "c"}, TRUE, FALSE, FALSE)
PageC   == Page(FALSE, {"z"}, {}, TRUE, TRUE, FALSE)
HiddenPageA == Page(TRUE, {"x"}, {"y"}, FALSE, TRUE, FALSE)
HiddenPageB == Page(TRUE, {"x", "y"}, {}, TRUE, TRUE, FALSE)
TidyC   == Page(FALSE, {"z"}, {}, TRUE, FALSE, FALSE)
BrokenC == Page(FALSE, {"z"}, {}, FALSE, FALSE, TRUE)

MCPages      == <<"a", "b", "c">>
MCArticles   == {"a", "b", "c"}
MCPageTexts  == [a |-> {PageA, HiddenPageA}, b |-> {PageB, HiddenPageB},
                 c |-> {TidyC, BrokenC}]
MCSites      == {[a |-> PageA, b |-> t, c |-> PageC] : t \in {PageB, HiddenPageB}}
MCAliases    == {<<>>, [x |-> "b"]}
MCWords      == {"x", "b"}
MCOperations == {"list", "lite", "health", "search", "article", "aliases", "graph",
                 "delete", "clean", "fix"}
MCBound      == [nodes |-> 2, near |-> 1]

(* Three articles; trees of up to three nodes, repeats, strangers and       *)
(* misplaced ids included; entities that are one by name, by local name or *)
(* by way of others; prompts that fit and that do not.                     *)

MCFiling    == <<"a", "b", "c">>
Ordinary(n) == [category |-> FALSE, name |-> <<n>>]
StaleTag    == [category |-> TRUE, name |-> <<"old">>]
MCTags      == {<<>>, <<StaleTag, Ordinary("t")>>}
MCTagIds    == <<"t0", "t1">>
Node(key, depth, slugs) == [id |-> key, depth |-> depth, slugs |-> slugs]
Nodes       == {Node(key, depth, slugs) : key \in {"i", "o"}, depth \in {0, 1},
                  slugs \in {<<>>, <<"a">>, <<"b", "a", "b">>, <<"z">>}}
MCTrees     ==
    {t \in UNION {[1..n -> Nodes] : n \in 0..2} : t # <<>> => t[1].depth = 0}
    \cup {<<Node("i", 0, <<"a">>), Node("j", 1, <<"c", "a">>), Node("o", 0, <<"b">>)>>,
          <<Node("i", 0, <<>>), Node("j", 1, <<>>), Node("o", 2, <<>>)>>,
          <<Node("i", 0, <<>>), Node("j", 0, <<>>), Node("k", 0, <<>>),
            Node("o", 0, <<>>)>>}
Entity(name, local, articles, words) ==
    [name |-> name, local |-> local, articles |-> articles, text |-> words]
Named       == {Entity("x", "", {"a"}, 1), Entity("y", "l", {"b"}, 0),
                Entity("x", "l", {"a", "b"}, 2), Entity("y", "", {"c"}, 1),
                Entity("", "m", {"c"}, 2)}
MCMentions  ==
    UNION {[1..n -> Named] : n \in 0..2}
    \cup {<<Entity("", "", {"a"}, 0)>>, <<Entity("x", "", {}, 0)>>,
          <<Entity("x", "", {"a"}, 1), Entity("y", "", {"b"}, 0),
            Entity("z", "l", {"a"}, 0), Entity("y", "l", {"b"}, 1)>>,
          <<Entity("z", "l", {"a"}, 0), Entity("y", "", {"b"}, 0),
            Entity("x", "", {"a"}, 1), Entity("x", "l", {"b"}, 1),
            Entity("y", "l", {"b"}, 1)>>}
MCSizes     == [{"a", "b", "c"} -> {1, 2}]
               \cup {[s \in {"a", "b", "c"} |-> IF s = "b" THEN 4 ELSE 1]}

(* Two passages with a text each.                                           *)

MCPassages  == {p1, p2}
MCQuotes    == {t1, t2}
MCTextOf    == (p1 :> t1) @@ (p2 :> t2)
MCSnapshots == {{p1}, MCPassages}

\* Searches are for the text that is not in every snapshot.  Once the index has
\* changed, a search runs beside one builder, or two builders side by side.
AsSearched ==
    part = "vectors" =>
        /\ \A s \in Searchers : search'[s].query # t1
        /\ \/ syncs' = 0 \/ \A s \in Searchers : search'[s] = V!NoSearch
           \/ \E b \in Builders : build'[b] = V!NoBuild

ViewsSpec == Init /\ [][Next /\ AsSearched]_vars

\* Builders are interchangeable, and so are specifications.
Symmetry == Permutations(Builders) \cup Permutations(Specs)
=============================================================================
