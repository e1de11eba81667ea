--------------------------- MODULE MCCompileDrafts ---------------------------
(* Two articles, the first of which the program may take for the second.   *)
(* An answer with both is a batch with a duplicate target when only the    *)
(* second exists.                                                          *)
EXTENDS CompileDrafts, TLC

CONSTANTS x, y

Alone(s) == [slug |-> s, also |-> {}]
Alias    == [slug |-> x, also |-> {y}]

AllBatches   == {<<Alias>>, <<Alias, Alone(y)>>}
RetryBatches == {<<Invalid, Alone(y)>>, <<Alone(y), Alone(x)>>}

\* A public text, a private one, and one whose flag the policy alone takes for private.
Marked(p)  == [private |-> p, visibility |-> "public"]
SomeMarks  == {Marked("no"), Marked("yes"), Marked("odd")}
PublicOnly == {Marked("no")}

\* The first article is public until it is edited; the second may be anything.
FirstPublic == {f \in [Slugs -> Marks \cup {Absent}] : f[x] \in {Marked("no"), Absent}}

Symmetry == Permutations(Compilers)
=============================================================================
