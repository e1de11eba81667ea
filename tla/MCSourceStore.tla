---------------------------- MODULE MCSourceStore ----------------------------
(* Instances of SourceStore for TLC: two texts and an original.  A rename  *)
(* or a move takes any content to any text.                                *)
EXTENDS SourceStore, TLC

CONSTANTS a, b, bad

MCContents == {a, b, bad}
MCBad      == {bad}
MCChoices  == (1 :> {a, bad}) @@ (2 :> {b}) @@ (3 :> {bad})
MCReadable == [p \in Paths |-> {a, b}]

Symmetry == Permutations({a, b})

=============================================================================
