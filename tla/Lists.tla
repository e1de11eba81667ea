-------------------------------- MODULE Lists --------------------------------
(***************************************************************************)
(* The loops over lists that the views of the library share, each the      *)
(* value its loop has after so many rounds.                                *)
(***************************************************************************)
EXTENDS Naturals, Sequences

Elements(q) == {q[i] : i \in DOMAIN q}
IsList(q)   == q \in Seq(Elements(q))

\* The elements of q at the places in P, in order.
Select(q, P) ==
    LET upto[n \in 0..Len(q)] ==
          IF n = 0 THEN <<>>
          ELSE IF n \in P THEN Append(upto[n - 1], q[n]) ELSE upto[n - 1]
    IN  upto[Len(q)]

\* The elements of q that are in S.
InOrder(q, S) == Select(q, {i \in DOMAIN q : q[i] \in S})

\* Each element of q where it is first.
Firsts(q) == {i \in DOMAIN q : \A j \in 1..i - 1 : q[j] # q[i]}

\* The first k elements of q, or all.
Take(q, k) == IF Len(q) <= k THEN q ELSE SubSeq(q, 1, k)

\* The elements of the elements of q.
Flat(q) ==
    LET upto[n \in 0..Len(q)] == IF n = 0 THEN <<>> ELSE upto[n - 1] \o q[n]
    IN  upto[Len(q)]
==============================================================================
