---------------------------- MODULE MCJobLedger -----------------------------
(* JobLedger on a small instance. *)
EXTENDS JobLedger, TLC

\* Jobs, handles and tokens are interchangeable: nothing compares them but for
\* equality.  For invariants and step properties only.
Symmetry == Permutations(Jobs) \cup Permutations(Handles) \cup Permutations(Tokens)
=============================================================================
