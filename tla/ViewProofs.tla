------------------------------ MODULE ViewProofs ------------------------------
(***************************************************************************)
(* Theorems about Views.                                                   *)
(***************************************************************************)
EXTENDS Views, FiniteSetTheorems, SequenceTheorems, WellFoundedInduction, TLAPS

(* Induction, and loops over a list: f[n] is what the loop has after n      *)
(* rounds, from b on, g[n] being what the n-th round does.                  *)

\* Every set of numbers has a least.
LEMMA LeastNumber ==
  ASSUME NEW H, H \subseteq Nat, H # {}
  PROVE  \E x \in H : \A y \in H : x <= y
<1> DEFINE R == OpToRel(<, Nat)
<1>1. IsWellFoundedOn(R, Nat)
  BY NatLessThanWellFounded
<1>2. \A x, y \in Nat : y < x => <<y, x>> \in R
  <2> SUFFICES ASSUME NEW x \in Nat, NEW y \in Nat, y < x PROVE <<y, x>> \in R
    OBVIOUS
  <2>1. <<y, x>> \in Nat \X Nat /\ <<y, x>>[1] < <<y, x>>[2]
    OBVIOUS
  <2> QED
    BY <2>1 DEF OpToRel
<1> HIDE DEF R
<1>3. \E x \in H : \A y \in H : ~(<<y, x>> \in R)
  BY <1>1, WFMin
<1>4. PICK x \in H : \A y \in H : ~(<<y, x>> \in R)
  BY <1>3
<1>5. \A y \in H : ~(y < x)
  BY <1>2, <1>4
<1> QED
  BY <1>5

\* A set of numbers that has 0 and with n also n + 1 has all.
LEMMA Induction ==
  ASSUME NEW H, 0 \in H, \A n \in Nat : n \in H => n + 1 \in H
  PROVE  Nat \subseteq H
<1> SUFFICES ASSUME NEW m \in Nat, m \notin H PROVE FALSE
  OBVIOUS
<1> DEFINE U == {n \in Nat : n \notin H}
<1>1. PICK x \in U : \A y \in U : x <= y
  BY LeastNumber
<1>2. x # 0 /\ x \in Nat
  BY <1>1
<1>3. x - 1 \in Nat /\ (x - 1) + 1 = x /\ ~(x <= x - 1)
  BY <1>2
<1>4. x - 1 \in H
  BY <1>1, <1>3
<1> QED
  BY <1>1, <1>3, <1>4


Loops(f, X, b, N, g) == /\ f \in [0..N -> X] /\ f[0] = b
                        /\ \A n \in 1..N : f[n - 1] \in X /\ f[n] = g[n][f[n - 1]]

\* A loop of N rounds has a value after each.
LEMMA Loop ==
  ASSUME NEW X, NEW b \in X, NEW N \in Nat, NEW g \in [1..N -> [X -> X]]
  PROVE  \E f : Loops(f, X, b, N, g)
<1> DEFINE H == {n \in Nat : n <= N => \E f : Loops(f, X, b, n, g)}
<1>1. 0 \in H
  <2>1. Loops([m \in 0..0 |-> b], X, b, 0, g)
    BY DEF Loops
  <2> QED
    BY <2>1
<1>2. ASSUME NEW n \in Nat, n \in H, n + 1 <= N PROVE \E f : Loops(f, X, b, n + 1, g)
  <2>1. PICK f : Loops(f, X, b, n, g)
    BY <1>2
  <2>2. f \in [0..n -> X] /\ f[0] = b /\ \A m \in 1..n : f[m - 1] \in X /\ f[m] = g[m][f[m - 1]]
    BY <2>1 DEF Loops
  <2> DEFINE h == [m \in 0..n+1 |-> IF m = n + 1 THEN g[n + 1][f[n]] ELSE f[m]]
  <2>3. n \in 0..n /\ n + 1 \in 1..N /\ f[n] \in X
    BY <1>2, <2>2
  <2>4. g[n + 1][f[n]] \in X
    BY <2>3
  <2>5. h \in [0..n+1 -> X] /\ h[0] = b
    BY <2>2, <2>4
  <2>6. \A m \in 0..n : h[m] = f[m]
    OBVIOUS
  <2>7. h[n + 1] = g[n + 1][f[n]]
    OBVIOUS
  <2> HIDE DEF h
  <2>8. ASSUME NEW m \in 1..n+1 PROVE h[m - 1] \in X /\ h[m] = g[m][h[m - 1]]
    <3>1. CASE m = n + 1
      <4>1. m - 1 = n
        BY <3>1
      <4> QED
        BY <3>1, <4>1, <2>3, <2>6, <2>7
    <3>2. CASE m # n + 1
      <4>1. m \in 1..n /\ m \in 0..n /\ m - 1 \in 0..n
        BY <3>2
      <4> QED
        BY <4>1, <2>2, <2>6
    <3> QED
      BY <3>1, <3>2
  <2>9. Loops(h, X, b, n + 1, g)
    BY <2>5, <2>8 DEF Loops
  <2> QED
    BY <2>9
<1>3. \A n \in Nat : n \in H => n + 1 \in H
  BY <1>2
<1> HIDE DEF H
<1>4. Nat \subseteq H
  BY <1>1, <1>3, Induction
<1> QED
  BY <1>4 DEF H

\* A loop whose n-th round leads from P[n - 1] to P[n].
Keeps(f, P, b, N, g) == /\ f = [n \in 0..N |-> f[n]] /\ f[0] = b
                        /\ \A n \in 0..N : f[n] \in P[n]
                        /\ \A n \in 1..N : f[n] = g[n][f[n - 1]]

LEMMA LoopKept ==
  ASSUME NEW N \in Nat, NEW P, NEW b \in P[0], NEW g,
         \A n \in 1..N : \A x \in P[n - 1] : g[n][x] \in P[n]
  PROVE  \E f : Keeps(f, P, b, N, g)
<1> DEFINE H == {n \in Nat : n <= N => \E f : Keeps(f, P, b, n, g)}
<1>1. 0 \in H
  <2>1. Keeps([m \in 0..0 |-> b], P, b, 0, g)
    BY DEF Keeps
  <2> QED
    BY <2>1
<1>2. ASSUME NEW n \in Nat, n \in H, n + 1 <= N PROVE \E f : Keeps(f, P, b, n + 1, g)
  <2>1. PICK f : Keeps(f, P, b, n, g)
    BY <1>2
  <2>2. /\ f[0] = b /\ \A m \in 0..n : f[m] \in P[m]
        /\ \A m \in 1..n : f[m] = g[m][f[m - 1]]
    BY <2>1 DEF Keeps
  <2> DEFINE h == [m \in 0..n+1 |-> IF m = n + 1 THEN g[n + 1][f[n]] ELSE f[m]]
  <2>3. n \in 0..n /\ n + 1 \in 1..N /\ (n + 1) - 1 = n
    BY <1>2
  <2>4. g[n + 1][f[n]] \in P[n + 1]
    BY <2>2, <2>3
  <2>5. h = [m \in 0..n+1 |-> h[m]] /\ h[0] = b
    BY <2>2
  <2>6. \A m \in 0..n : h[m] = f[m]
    OBVIOUS
  <2>7. h[n + 1] = g[n + 1][f[n]]
    OBVIOUS
  <2> HIDE DEF h
  <2>8. ASSUME NEW m \in 1..n+1 PROVE h[m] = g[m][h[m - 1]]
    <3>1. CASE m = n + 1
      <4>1. m - 1 = n
        BY <3>1
      <4> QED
        BY <3>1, <4>1, <2>3, <2>6, <2>7
    <3>2. CASE m # n + 1
      <4>1. m \in 1..n /\ m \in 0..n /\ m - 1 \in 0..n
        BY <3>2
      <4> QED
        BY <4>1, <2>2, <2>6
    <3> QED
      BY <3>1, <3>2
  <2>9. \A m \in 0..n+1 : m \in 0..n \/ m = n + 1
    OBVIOUS
  <2>10. \A m \in 0..n+1 : h[m] \in P[m]
    BY <2>2, <2>4, <2>6, <2>7, <2>9
  <2>11. Keeps(h, P, b, n + 1, g)
    BY <2>5, <2>8, <2>10 DEF Keeps
  <2> QED
    BY <2>11
<1>3. \A n \in Nat : n \in H => n + 1 \in H
  BY <1>2
<1> HIDE DEF H
<1>4. Nat \subseteq H
  BY <1>1, <1>3, Induction
<1> QED
  BY <1>4 DEF H

-----------------------------------------------------------------------------
(* Lists.                                                                  *)

\* The loop of Select: u[n] is what it has after n rounds.
Selects(u, q, P, A) ==
    /\ u \in [0..Len(q) -> Seq(A)] /\ u[0] = <<>>
    /\ \A n \in 1..Len(q) : u[n] = (IF n \in P THEN Append(u[n - 1], q[n]) ELSE u[n - 1])
    /\ Select(q, P) = u[Len(q)]

LEMMA SelectLoop ==
  ASSUME NEW A, NEW q \in Seq(A), NEW P PROVE \E u : Selects(u, q, P, A)
<1> DEFINE N == Len(q)
           X == Seq(A)
           nil == <<>>
           step(n, x) == IF n \in P THEN Append(x, q[n]) ELSE x
           g == [n \in 1..N |-> [x \in X |-> step(n, x)]]
<1>1. g \in [1..N -> [X -> X]] /\ nil \in X /\ N \in Nat
  OBVIOUS
<1>2. \A n \in 1..N, x \in X : g[n][x] = step(n, x)
  OBVIOUS
<1> HIDE DEF g, X, nil, N, step
<1>3. PICK f : Loops(f, X, nil, N, g)
  BY <1>1, Loop
<1>4. \A n \in 1..N : f[n] = step(n, f[n - 1])
  BY <1>2, <1>3 DEF Loops
<1>5. \A n \in 0..N : f[n] = IF n = 0 THEN nil ELSE step(n, f[n - 1])
  BY <1>3, <1>4, <1>1 DEF Loops
<1>6. f = [n \in 0..N |-> IF n = 0 THEN nil ELSE step(n, f[n - 1])]
  BY <1>3, <1>5 DEF Loops
<1>7. f = [n \in 0..N |-> IF n = 0 THEN <<>>
                          ELSE IF n \in P THEN Append(f[n - 1], q[n]) ELSE f[n - 1]]
  BY <1>6 DEF nil, step
<1> DEFINE upto[n \in 0..N] ==
              IF n = 0 THEN <<>>
              ELSE IF n \in P THEN Append(upto[n - 1], q[n]) ELSE upto[n - 1]
<1>8. upto = [n \in 0..N |-> IF n = 0 THEN <<>>
                             ELSE IF n \in P THEN Append(upto[n - 1], q[n]) ELSE upto[n - 1]]
  BY <1>7
<1>9. Select(q, P) = upto[N]
  BY DEF Select, N
<1> HIDE DEF upto
<1>10. upto = [n \in 0..N |-> IF n = 0 THEN nil ELSE step(n, upto[n - 1])]
  BY <1>8 DEF nil, step
<1>11. upto[0] = nil /\ \A n \in 1..N : upto[n] = step(n, upto[n - 1])
  BY <1>10, <1>1
<1> DEFINE H == {n \in Nat : n <= N => upto[n] \in X}
<1>12. 0 \in H
  BY <1>1, <1>11
<1>13. ASSUME NEW n \in Nat, n \in H, n + 1 <= N PROVE upto[n + 1] \in X
  <2>1. n + 1 \in 1..N /\ (n + 1) - 1 = n /\ n <= N
    BY <1>1, <1>13
  <2>2. upto[n] \in X
    BY <1>13, <2>1
  <2>3. upto[n + 1] = step(n + 1, upto[n])
    BY <1>11, <2>1
  <2>4. g[n + 1][upto[n]] \in X
    BY <1>1, <2>1, <2>2
  <2> QED
    BY <1>2, <2>1, <2>2, <2>3, <2>4
<1>14. \A n \in Nat : n \in H => n + 1 \in H
  BY <1>13
<1> HIDE DEF H
<1>15. Nat \subseteq H
  BY <1>12, <1>14, Induction
<1>16. upto \in [0..N -> X]
  <2>1. \A n \in 0..N : upto[n] \in X
    BY <1>1, <1>15 DEF H
  <2> QED
    BY <1>10, <2>1
<1>17. Selects(upto, q, P, A)
  BY <1>9, <1>11, <1>16 DEF N, X, nil, step, Selects
<1> HIDE DEF N, X, nil, step
<1> QED
  BY <1>17

\* r has the elements of q at those of its first n places that are in P, m
\* saying where each comes from.
Picks(m, r, q, P, n) ==
    /\ m \in [1..Len(r) -> 1..n]
    /\ \A i \in 1..Len(r) : m[i] \in P /\ r[i] = q[m[i]]
    /\ \A i, j \in 1..Len(r) : i < j => m[i] < m[j]
    /\ \A p \in 1..n : p \in P => \E i \in 1..Len(r) : m[i] = p
Picked(r, q, P, n) == \E m : Picks(m, r, q, P, n)

LEMMA PickedNext ==
  ASSUME NEW A, NEW q \in Seq(A), NEW P, NEW n \in Nat, n + 1 <= Len(q),
         NEW r \in Seq(A), Picked(r, q, P, n)
  PROVE  Picked(IF n + 1 \in P THEN Append(r, q[n + 1]) ELSE r, q, P, n + 1)
<1>1. PICK m : Picks(m, r, q, P, n)
  BY DEF Picked
<1>2. /\ m \in [1..Len(r) -> 1..n] /\ Len(r) \in Nat
      /\ \A i \in 1..Len(r) : m[i] \in P /\ r[i] = q[m[i]]
      /\ \A i, j \in 1..Len(r) : i < j => m[i] < m[j]
      /\ \A p \in 1..n : p \in P => \E i \in 1..Len(r) : m[i] = p
  BY <1>1 DEF Picks
<1>3. \A p \in 1..n+1 : p \in 1..n \/ p = n + 1
  OBVIOUS
<1>4. CASE n + 1 \notin P
  <2>1. Picks(m, r, q, P, n + 1)
    BY <1>2, <1>3, <1>4 DEF Picks
  <2> QED
    BY <1>4, <2>1 DEF Picked
<1>5. CASE n + 1 \in P
  <2> DEFINE s == Append(r, q[n + 1])
             z == [i \in 1..Len(r)+1 |-> IF i = Len(r) + 1 THEN n + 1 ELSE m[i]]
  <2>1. q[n + 1] \in A
    OBVIOUS
  <2>2. /\ Len(s) = Len(r) + 1 /\ s[Len(r) + 1] = q[n + 1]
        /\ \A i \in 1..Len(r) : s[i] = r[i]
    BY <2>1
  <2>3. /\ z \in [1..Len(r)+1 -> 1..n+1] /\ z[Len(r) + 1] = n + 1
        /\ \A i \in 1..Len(r) : z[i] = m[i]
    BY <1>2
  <2> HIDE DEF s, z
  <2>4. \A i \in 1..Len(r)+1 : i \in 1..Len(r) \/ i = Len(r) + 1
    BY <1>2
  <2>5. \A i \in 1..Len(s) : z[i] \in P /\ s[i] = q[z[i]]
    BY <1>2, <1>5, <2>2, <2>3, <2>4
  <2>6. ASSUME NEW i \in 1..Len(s), NEW j \in 1..Len(s), i < j PROVE z[i] < z[j]
    <3>1. i \in 1..Len(r) /\ m[i] \in 1..n
      BY <1>2, <2>2, <2>6
    <3>2. CASE j \in 1..Len(r)
      BY <1>2, <2>3, <2>6, <3>1, <3>2
    <3>3. CASE j = Len(r) + 1
      BY <2>3, <3>1, <3>3
    <3> QED
      BY <2>2, <2>4, <3>2, <3>3
  <2>7. ASSUME NEW p \in 1..n+1, p \in P PROVE \E i \in 1..Len(s) : z[i] = p
    <3>1. CASE p \in 1..n
      <4>1. PICK i \in 1..Len(r) : m[i] = p
        BY <1>2, <2>7, <3>1
      <4> QED
        BY <1>2, <2>2, <2>3, <4>1
    <3>2. CASE p = n + 1
      <4>1. Len(r) + 1 \in 1..Len(s)
        BY <1>2, <2>2
      <4> QED
        BY <2>3, <3>2, <4>1
    <3> QED
      BY <1>3, <3>1, <3>2
  <2>8. Picks(z, s, q, P, n + 1)
    BY <2>2, <2>3, <2>5, <2>6, <2>7 DEF Picks
  <2> QED
    BY <1>5, <2>8 DEF Picked, s
<1> QED
  BY <1>4, <1>5

\* What Select returns.
LEMMA SelectIs ==
  ASSUME NEW A, NEW q \in Seq(A), NEW P
  PROVE  Select(q, P) \in Seq(A) /\ Picked(Select(q, P), q, P, Len(q))
<1>0. PICK u : Selects(u, q, P, A)
  BY SelectLoop
<1>1. /\ u \in [0..Len(q) -> Seq(A)] /\ u[0] = <<>>
      /\ \A n \in 1..Len(q) : u[n] = (IF n \in P THEN Append(u[n - 1], q[n]) ELSE u[n - 1])
      /\ Select(q, P) = u[Len(q)]
  BY <1>0 DEF Selects
<1> DEFINE H == {n \in Nat : n <= Len(q) => Picked(u[n], q, P, n)}
<1>2. 0 \in H
  <2>1. Picks(<<>>, <<>>, q, P, 0)
    BY DEF Picks
  <2> QED
    BY <1>1, <2>1 DEF Picked
<1>3. ASSUME NEW n \in Nat, n \in H, n + 1 <= Len(q) PROVE Picked(u[n + 1], q, P, n + 1)
  <2>1. n + 1 \in 1..Len(q) /\ (n + 1) - 1 = n /\ n <= Len(q) /\ n \in 0..Len(q)
    BY <1>3
  <2>2. Picked(u[n], q, P, n) /\ u[n] \in Seq(A)
    BY <1>1, <1>3, <2>1
  <2>3. u[n + 1] = IF n + 1 \in P THEN Append(u[n], q[n + 1]) ELSE u[n]
    BY <1>1, <2>1
  <2> QED
    BY <1>3, <2>2, <2>3, PickedNext
<1>4. \A n \in Nat : n \in H => n + 1 \in H
  BY <1>3
<1> HIDE DEF H
<1>5. Len(q) \in H
  BY <1>2, <1>4, Induction
<1> QED
  BY <1>1, <1>5 DEF H

LEMMA InOrderIs ==
  ASSUME NEW A, NEW q \in Seq(A), NEW S
  PROVE  /\ InOrder(q, S) \in Seq(A)
         /\ Elements(InOrder(q, S)) = Elements(q) \cap S
<1> DEFINE P == {i \in DOMAIN q : q[i] \in S}
           r == InOrder(q, S)
<1>1. r \in Seq(A) /\ Picked(r, q, P, Len(q))
  BY SelectIs DEF InOrder
<1>2. PICK m : Picks(m, r, q, P, Len(q))
  BY <1>1 DEF Picked
<1>3. DOMAIN q = 1..Len(q) /\ DOMAIN r = 1..Len(r) /\ \A i \in P : q[i] \in S
  BY <1>1
<1>4. \A i \in DOMAIN q : q[i] \in S => i \in P
  OBVIOUS
<1> HIDE DEF P, r
<1>5. ASSUME NEW i \in DOMAIN r PROVE r[i] \in Elements(q) \cap S
  BY <1>2, <1>3 DEF Picks, Elements
<1>6. ASSUME NEW i \in DOMAIN q, q[i] \in S PROVE q[i] \in Elements(r)
  <2>1. PICK j \in 1..Len(r) : m[j] = i
    BY <1>2, <1>3, <1>4, <1>6 DEF Picks
  <2>2. r[j] = q[i]
    BY <1>2, <2>1 DEF Picks
  <2> QED
    BY <1>3, <2>2 DEF Elements
<1>7. Elements(r) \subseteq Elements(q) \cap S
  BY <1>5 DEF Elements
<1>8. Elements(q) \cap S \subseteq Elements(r)
  BY <1>6 DEF Elements
<1> QED
  BY <1>1, <1>7, <1>8 DEF r

\* Increasing maps into the first numbers go no further than these.
LEMMA PickedLength ==
  ASSUME NEW r, NEW q, NEW P, NEW n \in Nat, Len(r) \in Nat, Picked(r, q, P, n)
  PROVE  Len(r) <= n
<1>1. PICK m : Picks(m, r, q, P, n)
  BY DEF Picked
<1> DEFINE H == {i \in Nat : i \in 1..Len(r) => i <= m[i]}
<1>2. 0 \in H
  OBVIOUS
<1>3. ASSUME NEW i \in Nat, i \in H, i + 1 \in 1..Len(r) PROVE i + 1 <= m[i + 1]
  <2>1. CASE i = 0
    BY <1>1, <1>3, <2>1 DEF Picks
  <2>2. CASE i # 0
    <3>1. i \in 1..Len(r) /\ i < i + 1
      BY <1>3, <2>2
    <3>2. i <= m[i] /\ m[i] < m[i + 1] /\ m[i] \in 1..n /\ m[i + 1] \in 1..n
      BY <1>1, <1>3, <3>1 DEF Picks
    <3> QED
      BY <3>2
  <2> QED
    BY <2>1, <2>2
<1>4. \A i \in Nat : i \in H => i + 1 \in H
  BY <1>3
<1> HIDE DEF H
<1>5. Nat \subseteq H
  BY <1>2, <1>4, Induction
<1>6. CASE Len(r) = 0
  BY <1>6
<1>7. CASE Len(r) # 0
  <2>1. Len(r) \in 1..Len(r)
    BY <1>7
  <2>2. Len(r) <= m[Len(r)] /\ m[Len(r)] \in 1..n
    BY <1>1, <1>5, <2>1 DEF H, Picks
  <2> QED
    BY <2>2
<1> QED
  BY <1>6, <1>7

LEMMA InOrderLength ==
  ASSUME NEW A, NEW q \in Seq(A), NEW S PROVE Len(InOrder(q, S)) <= Len(q)
<1>1. /\ InOrder(q, S) \in Seq(A)
      /\ Picked(InOrder(q, S), q, {i \in DOMAIN q : q[i] \in S}, Len(q))
  BY SelectIs DEF InOrder
<1> QED
  BY <1>1, PickedLength

LEMMA TakeIs ==
  ASSUME NEW A, NEW q \in Seq(A), NEW z \in Nat
  PROVE  /\ Take(q, z) \in Seq(A) /\ Len(Take(q, z)) <= z
         /\ Elements(Take(q, z)) \subseteq Elements(q)
         /\ Len(q) <= z => Take(q, z) = q
<1>1. CASE Len(q) <= z
  BY <1>1 DEF Take
<1>2. CASE ~(Len(q) <= z)
  <2>1. Take(q, z) = SubSeq(q, 1, z)
    BY <1>2 DEF Take
  <2>2. /\ SubSeq(q, 1, z) \in Seq(A) /\ Len(SubSeq(q, 1, z)) = z
        /\ \A i \in 1..z : SubSeq(q, 1, z)[i] = q[i] /\ i \in 1..Len(q)
    BY <1>2
  <2> QED
    BY <1>2, <2>1, <2>2 DEF Elements
<1> QED
  BY <1>1, <1>2
\* A list of lists.
Nested(q, A) == /\ Len(q) \in Nat /\ DOMAIN q = 1..Len(q)
                /\ \A i \in 1..Len(q) : q[i] \in Seq(A)

\* x has what the first n lists of q have, and begins as the first of these
\* that is not empty.
Flattens(x, q, n) ==
    /\ \A e : e \in Elements(x) <=> \E i \in 1..n : e \in Elements(q[i])
    /\ x # <<>> => \E i \in 1..n : /\ q[i] # <<>> /\ x[1] = q[i][1]
                                   /\ \A j \in 1..i - 1 : q[j] = <<>>

LEMMA FlattensNext ==
  ASSUME NEW A, NEW q, Nested(q, A), NEW n \in Nat, n + 1 <= Len(q),
         NEW x \in Seq(A), Flattens(x, q, n)
  PROVE  x \o q[n + 1] \in Seq(A) /\ Flattens(x \o q[n + 1], q, n + 1)
<1> DEFINE r == q[n + 1]
           y == x \o r
<1>1. n + 1 \in 1..Len(q) /\ r \in Seq(A)
  BY DEF Nested
<1> HIDE DEF r
<1>2. /\ y \in Seq(A) /\ Len(y) = Len(x) + Len(r) /\ Len(x) \in Nat /\ Len(r) \in Nat
      /\ \A i \in 1..Len(x) : y[i] = x[i]
      /\ \A i \in 1..Len(r) : y[Len(x) + i] = r[i]
  BY <1>1
<1> HIDE DEF y
<1>d. DOMAIN x = 1..Len(x) /\ DOMAIN r = 1..Len(r) /\ DOMAIN y = 1..Len(y)
  BY <1>1, <1>2
<1>3. Elements(y) = Elements(x) \cup Elements(r)
  <2>1. \A i \in DOMAIN x : i \in DOMAIN y /\ y[i] = x[i]
    BY <1>d, <1>2
  <2>2. \A i \in DOMAIN r : Len(x) + i \in DOMAIN y /\ y[Len(x) + i] = r[i]
    BY <1>d, <1>2
  <2>3. ASSUME NEW i \in DOMAIN y PROVE y[i] \in Elements(x) \cup Elements(r)
    <3>1. CASE i <= Len(x)
      BY <1>d, <1>2, <3>1 DEF Elements
    <3>2. CASE i > Len(x)
      <4>1. i - Len(x) \in 1..Len(r) /\ Len(x) + (i - Len(x)) = i
        BY <1>d, <1>2, <3>2
      <4> QED
        BY <1>d, <1>2, <4>1 DEF Elements
    <3> QED
      BY <1>d, <1>2, <3>1, <3>2
  <2>4. Elements(x) \cup Elements(r) \subseteq Elements(y)
    BY <2>1, <2>2 DEF Elements
  <2> QED
    BY <2>3, <2>4 DEF Elements
<1>4. \A i : i \in 1..n+1 <=> i \in 1..n \/ i = n + 1
  OBVIOUS
<1>5. \A e : e \in Elements(y) <=> \E i \in 1..n+1 : e \in Elements(q[i])
  BY <1>3, <1>4 DEF Flattens, r
<1>6. ASSUME y # <<>>
      PROVE  \E i \in 1..n+1 : q[i] # <<>> /\ y[1] = q[i][1] /\ \A j \in 1..i - 1 : q[j] = <<>>
  <2>1. CASE x # <<>>
    <3>1. PICK i \in 1..n : q[i] # <<>> /\ x[1] = q[i][1] /\ \A j \in 1..i - 1 : q[j] = <<>>
      BY <2>1 DEF Flattens
    <3>2. y[1] = x[1]
      <4>1. Len(x) # 0
        BY <2>1
      <4>2. 1 \in 1..Len(x)
        BY <1>2, <4>1
      <4> QED
        BY <1>2, <4>2
    <3>3. i \in 1..n+1
      OBVIOUS
    <3> QED
      BY <3>1, <3>2, <3>3
  <2>2. CASE x = <<>>
    <3>1. \A i \in 1..n : q[i] = <<>>
      <4> SUFFICES ASSUME NEW i \in 1..n PROVE q[i] = <<>>
        OBVIOUS
      <4>1. PICK c \in Seq(A) : c = q[i]
        BY DEF Nested
      <4>2. Elements(x) = {}
        BY <2>2 DEF Elements
      <4>3. \A e : e \notin Elements(c)
        BY <4>1, <4>2 DEF Flattens
      <4>4. \A j \in 1..Len(c) : c[j] \in Elements(c)
        BY DEF Elements
      <4>5. Len(c) = 0
        BY <4>3, <4>4
      <4> QED
        BY <4>1, <4>5
    <3>2. Len(x) = 0 /\ r # <<>> /\ Len(r) >= 1
      BY <1>1, <1>2, <1>6, <2>2
    <3>3. y[1] = r[1] /\ n + 1 \in 1..n+1
      BY <1>2, <3>2
    <3> QED
      BY <3>1, <3>2, <3>3 DEF r
  <2> QED
    BY <2>1, <2>2
<1>7. Flattens(y, q, n + 1)
  BY <1>5, <1>6 DEF Flattens
<1> QED
  BY <1>2, <1>7 DEF y, r

LEMMA FlatIs ==
  ASSUME NEW A, NEW q, Nested(q, A)
  PROVE  Flat(q) \in Seq(A) /\ Flattens(Flat(q), q, Len(q))
<1> DEFINE N == Len(q)
           X == Seq(A)
           P == [n \in 0..N |-> {x \in X : Flattens(x, q, n)}]
           nil == <<>>
           step(n, x) == x \o q[n]
           g == [n \in 1..N |-> [x \in X |-> step(n, x)]]
<1>1. N \in Nat
  BY DEF Nested
<1>2. nil \in P[0]
  <2>1. nil \in X /\ DOMAIN nil = {} /\ 1..0 = {} /\ 0 \in 0..N
    BY <1>1
  <2>2. Flattens(nil, q, 0)
    BY <2>1 DEF Flattens, Elements
  <2> QED
    BY <2>1, <2>2
<1>3. \A n \in 1..N : \A x \in P[n - 1] : g[n][x] = step(n, x) /\ step(n, x) \in P[n]
  <2> SUFFICES ASSUME NEW n \in 1..N, NEW x \in P[n - 1]
               PROVE  g[n][x] = step(n, x) /\ step(n, x) \in P[n]
    OBVIOUS
  <2>1. n - 1 \in 0..N /\ n - 1 \in Nat /\ (n - 1) + 1 = n /\ n \in 0..N /\ n <= Len(q)
    BY <1>1
  <2>2. x \in X /\ Flattens(x, q, n - 1)
    BY <2>1
  <2>3. step(n, x) \in X /\ Flattens(step(n, x), q, n)
    BY <2>1, <2>2, FlattensNext
  <2> QED
    BY <2>1, <2>2, <2>3
<1> HIDE DEF N, X, P, nil, step, g
<1>4. PICK f : Keeps(f, P, nil, N, g)
  BY <1>1, <1>2, <1>3, LoopKept
<1>5. \A n \in 0..N : f[n] = (IF n = 0 THEN nil ELSE step(n, f[n - 1]))
  <2>1. \A n \in 1..N : n - 1 \in 0..N
    BY <1>1
  <2>2. \A n \in 0..N : n # 0 => n \in 1..N
    BY <1>1
  <2> QED
    BY <1>3, <1>4, <2>1, <2>2 DEF Keeps
<1>6. f = [n \in 0..N |-> IF n = 0 THEN nil ELSE step(n, f[n - 1])]
  BY <1>4, <1>5 DEF Keeps
<1>7. f = [n \in 0..N |-> IF n = 0 THEN <<>> ELSE f[n - 1] \o q[n]]
  BY <1>6 DEF nil, step
<1> DEFINE upto[n \in 0..N] == IF n = 0 THEN <<>> ELSE upto[n - 1] \o q[n]
<1>8. upto = [n \in 0..N |-> IF n = 0 THEN <<>> ELSE upto[n - 1] \o q[n]]
  BY <1>7
<1>9. Flat(q) = upto[N]
  BY DEF Flat, N
<1> HIDE DEF upto
<1>10. upto = [n \in 0..N |-> IF n = 0 THEN nil ELSE step(n, upto[n - 1])]
  BY <1>8 DEF nil, step
<1>11. upto[0] = nil /\ \A n \in 1..N : upto[n] = step(n, upto[n - 1])
  BY <1>10, <1>1
<1> DEFINE H == {n \in Nat : n <= N => upto[n] \in P[n]}
<1>12. 0 \in H
  BY <1>1, <1>2, <1>11
<1>13. ASSUME NEW n \in Nat, n \in H, n + 1 <= N PROVE upto[n + 1] \in P[n + 1]
  <2>1. n + 1 \in 1..N /\ (n + 1) - 1 = n /\ n <= N
    BY <1>1, <1>13
  <2>2. upto[n] \in P[n]
    BY <1>13, <2>1
  <2> QED
    BY <1>3, <1>11, <2>1, <2>2
<1>14. \A n \in Nat : n \in H => n + 1 \in H
  BY <1>13
<1> HIDE DEF H
<1>15. N \in H
  BY <1>1, <1>12, <1>14, Induction
<1>16. upto[N] \in P[N]
  BY <1>1, <1>15 DEF H
<1> QED
  BY <1>1, <1>9, <1>16 DEF P, N, X


Distinct(q) == \A i, j \in DOMAIN q : q[i] = q[j] => i = j

LEMMA InOrderDistinct ==
  ASSUME NEW A, NEW q \in Seq(A), NEW S, Distinct(q) PROVE Distinct(InOrder(q, S))
<1> DEFINE r == InOrder(q, S)
           P == {i \in DOMAIN q : q[i] \in S}
<1>1. r \in Seq(A) /\ Picked(r, q, P, Len(q))
  BY SelectIs DEF InOrder
<1> HIDE DEF r, P
<1>2. PICK m : Picks(m, r, q, P, Len(q))
  BY <1>1 DEF Picked
<1>3. DOMAIN r = 1..Len(r) /\ Len(r) \in Nat /\ DOMAIN q = 1..Len(q)
  BY <1>1
<1>4. /\ \A i \in 1..Len(r) : m[i] \in 1..Len(q) /\ r[i] = q[m[i]]
      /\ \A i, j \in 1..Len(r) : i < j => m[i] < m[j]
  BY <1>2 DEF Picks
<1>5. ASSUME NEW i \in 1..Len(r), NEW j \in 1..Len(r), r[i] = r[j] PROVE i = j
  <2>1. m[i] = m[j] /\ m[i] \in Nat
    BY <1>3, <1>4, <1>5 DEF Distinct
  <2> QED
    BY <1>3, <1>4, <2>1
<1> QED
  BY <1>3, <1>5 DEF Distinct, r

LEMMA TakeDistinct ==
  ASSUME NEW A, NEW q \in Seq(A), NEW z \in Nat, Distinct(q) PROVE Distinct(Take(q, z))
<1>1. CASE Len(q) <= z
  BY <1>1 DEF Take
<1>2. CASE ~(Len(q) <= z)
  <2>1. Take(q, z) = SubSeq(q, 1, z)
    BY <1>2 DEF Take
  <2>2. /\ SubSeq(q, 1, z) \in Seq(A) /\ DOMAIN SubSeq(q, 1, z) = 1..z
        /\ \A i \in 1..z : SubSeq(q, 1, z)[i] = q[i] /\ i \in DOMAIN q
    BY <1>2
  <2> QED
    BY <2>1, <2>2 DEF Distinct
<1> QED
  BY <1>1, <1>2

\* A list without repetition is no longer than another that holds as much.
LEMMA NoLonger ==
  ASSUME NEW A, NEW q \in Seq(A), NEW B, NEW r \in Seq(B), Distinct(q),
         Elements(q) \subseteq Elements(r)
  PROVE  Len(q) <= Len(r)
<1>1. /\ DOMAIN q = 1..Len(q) /\ DOMAIN r = 1..Len(r) /\ Len(q) \in Nat /\ Len(r) \in Nat
  OBVIOUS
<1> DEFINE f == [i \in 1..Len(q) |-> CHOOSE j \in 1..Len(r) : r[j] = q[i]]
<1>2. ASSUME NEW i \in 1..Len(q) PROVE f[i] \in 1..Len(r) /\ r[f[i]] = q[i]
  <2>1. \E j \in 1..Len(r) : r[j] = q[i]
    BY <1>1 DEF Elements
  <2> QED
    BY <2>1
<1>3. f \in [1..Len(q) -> 1..Len(r)]
  <2>1. f = [i \in 1..Len(q) |-> f[i]]
    OBVIOUS
  <2> HIDE DEF f
  <2> QED
    BY <1>2, <2>1
<1> HIDE DEF f
<1>4. ASSUME NEW n \in Nat PROVE IsFiniteSet(1..n) /\ Cardinality(1..n) = n
  <2>1. 1 \in Int /\ n \in Int
    OBVIOUS
  <2>2. IsFiniteSet(1..n) /\ Cardinality(1..n) = (IF 1 > n THEN 0 ELSE n - 1 + 1)
    BY <2>1, FS_Interval
  <2> QED
    BY <2>2
<1>5. \A i, j \in 1..Len(q) : f[i] = f[j] => i = j
  BY <1>1, <1>2 DEF Distinct
<1> DEFINE S == 1..Len(q)
           H == 1..Len(r)
<1>7. IsFiniteSet(S) /\ IsFiniteSet(H) /\ f \in [S -> H] /\ \A i, j \in S : f[i] = f[j] => i = j
  BY <1>1, <1>3, <1>4, <1>5
<1>8. Cardinality(S) = Len(q) /\ Cardinality(H) = Len(r)
  BY <1>1, <1>4
<1> HIDE DEF S, H
<1>6. ~(Cardinality(H) < Cardinality(S))
  BY <1>7, FS_PigeonHole
<1> QED
  BY <1>1, <1>6, <1>8

\* A list holds no more than its length.
LEMMA HoldsNoMore ==
  ASSUME NEW A, NEW q \in Seq(A)
  PROVE  IsFiniteSet(Elements(q)) /\ Cardinality(Elements(q)) <= Len(q)
<1>1. DOMAIN q = 1..Len(q) /\ Len(q) \in Nat
  OBVIOUS
<1>2. q \in Surjection(1..Len(q), Elements(q))
  <2>1. q \in [1..Len(q) -> Elements(q)]
    BY <1>1 DEF Elements
  <2> QED
    BY <1>1, <2>1 DEF Surjection, Elements
<1>3. IsFiniteSet(1..Len(q)) /\ Cardinality(1..Len(q)) = Len(q)
  BY <1>1, FS_Interval
<1> QED
  BY <1>2, <1>3, FS_Surjection
-----------------------------------------------------------------------------
(* Vectors.                                                                *)

\* A builder that is past its scan has what it does not lack.
Scanned(b) == build[b].stage \in {"register", "embed", "wait"}

BuildersAreSane ==
    /\ build \in [Builders -> [stage : {"idle", "active", "scan", "register", "embed",
                                        "wait", "fail"},
                               gen : V!Generations \cup {None},
                               pending : SUBSET Quotes, asked : SUBSET Quotes,
                               same : BOOLEAN]]
    /\ \A b \in Builders :
          /\ ~V!Stage(b, "idle") => V!Gen(b) \in V!Generations
          /\ Scanned(b) => V!Cached(V!Gen(b).spec, V!TextsOf(V!Gen(b).passages) \ build[b].pending)

SearchesAreSane ==
    /\ search \in [Searchers -> [stage : {"idle", "fresh", "query", "rank"},
                                 gen : V!Generations \cup {None},
                                 query : Quotes \cup {None}]]
    /\ \A s \in Searchers :
          /\ ~V!On(s, "idle") => /\ search[s].gen # None
                               /\ search[s].gen \in V!Generations /\ search[s].query \in Quotes
          /\ V!On(s, "rank") => V!Cached(search[s].gen.spec, {search[s].query})

VectorInv == V!ActiveIsComplete /\ BuildersAreSane /\ SearchesAreSane

-----------------------------------------------------------------------------
\* Vectors are kept, so what is cached stays cached.
LEMMA VectorsGrow ==
  ASSUME vectors \subseteq vectors', NEW s, NEW ts, V!Cached(s, ts) PROVE V!Cached(s, ts)'
  BY DEF V!Cached

\* What the scan does not find missing is cached.
LEMMA ScanFinds ==
  ASSUME NEW s, NEW ts
  PROVE  V!Cached(s, ts \ {t \in ts : ~V!Cached(s, {t})})
  BY DEF V!Cached

\* The texts of a snapshot are texts.
LEMMA SnapshotTexts ==
  ASSUME NEW ps \in Snapshots PROVE V!TextsOf(ps) \in SUBSET Quotes /\ ps \in SUBSET Passages
  BY Assumptions DEF V!TextAssumption, V!SnapshotAssumption, V!TextsOf

\* The first state has no generation, no builder and no search.
LEMMA VectorsBegin == V!Init => VectorInv
<1> SUFFICES ASSUME V!Init PROVE VectorInv
  OBVIOUS
<1>1. V!ActiveIsComplete
  BY Assumptions DEF V!NumberAssumption, V!Init, V!ActiveIsComplete, V!TypeOK, V!Stage, V!NoBuild, V!Builder
<1>2. BuildersAreSane
  BY DEF V!Init, BuildersAreSane, V!Stage, Scanned, V!NoBuild, V!Builder
<1>3. SearchesAreSane
  BY DEF V!Init, SearchesAreSane, V!On, V!NoSearch, V!Searcher
<1> QED
  BY <1>1, <1>2, <1>3 DEF VectorInv

-----------------------------------------------------------------------------
\* A step that gives one builder a sane record keeps the builders sane.
LEMMA BecomeSane ==
  ASSUME BuildersAreSane, vectors \subseteq vectors', NEW b \in Builders,
         NEW phase \in {"idle", "active", "scan", "register", "embed", "wait", "fail"},
         NEW g \in V!Generations \cup {None}, NEW pending \in SUBSET Quotes,
         NEW asked \in SUBSET Quotes, NEW same \in BOOLEAN,
         V!Become(b, V!Builder(phase, g, pending, asked, same)),
         phase # "idle" => g \in V!Generations,
         phase \in {"register", "embed", "wait"} =>
            V!Cached(g.spec, V!TextsOf(g.passages) \ pending)'
  PROVE  BuildersAreSane'
<1>1. build' = [build EXCEPT ![b] = [stage |-> phase, gen |-> g, pending |-> pending,
                                     asked |-> asked, same |-> same]]
  BY DEF V!Become, V!Builder
<1>2. \A c \in Builders : c # b => build'[c] = build[c]
  BY <1>1 DEF BuildersAreSane
<1>3. build'[b] = [stage |-> phase, gen |-> g, pending |-> pending,
                   asked |-> asked, same |-> same]
  BY <1>1 DEF BuildersAreSane
<1>4. ASSUME NEW c \in Builders, Scanned(c)'
      PROVE  V!Cached(V!Gen(c).spec, V!TextsOf(V!Gen(c).passages) \ build[c].pending)'
  <2>1. CASE c = b
    BY <1>3, <1>4, <2>1 DEF Scanned, V!Gen
  <2>2. CASE c # b
    <3>1. V!Cached(V!Gen(c).spec, V!TextsOf(V!Gen(c).passages) \ build[c].pending)
      BY <1>2, <1>4, <2>2 DEF BuildersAreSane, Scanned
    <3> QED
      BY <3>1, <1>2, <2>2, VectorsGrow DEF V!Cached, V!Gen
  <2> QED
    BY <2>1, <2>2
<1>5. ASSUME NEW c \in Builders, build'[c].stage # "idle"
      PROVE  build'[c].gen \in V!Generations
  <2>1. CASE c = b
    BY <1>3, <1>5, <2>1
  <2>2. CASE c # b
    BY <1>2, <1>5, <2>2 DEF BuildersAreSane, V!Stage, V!Gen
  <2> QED
    BY <2>1, <2>2
<1>6. build' \in [Builders -> [stage : {"idle", "active", "scan", "register", "embed",
                                        "wait", "fail"},
                               gen : V!Generations \cup {None},
                               pending : SUBSET Quotes, asked : SUBSET Quotes,
                               same : BOOLEAN]]
  BY <1>1 DEF BuildersAreSane
<1> QED
  BY <1>4, <1>5, <1>6 DEF BuildersAreSane, V!Generations, V!Stage, V!Gen

\* A step that leaves the builders alone and forgets no vector.
LEMMA BuildersLeft ==
  ASSUME BuildersAreSane, vectors \subseteq vectors', UNCHANGED build PROVE BuildersAreSane'
  BY DEF BuildersAreSane, Scanned, V!Stage, V!Gen, V!Cached

\* No step forgets a vector.
LEMMA VectorsKept == [V!Next]_vectorVars => vectors \subseteq vectors'
  BY DEF V!Next, vectorVars, V!tables, V!Sync, V!Build, V!Begin, V!ReadActive, V!Scan, V!Register, V!Ask, V!Store,
         V!CachedNow, V!Activate, V!Fail, V!MarkFailed, V!Abandon, V!Search, V!IsFresh, V!EmbedQuery,
         V!SearchFails, V!Rank

\* What a builder has embedded was missing, or is in the cache now.
LEMMA BuilderStep == VectorInv /\ [V!Next]_vectorVars => BuildersAreSane'
<1> SUFFICES ASSUME VectorInv, [V!Next]_vectorVars PROVE BuildersAreSane'
  OBVIOUS
<1>0. BuildersAreSane /\ vectors \subseteq vectors' /\ vectors \in SUBSET (Specs \X Quotes)
      /\ snapshot \in Snapshots
  BY VectorsKept DEF VectorInv, V!ActiveIsComplete, V!TypeOK
<1>1. ASSUME NEW b \in Builders, NEW s \in Specs, V!Begin(b, s) PROVE BuildersAreSane'
  <2>1. [spec |-> s, passages |-> snapshot] \in V!Generations
    BY <1>0 DEF V!Generations
  <2> QED
    BY <1>0, <1>1, <2>1, BecomeSane DEF V!Begin
<1>2. ASSUME NEW b \in Builders, V!ReadActive(b) PROVE BuildersAreSane'
  <2>1. V!Gen(b) \in V!Generations
    BY <1>0, <1>2 DEF BuildersAreSane, V!ReadActive, V!Stage
  <2> QED
    BY <1>0, <1>2, <2>1, BecomeSane DEF V!ReadActive
<1>3. ASSUME NEW b \in Builders, V!Scan(b) PROVE BuildersAreSane'
  <2> DEFINE ts == V!TextsOf(V!Gen(b).passages)
             pending == {t \in ts : ~V!Cached(V!Gen(b).spec, {t})}
  <2>1. V!Gen(b) \in V!Generations
    BY <1>0, <1>3 DEF BuildersAreSane, V!Scan, V!Stage
  <2>2. ts \in SUBSET Quotes
    BY <2>1, SnapshotTexts DEF V!Generations
  <2>3. UNCHANGED vectors
    BY <1>3 DEF V!Scan, V!tables
  <2>4. V!Cached(V!Gen(b).spec, ts \ pending)
    BY ScanFinds
  <2>5. CASE V!Return(b)
    BY <1>0, <2>5, BecomeSane DEF V!Return, V!NoBuild
  <2>6. CASE V!Become(b, V!Builder("register", V!Gen(b), pending, {}, FALSE))
    <3> DEFINE g == V!Gen(b)
    <3>1. V!Cached(g.spec, V!TextsOf(g.passages) \ pending)
      BY <2>4
    <3> HIDE DEF g, pending
    <3> QED
      BY <1>0, <2>1, <2>2, <2>3, <2>6, <3>1, BecomeSane DEF g, V!Cached, pending
  <2> QED
    BY <1>3, <2>5, <2>6 DEF V!Scan
<1>4. ASSUME NEW b \in Builders, V!Register(b) PROVE BuildersAreSane'
  <2>1. V!Gen(b) \in V!Generations /\ build[b].pending \in SUBSET Quotes
        /\ V!Cached(V!Gen(b).spec, V!TextsOf(V!Gen(b).passages) \ build[b].pending)
    BY <1>0, <1>4 DEF BuildersAreSane, V!Register, V!Stage, Scanned
  <2>2. UNCHANGED vectors
    BY <1>4 DEF V!Register
  <2> DEFINE g == V!Gen(b)
             pending == build[b].pending
  <2>3. V!Become(b, V!Builder("embed", g, pending, {}, FALSE))
    BY <1>4 DEF V!Register
  <2> HIDE DEF g, pending
  <2> QED
    BY <1>0, <2>1, <2>2, <2>3, BecomeSane DEF g, pending, V!Cached
<1>5. ASSUME NEW b \in Builders, V!Ask(b) PROVE BuildersAreSane'
  <2>1. V!Gen(b) \in V!Generations /\ build[b].pending \in SUBSET Quotes
        /\ V!Cached(V!Gen(b).spec, V!TextsOf(V!Gen(b).passages) \ build[b].pending)
    BY <1>0, <1>5 DEF BuildersAreSane, V!Ask, V!Stage, Scanned
  <2>2. UNCHANGED vectors
    BY <1>5 DEF V!Ask, V!tables
  <2> DEFINE g == V!Gen(b)
             pending == build[b].pending
  <2>3. PICK ts \in SUBSET pending : V!Become(b, V!Builder("wait", g, pending, ts, FALSE))
    BY <1>5 DEF V!Ask
  <2> HIDE DEF g, pending
  <2> QED
    BY <1>0, <2>1, <2>2, <2>3, BecomeSane DEF g, pending, V!Cached
<1>6. ASSUME NEW b \in Builders, V!Store(b) PROVE BuildersAreSane'
  <2>1. PICK g \in V!Generations, pending \in SUBSET Quotes, asked \in SUBSET Quotes :
           /\ g = V!Gen(b) /\ pending = build[b].pending /\ asked = build[b].asked
           /\ V!Cached(g.spec, V!TextsOf(g.passages) \ pending)
    BY <1>0, <1>6 DEF BuildersAreSane, V!Store, V!Stage, Scanned
  <2>2. vectors' = vectors \cup ({g.spec} \X asked)
        /\ V!Become(b, V!Builder("embed", g, pending \ asked, {}, FALSE))
    BY <1>6, <2>1 DEF V!Store, V!CachedNow
  <2>3. \A e \in vectors : e \in vectors'
    BY <2>2
  <2>4. \A t \in asked : <<g.spec, t>> \in vectors'
    BY <2>2
  <2>5. ASSUME NEW t \in V!TextsOf(g.passages) \ (pending \ asked)
        PROVE  \E e \in vectors' : e[1] = g.spec /\ e[2] = t
    <3>1. CASE t \in asked
      BY <2>4, <3>1
    <3>2. CASE t \notin asked
      <4>1. t \in V!TextsOf(g.passages) \ pending
        BY <2>5, <3>2
      <4>2. PICK e \in vectors : e[1] = g.spec /\ e[2] = t
        BY <2>1, <4>1 DEF V!Cached
      <4> QED
        BY <2>3, <4>2
    <3> QED
      BY <3>1, <3>2
  <2>6. V!Cached(g.spec, V!TextsOf(g.passages) \ (pending \ asked))'
    BY <2>5 DEF V!Cached
  <2> QED
    BY <1>0, <2>1, <2>2, <2>6, BecomeSane
<1>7. ASSUME NEW b \in Builders, V!Activate(b) \/ V!Fail(b) PROVE BuildersAreSane'
  <2>1. V!Gen(b) \in V!Generations
    BY <1>0, <1>7 DEF BuildersAreSane, V!Activate, V!Fail, V!Stage
  <2>2. V!Return(b) \/ V!GiveUp(b)
    BY <1>7 DEF V!Activate, V!Fail
  <2> QED
    BY <1>0, <2>1, <2>2, BecomeSane DEF V!Return, V!GiveUp, V!NoBuild
<1>8. ASSUME NEW b \in Builders, V!MarkFailed(b) \/ V!Abandon(b) PROVE BuildersAreSane'
  <2>1. V!Return(b)
    BY <1>8 DEF V!MarkFailed, V!Abandon
  <2> QED
    BY <1>0, <2>1, BecomeSane DEF V!Return, V!NoBuild
<1>9. CASE UNCHANGED build
  BY <1>0, <1>9, BuildersLeft
<1> QED
  BY <1>1, <1>2, <1>3, <1>4, <1>5, <1>6, <1>7, <1>8, <1>9
     DEF V!Next, V!Build, vectorVars, V!Sync, V!Search, V!IsFresh, V!EmbedQuery, V!SearchFails, V!Rank

\* A search that ranks has its query's vector: it was looked up or embedded.
LEMMA SearchStep == VectorInv /\ [V!Next]_vectorVars => SearchesAreSane'
<1> SUFFICES ASSUME VectorInv, [V!Next]_vectorVars PROVE SearchesAreSane'
  OBVIOUS
<1>0. SearchesAreSane /\ vectors \subseteq vectors' /\ active \in V!Generations \cup {None}
  BY VectorsKept DEF VectorInv, V!ActiveIsComplete, V!TypeOK
<1> USE DEF V!Searcher
<1>1. ASSUME NEW s \in Searchers, NEW query \in Quotes, V!Search(s, query)
      PROVE SearchesAreSane'
  BY <1>0, <1>1 DEF SearchesAreSane, V!Search, V!On, V!Cached
<1>2. ASSUME NEW s \in Searchers, V!Answer(s) PROVE SearchesAreSane'
  BY <1>0, <1>2 DEF SearchesAreSane, V!Answer, V!NoSearch, V!On, V!Cached
<1>3. ASSUME NEW s \in Searchers, V!On(s, "fresh"), V!Goto(s, "query") PROVE SearchesAreSane'
  BY <1>0, <1>3 DEF SearchesAreSane, V!Goto, V!On, V!Cached
<1>4. ASSUME NEW s \in Searchers, V!EmbedQuery(s) PROVE SearchesAreSane'
  <2>1. PICK g \in V!Generations, query \in Quotes :
           g = search[s].gen /\ g # None /\ query = search[s].query
    BY <1>0, <1>4 DEF SearchesAreSane, V!EmbedQuery, V!On
  <2>2. /\ search' = [search EXCEPT ![s] = [stage |-> "rank", gen |-> g, query |-> query]]
        /\ <<g.spec, query>> \in vectors'
    BY <1>4, <2>1 DEF V!EmbedQuery, V!Goto
  <2>3. \E e \in vectors' : e[1] = g.spec /\ e[2] = query
    BY <2>2
  <2>4. V!Cached(g.spec, {query})'
    BY <2>3 DEF V!Cached
  <2>5. ASSUME NEW r \in Searchers, V!On(r, "rank")'
        PROVE V!Cached(search[r].gen.spec, {search[r].query})'
    <3>1. CASE r = s
      BY <1>0, <2>2, <2>4, <3>1 DEF SearchesAreSane
    <3>2. CASE r # s
      BY <1>0, <2>2, <2>5, <3>2 DEF SearchesAreSane, V!On, V!Cached
    <3> QED
      BY <3>1, <3>2
  <2>6. search' \in [Searchers -> [stage : {"idle", "fresh", "query", "rank"},
                                   gen : V!Generations \cup {None},
                                   query : Quotes \cup {None}]]
    BY <1>0, <2>2 DEF SearchesAreSane
  <2>7. ASSUME NEW r \in Searchers, ~V!On(r, "idle")'
        PROVE (search[r].gen # None /\ search[r].gen \in V!Generations
               /\ search[r].query \in Quotes)'
    BY <1>0, <2>1, <2>2, <2>7 DEF SearchesAreSane, V!On, V!Generations
  <2> QED
    BY <2>5, <2>6, <2>7 DEF SearchesAreSane, V!Generations
<1>5. CASE UNCHANGED search
  BY <1>0, <1>5 DEF SearchesAreSane, V!On, V!Cached
<1> QED
  BY <1>1, <1>2, <1>3, <1>4, <1>5
     DEF V!Next, V!Build, vectorVars, V!Sync, V!IsFresh, V!SearchFails, V!Rank, V!Begin, V!ReadActive, V!Scan,
         V!Register, V!Ask, V!Store, V!Activate, V!Fail, V!MarkFailed, V!Abandon

\* A generation is active from when it is complete, and nothing that happens to
\* its builders or to others takes that from it.
LEMMA ActiveStep == VectorInv /\ [V!Next]_vectorVars => V!ActiveIsComplete'
<1> SUFFICES ASSUME VectorInv, [V!Next]_vectorVars PROVE V!ActiveIsComplete'
  OBVIOUS
<1>0. V!TypeOK /\ V!ActiveIsComplete /\ BuildersAreSane /\ SearchesAreSane
      /\ vectors \subseteq vectors' /\ BuildersAreSane'
  BY VectorsKept, BuilderStep DEF VectorInv, V!ActiveIsComplete
<1>1. \A b \in Builders : V!Stage(b, "embed")' \/ V!Stage(b, "wait")' =>
         V!Cached(V!Gen(b).spec, V!TextsOf(V!Gen(b).passages) \ build[b].pending)'
  BY <1>0 DEF BuildersAreSane, Scanned, V!Stage
<1> USE <1>0, Assumptions DEF V!NumberAssumption, V!TypeOK, V!ActiveIsComplete
<1>2. CASE V!Sync
  BY <1>1, <1>2 DEF V!Sync, V!tables, V!Cached
<1>3. ASSUME NEW b \in Builders, V!Register(b) PROVE V!ActiveIsComplete'
  BY <1>1, <1>3 DEF V!Register, V!Cached
<1>4. ASSUME NEW b \in Builders, V!Store(b) PROVE V!ActiveIsComplete'
  <2>1. PICK g \in V!Generations, asked \in SUBSET Quotes :
           vectors' = vectors \cup ({g.spec} \X asked)
    BY <1>4 DEF V!Store, V!CachedNow, BuildersAreSane, V!Stage
  <2>2. g.spec \in Specs
    BY DEF V!Generations
  <2>3. vectors' \subseteq Specs \X Quotes
    BY <2>1, <2>2
  <2> QED
    BY <1>1, <1>4, <2>3 DEF V!Store, V!Cached
<1>5. ASSUME NEW b \in Builders, V!Activate(b) PROVE V!ActiveIsComplete'
  <2>1. PICK g \in V!Generations : g = V!Gen(b)
    BY <1>5 DEF V!Activate, BuildersAreSane, V!Stage
  <2>2. snapshot \in SUBSET Passages
    BY SnapshotTexts
  <2>3. CASE V!SnapshotHolds(b) /\ V!Cached(V!Gen(b).spec, V!TextsOf(snapshot))
    <3>1. /\ members' = [members EXCEPT ![g] = snapshot] /\ active' = g
          /\ state' = [state EXCEPT ![g] = "ready"]
          /\ snapshot = g.passages /\ V!Cached(g.spec, V!TextsOf(g.passages))
          /\ UNCHANGED <<snapshot, vectors, syncs>>
      BY <1>5, <2>1, <2>3 DEF V!Activate, V!SnapshotHolds
    <3> QED
      BY <1>1, <2>2, <3>1 DEF V!Cached
  <2>4. CASE ~(V!SnapshotHolds(b) /\ V!Cached(V!Gen(b).spec, V!TextsOf(snapshot)))
    BY <1>1, <1>5, <2>4 DEF V!Activate, V!Cached
  <2> QED
    BY <2>3, <2>4
<1>6. ASSUME NEW b \in Builders, V!MarkFailed(b) PROVE V!ActiveIsComplete'
  BY <1>1, <1>6 DEF V!MarkFailed, V!MayFail, V!Cached
<1>7. ASSUME NEW s \in Searchers, V!EmbedQuery(s) PROVE V!ActiveIsComplete'
  <2>1. PICK g \in V!Generations, query \in Quotes : vectors' = vectors \cup {<<g.spec, query>>}
    BY <1>7 DEF V!EmbedQuery, SearchesAreSane, V!On
  <2>2. g.spec \in Specs
    BY DEF V!Generations
  <2>3. vectors' \subseteq Specs \X Quotes
    BY <2>1, <2>2
  <2> QED
    BY <1>1, <1>7, <2>3 DEF V!EmbedQuery, V!Cached
<1>8. CASE UNCHANGED <<snapshot, V!tables, syncs>>
  BY <1>1, <1>8 DEF V!tables, V!Cached
<1> HIDE <1>0, Assumptions DEF V!NumberAssumption, V!TypeOK, V!ActiveIsComplete
<1>9. ASSUME NEW b \in Builders,
             (\E s \in Specs : V!Begin(b, s)) \/ V!ReadActive(b) \/ V!Scan(b) \/ V!Ask(b) \/ V!Fail(b)
             \/ V!Abandon(b)
      PROVE UNCHANGED <<snapshot, V!tables, syncs>>
  BY <1>9 DEF V!Begin, V!ReadActive, V!Scan, V!Ask, V!Fail, V!Abandon
<1>10. ASSUME NEW s \in Searchers,
              (\E query \in Quotes : V!Search(s, query)) \/ V!IsFresh(s) \/ V!SearchFails(s)
              \/ V!Rank(s)
       PROVE UNCHANGED <<snapshot, V!tables, syncs>>
  BY <1>10 DEF V!Search, V!IsFresh, V!SearchFails, V!Rank
<1>11. CASE UNCHANGED vectorVars
  BY <1>8, <1>11 DEF vectorVars, V!tables
<1> QED
  BY <1>2, <1>3, <1>4, <1>5, <1>6, <1>7, <1>8, <1>9, <1>10, <1>11 DEF V!Next, V!Build

\* The same holds whatever part a step is of.
LEMMA HybridFollows == VectorInv => V!HybridIsComplete
<1>1. ASSUME VectorInv PROVE V!HybridIsComplete
  <2>1. SUFFICES ASSUME NEW s \in Searchers, V!On(s, "rank"), V!StillFresh(s)
                 PROVE V!Ranked(s) = snapshot /\ V!Cached(search[s].gen.spec, {search[s].query})
    BY DEF V!HybridIsComplete
  <2> DEFINE g == search[s].gen
  <2>2. /\ g # None /\ g = active /\ snapshot = g.passages
        /\ V!Cached(g.spec, {search[s].query})
    BY <1>1, <2>1 DEF VectorInv, SearchesAreSane, V!StillFresh, V!On
  <2>3. members[g] = snapshot /\ V!Cached(g.spec, V!TextsOf(snapshot))
    BY <1>1, <2>2 DEF VectorInv, V!ActiveIsComplete
  <2>4. \A p \in snapshot : V!Cached(g.spec, {TextOf[p]})
    BY <2>3 DEF V!Cached, V!TextsOf
  <2>5. V!Ranked(s) = snapshot
    BY <2>3, <2>4 DEF V!Ranked
  <2> QED
    BY <2>2, <2>5
<1> QED
  BY <1>1

-----------------------------------------------------------------------------
(* Web: a request, its answer, and what it may write.                      *)

\* The pairs of a source and its row, of those a public request may show.
PublicRows == {<<s, row[s]>> : s \in {r \in W!Sources : row[r] # None /\ ~row[r].private}}

\* The files are the domain's, and what is derived of rows is of rows that were.
LibraryInv ==
    /\ file = [s \in W!Sources |-> file[s]]
    /\ \A s \in W!Sources : row[s] # None => row[s] \in past[s]
    /\ health # None => \A t \in health : \E s \in W!Sources : t \in past[s]
    /\ index # None => index \subseteq W!Sources
    /\ events \in Nat

OpenFiles == W!OpenIn(file)

\* What a public request took, and may find in the index, was public in the
\* files since it began.
OpenInv ==
    /\ at # "idle" => OpenFiles \subseteq open
    /\ at \in {"second", "third"} /\ ~private =>
         W!Taken(W!Sources) \subseteq open /\ PublicRows \subseteq open
    /\ at = "third" => found \in W!Sources

\* What a request still has to write is what it took for that.
TodoInv ==
    /\ at = "write" => /\ op \in {"delete", "clean", "fix"}
                       /\ todo \subseteq W!Sources
                       /\ op = "delete" => \A s \in todo : s = word
                       /\ op = "clean" => \A s \in todo : saw[s].thin

\* What it counts as written it has changed, and all of it if nothing failed.
DoneInv ==
    /\ done \subseteq changed
    /\ ~failed => done = changed
    /\ at \in {"idle", "first", "second", "third"} => done = {} /\ changed = {} /\ ~failed

AnswerInv ==
    /\ at \in {"idle", "first", "second", "third", "write", "answered"}
    /\ at # "answered" => result = W!NoAnswer
    /\ W!NothingHiddenAnswered
    /\ W!ClaimsAreTrue

WebInv == LibraryInv /\ OpenInv /\ TodoInv /\ DoneInv /\ AnswerInv

LEMMA WebBegins == ASSUME W!Assumptions, W!Init PROVE WebInv
<1>1. PICK f \in Sites : file = f
  BY DEF W!Init
<1>2. LibraryInv
  <2>1. file = [s \in W!Sources |-> file[s]]
    BY <1>1 DEF W!Assumptions, W!Elements
  <2>2. \A s \in W!Sources : row[s] # None => row[s] \in past[s]
    BY DEF W!Init
  <2> QED
    BY <2>1, <2>2 DEF W!Init, LibraryInv
<1>3. AnswerInv
  BY DEF W!Init, AnswerInv, W!NothingHiddenAnswered, W!ClaimsAreTrue, W!NoAnswer
<1> QED
  BY <1>2, <1>3 DEF W!Init, WebInv, OpenInv, TodoInv, DoneInv

\* An answer keeps all there is but the answer.
LEMMA AnswerKeeps ==
  ASSUME WebInv, NEW outcome, NEW shown, NEW made, W!Answer(outcome, shown, made),
         at # "idle",
         ~private => shown \subseteq open /\ \A t \in made : ~t.private,
         outcome = "ok" => ~failed
  PROVE  WebInv'
<1>1. LibraryInv' /\ OpenInv' /\ TodoInv' /\ DoneInv'
  BY DEF W!Answer, W!library, WebInv, LibraryInv, OpenInv, TodoInv, DoneInv, OpenFiles, W!OpenIn
<1>2. AnswerInv'
  BY DEF W!Answer, W!library, WebInv, AnswerInv, DoneInv, W!NothingHiddenAnswered,
         W!ClaimsAreTrue
<1> QED
  BY <1>1, <1>2 DEF WebInv

LEMMA RefuseKeeps == ASSUME WebInv, W!Refuse, at # "idle" PROVE WebInv'
  BY AnswerKeeps DEF W!Refuse

\* Nothing fails before the writes begin.
LEMMA ReadsDoNotFail ==
  ASSUME WebInv PROVE at \in {"first", "second", "third"} => ~failed
  BY DEF WebInv, DoneInv

LEMMA BeginKeeps ==
  ASSUME WebInv, NEW o, NEW p, NEW w, W!Begin(o, p, w) PROVE WebInv'
<1>1. LibraryInv' /\ OpenInv' /\ TodoInv' /\ DoneInv'
  BY DEF W!Begin, W!library, WebInv, LibraryInv, OpenInv, TodoInv, DoneInv, OpenFiles, W!OpenIn
<1>2. AnswerInv'
  BY DEF W!Begin, WebInv, AnswerInv, DoneInv, W!NothingHiddenAnswered, W!ClaimsAreTrue,
         W!NoAnswer
<1> QED
  BY <1>1, <1>2 DEF WebInv

LEMMA FirstKeeps == ASSUME W!Assumptions, WebInv, W!First PROVE WebInv'
<1>1. CASE W!Refuse
  BY <1>1, RefuseKeeps DEF W!First
<1>2. CASE ~W!Refuse
  <2>1. /\ IF op = "fix" THEN W!Lists(CompiledPages) ELSE W!Live
        /\ saw' = [s \in W!Sources |-> IF W!Visible(s) THEN row[s] ELSE None]
        /\ todo' = CASE op = "delete" -> {s \in W!List(CompiledPages) : s = word}
                     [] op = "clean"  -> {s \in W!List(CompiledPages) : W!Garbage(s)}
                     [] op = "fix"    -> {s \in W!List(CompiledPages) : W!Untidy(s)}
                     [] OTHER         -> {}
        /\ at = "first" /\ at' = IF op \in {"delete", "clean", "fix"} THEN "write" ELSE "second"
        /\ UNCHANGED <<W!library, op, private, word, found, done, failed, result, open,
                       changed, events>>
    BY <1>2 DEF W!First
  <2>2. LibraryInv' /\ DoneInv'
    BY <2>1 DEF W!library, WebInv, LibraryInv, DoneInv
  <2>3. AnswerInv'
    BY <2>1 DEF WebInv, AnswerInv, W!NothingHiddenAnswered, W!ClaimsAreTrue
  <2>4. CompiledPages \subseteq W!Sources
    BY DEF W!Assumptions
  <2>5. TodoInv'
    <3>1. W!List(CompiledPages) \subseteq W!Sources
      BY <2>4 DEF W!List
    <3>2. \A s \in W!List(CompiledPages) : saw'[s] = row[s]
      BY <2>1, <3>1 DEF W!List
    <3>3. ASSUME op \in {"delete", "clean", "fix"}
          PROVE  /\ todo' \subseteq W!List(CompiledPages)
                 /\ op = "delete" => \A s \in todo' : s = word
                 /\ op = "clean" => \A s \in todo' : row[s].thin
      BY <2>1, <3>3 DEF W!Garbage
    <3> QED
      BY <2>1, <3>1, <3>2, <3>3 DEF TodoInv
  <2>6. ASSUME op \notin {"delete", "clean", "fix"}, ~private
        PROVE  W!Taken(W!Sources)' \subseteq open /\ PublicRows \subseteq open
    <3>1. W!Live
      BY <2>1, <2>6
    <3>2. OpenFiles \subseteq open
      BY <2>1 DEF WebInv, OpenInv
    <3>3. ASSUME NEW s \in W!Sources, W!Visible(s) PROVE <<s, row[s]>> \in open
      <4>1. s \in W!List(W!Sources)
        BY <3>3 DEF W!List
      <4>2. file[s] = row[s] /\ file[s] # None /\ ~file[s].broken /\ ~file[s].private
        BY <2>6, <3>1, <4>1 DEF W!Live, W!Lists, W!Validated
      <4> QED
        BY <3>2, <4>2 DEF OpenFiles, W!OpenIn
    <3>4. ASSUME NEW s \in W!Sources, saw'[s] # None PROVE <<s, saw'[s]>> \in open
      BY <2>1, <3>3, <3>4
    <3>5. W!Taken(W!Sources)' \subseteq open
      BY <3>4 DEF W!Taken
    <3>6. PublicRows \subseteq open
      BY <3>3 DEF PublicRows, W!Visible
    <3> QED
      BY <3>5, <3>6
  <2>7. OpenInv'
    BY <2>1, <2>6 DEF W!library, WebInv, OpenInv, OpenFiles, W!OpenIn, PublicRows
  <2> QED
    BY <2>2, <2>3, <2>5, <2>7 DEF WebInv
<1> QED
  BY <1>1, <1>2

LEMMA FromTakenKeeps == ASSUME W!Assumptions, WebInv, W!FromTaken PROVE WebInv'
<1> DEFINE among == IF op = "list" THEN W!Sources ELSE IF index = None THEN {} ELSE index
<1>1. among \subseteq W!Sources
  BY DEF WebInv, LibraryInv
<1>2. at = "second" /\ W!Answer("ok", W!Taken(among), {})
  BY DEF W!FromTaken
<1> HIDE DEF among
<1>3. W!Taken(among) \subseteq W!Taken(W!Sources)
  BY <1>1 DEF W!Taken
<1>4. ~private => W!Taken(among) \subseteq open
  BY <1>2, <1>3 DEF WebInv, OpenInv
<1> QED
  BY <1>2, <1>4, ReadsDoNotFail, AnswerKeeps

LEMMA ReadHealthKeeps == ASSUME WebInv, W!ReadHealth PROVE WebInv'
<1> DEFINE made == IF health = None \/ (~private /\ W!HiddenEver) THEN {} ELSE health
<1>1. at = "second" /\ W!Answer("ok", {}, made)
  BY DEF W!ReadHealth
<1>2. ~private => \A t \in made : ~t.private
  BY DEF W!HiddenEver, WebInv, LibraryInv
<1> HIDE DEF made
<1> QED
  BY <1>1, <1>2, ReadsDoNotFail, AnswerKeeps

\* What is public in the index may be shown.
LEMMA RowsAreOpen ==
  ASSUME WebInv, at \in {"second", "third"}, ~private, NEW among \in SUBSET W!Sources,
         \A s \in among : W!Visible(s)
  PROVE  W!Rows(among) \subseteq open
<1>1. \A s \in among : <<s, row[s]>> \in PublicRows
  BY DEF PublicRows, W!Visible
<1> QED
  BY <1>1 DEF W!Rows, WebInv, OpenInv

LEMMA SearchKeeps == ASSUME W!Assumptions, WebInv, W!Search PROVE WebInv'
<1> DEFINE hits == {s \in CompiledPages : W!Visible(s) /\ word \in row[s].names}
<1>1. at = "second" /\ (W!Answer("ok", W!Rows(hits) \cup W!Taken(hits), {}) \/ W!Refuse)
  BY DEF W!Search
<1>2. hits \subseteq W!Sources /\ \A s \in hits : W!Visible(s)
  BY DEF W!Assumptions
<1> HIDE DEF hits
<1>3. W!Taken(hits) \subseteq W!Taken(W!Sources)
  BY <1>2 DEF W!Taken
<1>4. ~private => W!Rows(hits) \cup W!Taken(hits) \subseteq open
  BY <1>1, <1>2, <1>3, RowsAreOpen DEF WebInv, OpenInv
<1> QED
  BY <1>1, <1>4, ReadsDoNotFail, AnswerKeeps, RefuseKeeps

\* What bears a name is an article the caller sees, and so is what a name that
\* one article alone bears is of.
LEMMA NamedIs ==
  ASSUME NEW w
  PROVE  /\ W!Named(w) \subseteq W!List(CompiledPages)
         /\ W!Resolves(w) => W!Target(w) \in W!Named(w)
<1>1. W!Named(w) \subseteq W!List(CompiledPages)
  BY DEF W!Named
<1>2. W!Cardinality({}) = 0
  <2>1. W!Cardinality({}) = Cardinality({})
    BY DEF W!Cardinality, Cardinality
  <2> QED
    BY <2>1, FS_EmptySet
<1>3. W!Resolves(w) => W!Named(w) # {}
  BY <1>2 DEF W!Resolves
<1> QED
  BY <1>1, <1>3 DEF W!Target

LEMMA ListIs ==
  ASSUME W!Assumptions
  PROVE  W!List(CompiledPages) \subseteq W!Sources /\ \A s \in W!List(CompiledPages) : W!Visible(s)
  BY DEF W!List, W!Assumptions

LEMMA ResolveNameKeeps == ASSUME W!Assumptions, WebInv, W!ResolveName PROVE WebInv'
<1>1. CASE W!Refuse
  BY <1>1, RefuseKeeps DEF W!ResolveName
<1>2. CASE ~W!Refuse
  <2>1. /\ W!Resolves(word) /\ found' = W!Target(word) /\ at = "second" /\ at' = "third"
        /\ UNCHANGED <<W!library, op, private, saw, revs, word, todo, done, failed,
                       result, open, changed, events>>
    BY <1>2 DEF W!ResolveName
  <2>2. found' \in W!Sources
    BY <2>1, NamedIs, ListIs
  <2>3. LibraryInv' /\ DoneInv' /\ TodoInv'
    BY <2>1 DEF W!library, WebInv, LibraryInv, DoneInv, TodoInv
  <2>4. OpenInv'
    BY <2>1, <2>2 DEF W!library, WebInv, OpenInv, OpenFiles, W!OpenIn, W!Taken, PublicRows
  <2>5. AnswerInv'
    BY <2>1 DEF WebInv, AnswerInv, W!NothingHiddenAnswered, W!ClaimsAreTrue
  <2> QED
    BY <2>3, <2>4, <2>5 DEF WebInv
<1> QED
  BY <1>1, <1>2

LEMMA ExportFoundKeeps == ASSUME W!Assumptions, WebInv, W!ExportFound PROVE WebInv'
<1> DEFINE in == W!Incoming(W!Target(found))
<1>1. /\ at = "third"
      /\ W!Answer("ok", W!Taken({found}) \cup W!Rows(in), {}) \/ W!Refuse
  BY DEF W!ExportFound
<1>2. in \subseteq W!Sources /\ \A s \in in : W!Visible(s)
  BY ListIs DEF W!Incoming
<1> HIDE DEF in
<1>3. W!Taken({found}) \subseteq W!Taken(W!Sources)
  BY <1>1 DEF W!Taken, WebInv, OpenInv
<1>4. ~private => W!Taken({found}) \cup W!Rows(in) \subseteq open
  BY <1>1, <1>2, <1>3, RowsAreOpen DEF WebInv, OpenInv
<1> QED
  BY <1>1, <1>4, ReadsDoNotFail, AnswerKeeps, RefuseKeeps

LEMMA ExportAllKeeps == ASSUME W!Assumptions, WebInv, W!ExportAll PROVE WebInv'
<1>1. at = "second" /\ (W!Answer("ok", W!Rows(W!List(CompiledPages)), {}) \/ W!Refuse)
  BY DEF W!ExportAll
<1>2. ~private => W!Rows(W!List(CompiledPages)) \subseteq open
  BY <1>1, ListIs, RowsAreOpen
<1> QED
  BY <1>1, <1>2, ReadsDoNotFail, AnswerKeeps, RefuseKeeps
-----------------------------------------------------------------------------
(* Web: the exported graph.                                                *)

LEMMA WebLists ==
  ASSUME NEW q, NEW S, NEW z
  PROVE  /\ W!InOrder(q, S) = InOrder(q, S) /\ W!Take(q, z) = Take(q, z)
         /\ W!Elements(q) = Elements(q) /\ W!Cardinality(S) = Cardinality(S)
<1>1. W!InOrder(q, S) = InOrder(q, S)
  BY DEF W!InOrder, InOrder, W!Select, Select
<1>2. W!Take(q, z) = Take(q, z)
  BY DEF W!Take, Take
<1>3. W!Elements(q) = Elements(q)
  BY DEF W!Elements, Elements
<1>4. W!Cardinality(S) = Cardinality(S)
  BY DEF W!Cardinality, Cardinality
<1> QED
  BY <1>1, <1>2, <1>3, <1>4

Inside == W!List(CompiledPages)
Entries == [node : Inside, depth : Nat]
Graphs == [nodes : SUBSET Inside, line : Seq(Entries), cut : BOOLEAN]

\* What is next to an article is in the list, and told in order.
LEMMA NearbyIs ==
  ASSUME W!Assumptions, NEW s
  PROVE  /\ W!Nearby(s) \subseteq Inside
         /\ W!InOrder(Pages, W!Nearby(s)) \in Seq(Inside)
         /\ Elements(W!InOrder(Pages, W!Nearby(s))) = W!Nearby(s)
<1>1. W!Nearby(s) \subseteq Inside
  BY NamedIs DEF W!Nearby, W!Outgoing, W!Incoming, Inside
<1>2. Inside \subseteq Elements(Pages)
  BY WebLists, ListIs DEF Inside, W!Sources
<1>3. Pages \in Seq(Elements(Pages))
  BY WebLists DEF W!Assumptions, W!IsList
<1> DEFINE r == InOrder(Pages, W!Nearby(s))
<1>4. r \in Seq(Elements(Pages)) /\ Elements(r) = Elements(Pages) \cap W!Nearby(s)
  BY <1>3, InOrderIs
<1> HIDE DEF r
<1>5. Elements(r) = W!Nearby(s)
  BY <1>1, <1>2, <1>4
<1>6. \A i \in 1..Len(r) : r[i] \in Inside
  BY <1>1, <1>4, <1>5 DEF Elements
<1>7. r \in Seq(Inside)
  BY <1>4, <1>6
<1> QED
  BY <1>1, <1>5, <1>7, WebLists DEF r

\* What lies so far from the root.
Level(root, d) ==
    IF d = 0 THEN {root} ELSE IF d = 1 THEN W!Nearby(root)
    ELSE UNION {W!Nearby(s) : s \in W!Nearby(root)}

Sized(g)       == /\ IsFiniteSet(g.nodes) /\ Cardinality(g.nodes) <= Bound.nodes
                  /\ Len(g.line) <= 1 + Cardinality(g.nodes) * Bound.near
Begun(g, root) == Len(g.line) >= 1 /\ g.line[1] = [node |-> root, depth |-> 0]
Sound(g, root) == \A i \in DOMAIN g.line : /\ g.line[i].depth <= 2
                                           /\ g.line[i].node \in Level(root, g.line[i].depth)
Popped(g, n)   == \A s \in g.nodes : \E i \in DOMAIN g.line : i <= n /\ g.line[i].node = s

\* The line is by depth, and reaches no further than one below what is popped.
Rising(g, n) ==
    \A i, j \in DOMAIN g.line : /\ i < j => g.line[i].depth <= g.line[j].depth
                                /\ n <= i => g.line[j].depth <= g.line[i].depth + 1

\* What is popped is a node, and all that is next to it is in the line.
Waiting(g, m, d)    == \E j \in DOMAIN g.line : g.line[j].node = m /\ g.line[j].depth <= d
Surrounded(g, i)    == g.line[i].depth < 2 =>
                         \A m \in W!Nearby(g.line[i].node) : Waiting(g, m, g.line[i].depth + 1)
Whole(g, n)         == \A i \in DOMAIN g.line : i <= n => /\ g.line[i].node \in g.nodes
                                                          /\ Surrounded(g, i)

GraphInv(g, root, n) == /\ g \in Graphs /\ Sized(g) /\ Begun(g, root) /\ Sound(g, root)
                        /\ Popped(g, n) /\ Rising(g, n)
                        /\ g.cut \/ Whole(g, n)

\* One more node, and room for what is next to it.
LEMMA OneMore ==
  ASSUME W!Assumptions, NEW g \in Graphs, Sized(g), NEW s, s \notin g.nodes,
         Cardinality(g.nodes) < Bound.nodes
  PROVE  /\ IsFiniteSet(g.nodes \cup {s}) /\ Cardinality(g.nodes \cup {s}) <= Bound.nodes
         /\ Len(g.line) + Bound.near <= 1 + Cardinality(g.nodes \cup {s}) * Bound.near
<1>1. /\ IsFiniteSet(g.nodes \cup {s})
      /\ Cardinality(g.nodes \cup {s}) = Cardinality(g.nodes) + 1
      /\ Cardinality(g.nodes) \in Nat
  BY FS_AddElement, FS_CardinalityType DEF Sized
<1>2. Bound.nodes \in Nat /\ Bound.near \in Nat
  BY DEF W!Assumptions
<1>3. \A c, b \in Nat : (c + 1) * b = c * b + b
  OBVIOUS
<1>4. (Cardinality(g.nodes) + 1) * Bound.near = Cardinality(g.nodes) * Bound.near + Bound.near
  BY <1>1, <1>2, <1>3
<1>5. Cardinality(g.nodes) * Bound.near \in Nat
  BY <1>1, <1>2
<1>6. Len(g.line) \in Nat /\ Len(g.line) <= 1 + Cardinality(g.nodes) * Bound.near
  BY DEF Sized, Graphs
<1> HIDE DEF Sized
<1>7. Len(g.line) + Bound.near <= 1 + Cardinality(g.nodes \cup {s}) * Bound.near
  <2> DEFINE x == Cardinality(g.nodes) * Bound.near
  <2>1. Cardinality(g.nodes \cup {s}) * Bound.near = x + Bound.near
    BY <1>1, <1>4
  <2>2. x \in Nat /\ Len(g.line) <= 1 + x
    BY <1>5, <1>6
  <2> HIDE DEF x
  <2> QED
    BY <1>2, <1>6, <2>1, <2>2
<1> QED
  BY <1>1, <1>2, <1>7

\* What the pop of one more does to all this.
LEMMA VisitKeeps ==
  ASSUME W!Assumptions, NEW root, NEW n \in Nat, NEW g, GraphInv(g, root, n)
  PROVE  GraphInv(W!Visit(g, n + 1, 2), root, n + 1)
<1> DEFINE h     == W!Visit(g, n + 1, 2)
           s     == g.line[n + 1].node
           d     == g.line[n + 1].depth
           nodes == g.nodes \cup {s}
           near  == W!InOrder(Pages, W!Nearby(s))
           new   == W!InOrder(W!Take(near, Bound.near), W!Sources \ nodes)
<1>0. h = (IF n + 1 > Len(g.line) \/ s \in g.nodes THEN g
           ELSE IF Cardinality(g.nodes) >= Bound.nodes THEN [g EXCEPT !.cut = TRUE]
           ELSE IF d >= 2 THEN [g EXCEPT !.nodes = nodes]
           ELSE [nodes |-> nodes,
                 line  |-> g.line \o [i \in DOMAIN new |-> [node |-> new[i], depth |-> d + 1]],
                 cut   |-> g.cut \/ Len(near) > Bound.near])
  <2>1. W!Cardinality(g.nodes) = Cardinality(g.nodes)
    BY WebLists
  <2> QED
    BY <2>1 DEF W!Visit
<1>s. s = g.line[n + 1].node /\ d = g.line[n + 1].depth
  OBVIOUS
<1>h. h = W!Visit(g, n + 1, 2)
  OBVIOUS
<1>n. nodes = g.nodes \cup {s}
  OBVIOUS
<1>r. near = W!InOrder(Pages, W!Nearby(s)) /\ new = W!InOrder(W!Take(near, Bound.near), W!Sources \ nodes)
  OBVIOUS
<1> HIDE DEF h, s, d, nodes, near, new
<1> USE <1>s, <1>n
<1>1. /\ g \in Graphs /\ Sized(g) /\ Begun(g, root) /\ Sound(g, root)
      /\ Popped(g, n) /\ Rising(g, n) /\ (g.cut \/ Whole(g, n))
  BY DEF GraphInv
<1>2. /\ g.line \in Seq(Entries) /\ Len(g.line) \in Nat
      /\ DOMAIN g.line = 1..Len(g.line)
      /\ \A i \in DOMAIN g.line : g.line[i].node \in Inside /\ g.line[i].depth \in Nat
  <2>1. g.line \in Seq(Entries)
    BY <1>1 DEF Graphs
  <2>2. \A i \in DOMAIN g.line : g.line[i] \in Entries
    BY <2>1
  <2> QED
    BY <2>1, <2>2 DEF Entries
<1>3. \A i \in DOMAIN g.line : (i <= n + 1) <=> (i <= n \/ i = n + 1)
  BY <1>2
<1>4. Popped(g, n + 1) /\ Rising(g, n + 1)
  <2>1. \A i \in DOMAIN g.line : i <= n => i <= n + 1
    BY <1>3
  <2>2. \A i \in DOMAIN g.line : n + 1 <= i => n <= i
    BY <1>2
  <2>3. Popped(g, n + 1)
    BY <1>1, <2>1 DEF Popped
  <2>4. Rising(g, n + 1)
    BY <1>1, <2>2 DEF Rising
  <2> QED
    BY <2>3, <2>4
<1>5. CASE n + 1 > Len(g.line)
  <2>1. h = g
    BY <1>0, <1>5
  <2>2. \A i \in DOMAIN g.line : i <= n
    BY <1>2, <1>5
  <2>3. g.cut \/ Whole(g, n + 1)
    BY <1>1, <2>2 DEF Whole
  <2> QED
    BY <1>h, <1>1, <1>4, <2>1, <2>3 DEF GraphInv
<1>6. CASE n + 1 <= Len(g.line) /\ s \in g.nodes
  <2>1. h = g
    BY <1>0, <1>6
  <2>2. n + 1 \in DOMAIN g.line
    BY <1>2, <1>6
  <2>3. PICK j \in DOMAIN g.line : j <= n /\ g.line[j].node = s
    BY <1>1, <1>6 DEF Popped
  <2>4. g.line[j].depth <= d
    BY <1>1, <1>2, <2>2, <2>3 DEF Rising
  <2>5. ASSUME Whole(g, n) PROVE Surrounded(g, n + 1)
    <3>1. Surrounded(g, j)
      BY <2>3, <2>5 DEF Whole
    <3>2. ASSUME d < 2, NEW m \in W!Nearby(s) PROVE Waiting(g, m, d + 1)
      <4>1. Waiting(g, m, g.line[j].depth + 1)
        BY <1>2, <2>2, <2>3, <2>4, <3>1, <3>2 DEF Surrounded
      <4>2. PICK i \in DOMAIN g.line : g.line[i].node = m /\ g.line[i].depth <= g.line[j].depth + 1
        BY <4>1 DEF Waiting
      <4>3. g.line[i].depth \in Nat /\ g.line[j].depth \in Nat /\ d \in Nat
        BY <1>2, <2>2, <2>3, <4>2
      <4>4. g.line[i].depth <= d + 1
        BY <2>4, <4>2, <4>3
      <4> QED
        BY <4>2, <4>4 DEF Waiting
    <3> QED
      BY <3>2 DEF Surrounded
  <2>6. g.cut \/ Whole(g, n + 1)
    BY <1>1, <1>3, <1>6, <2>5 DEF Whole
  <2> QED
    BY <1>h, <1>1, <1>4, <2>1, <2>6 DEF GraphInv
<1>7. CASE n + 1 <= Len(g.line) /\ s \notin g.nodes /\ ~(Cardinality(g.nodes) < Bound.nodes)
  <2>1. Cardinality(g.nodes) \in Nat /\ Bound.nodes \in Nat
    BY <1>1, FS_CardinalityType DEF Sized, W!Assumptions
  <2>2. h = [g EXCEPT !.cut = TRUE]
    BY <1>0, <1>2, <1>7, <2>1
  <2>3. h \in Graphs /\ h.line = g.line /\ h.nodes = g.nodes /\ h.cut
    BY <1>1, <2>2 DEF Graphs
  <2> QED
    BY <1>h, <1>1, <1>4, <2>3 DEF GraphInv, Sized, Begun, Sound, Popped, Rising
<1>8. CASE n + 1 <= Len(g.line) /\ s \notin g.nodes /\ Cardinality(g.nodes) < Bound.nodes
  <2>1. n + 1 \in DOMAIN g.line /\ s \in Inside /\ d \in Nat
    BY <1>s, <1>2, <1>8
  <2>2. Cardinality(g.nodes) \in Nat /\ Bound.nodes \in Nat /\ Bound.near \in Nat
    BY <1>1, FS_CardinalityType DEF Sized, W!Assumptions
  <2>3. /\ IsFiniteSet(nodes) /\ Cardinality(nodes) <= Bound.nodes
        /\ Len(g.line) + Bound.near <= 1 + Cardinality(nodes) * Bound.near
    BY <1>1, <1>8, OneMore
  <2>4. nodes \in SUBSET Inside
    BY <1>1, <2>1 DEF Graphs
  <2>5. CASE d >= 2
    <3>1. h = [g EXCEPT !.nodes = nodes]
      BY <1>0, <1>2, <1>8, <2>1, <2>2, <2>5
    <3>2. h \in Graphs /\ h.line = g.line /\ h.nodes = nodes /\ h.cut = g.cut
      BY <1>1, <2>4, <3>1 DEF Graphs
    <3>3. Sized(h)
      <4>1. Cardinality(nodes) * Bound.near \in Nat
        BY <2>2, <2>3, FS_CardinalityType
      <4> QED
        BY <1>2, <2>2, <2>3, <3>2, <4>1 DEF Sized
    <3>4. Popped(h, n + 1)
      BY <1>4, <2>1, <3>2 DEF Popped
    <3>5. ~(d < 2)
      BY <2>1, <2>5
    <3>6. ASSUME ~h.cut PROVE Whole(h, n + 1)
      <4>1. Whole(g, n)
        BY <1>1, <3>2, <3>6
      <4>2. ASSUME NEW i \in DOMAIN g.line, i <= n PROVE g.line[i].node \in nodes /\ Surrounded(h, i)
        <5>1. g.line[i].node \in g.nodes /\ Surrounded(g, i)
          BY <4>1, <4>2 DEF Whole
        <5> QED
          BY <3>2, <5>1 DEF Surrounded, Waiting
      <4>3. Surrounded(h, n + 1)
        BY <3>2, <3>5 DEF Surrounded
      <4> QED
        BY <1>3, <3>2, <4>2, <4>3 DEF Whole
    <3> QED
      BY <1>h, <1>1, <1>4, <3>2, <3>3, <3>4, <3>6 DEF GraphInv, Begun, Sound, Rising
  <2>6. CASE ~(d >= 2)
    <3>1. h = [nodes |-> nodes,
               line  |-> g.line \o [i \in DOMAIN new |-> [node |-> new[i], depth |-> d + 1]],
               cut   |-> g.cut \/ Len(near) > Bound.near]
      BY <1>0, <1>2, <1>8, <2>1, <2>2, <2>6
    <3>2. near \in Seq(Inside) /\ Elements(near) = W!Nearby(s)
      BY <1>r, NearbyIs
    <3>3. new = InOrder(Take(near, Bound.near), W!Sources \ nodes)
      BY <1>r, WebLists
    <3>4. /\ Take(near, Bound.near) \in Seq(Inside) /\ Len(Take(near, Bound.near)) <= Bound.near
          /\ Elements(Take(near, Bound.near)) \subseteq W!Nearby(s)
          /\ Len(near) <= Bound.near => Take(near, Bound.near) = near
      BY <2>2, <3>2, TakeIs
    <3>5. /\ new \in Seq(Inside) /\ Len(new) <= Bound.near
          /\ Elements(new) = Elements(Take(near, Bound.near)) \cap (W!Sources \ nodes)
      <4> DEFINE first == Take(near, Bound.near)
      <4>1. first \in Seq(Inside) /\ Len(first) <= Bound.near
        BY <3>4
      <4> HIDE DEF first
      <4>2. /\ InOrder(first, W!Sources \ nodes) \in Seq(Inside)
            /\ Elements(InOrder(first, W!Sources \ nodes)) = Elements(first) \cap (W!Sources \ nodes)
            /\ Len(InOrder(first, W!Sources \ nodes)) <= Len(first)
        BY <4>1, InOrderIs, InOrderLength
      <4>3. new = InOrder(first, W!Sources \ nodes)
        BY <3>3 DEF first
      <4>4. Len(new) \in Nat /\ Len(first) \in Nat
        BY <4>1, <4>2, <4>3
      <4>5. Len(new) <= Bound.near
        BY <2>2, <4>1, <4>2, <4>3, <4>4
      <4> QED
        BY <4>2, <4>3, <4>5 DEF first
    <3> DEFINE more == [i \in DOMAIN new |-> [node |-> new[i], depth |-> d + 1]]
    <3>6. /\ more \in Seq(Entries) /\ Len(more) = Len(new)
          /\ \A i \in 1..Len(new) : /\ more[i].node = new[i] /\ more[i].depth = d + 1
                                     /\ new[i] \in Elements(new)
      <4>1. DOMAIN new = 1..Len(new) /\ Len(new) \in Nat /\ \A i \in 1..Len(new) : new[i] \in Inside
        BY <3>5
      <4>2. \A i \in 1..Len(new) : [node |-> new[i], depth |-> d + 1] \in Entries
        BY <2>1, <4>1 DEF Entries
      <4>3. more \in [1..Len(new) -> Entries]
        BY <4>1, <4>2
      <4>4. more \in Seq(Entries) /\ Len(more) = Len(new)
        BY <4>1, <4>3
      <4> QED
        BY <4>1, <4>4 DEF Elements
    <3>7. h = [nodes |-> nodes, line |-> g.line \o more, cut |-> (g.cut \/ Len(near) > Bound.near)]
      BY <3>1
    <3> HIDE DEF more
    <3>8. /\ h.line \in Seq(Entries)
          /\ Len(h.line) = Len(g.line) + Len(new)
          /\ \A i \in 1..Len(g.line) : h.line[i] = g.line[i]
          /\ \A i \in 1..Len(new) : h.line[Len(g.line) + i] = more[i]
      <4>1. h.line = g.line \o more
        BY <3>7
      <4> DEFINE l == g.line
      <4>2. l \in Seq(Entries) /\ more \in Seq(Entries) /\ h.line = l \o more
        BY <1>2, <3>6, <4>1
      <4> HIDE DEF l
      <4>3. /\ l \o more \in Seq(Entries) /\ Len(l \o more) = Len(l) + Len(more)
            /\ \A i \in 1..Len(l) : (l \o more)[i] = l[i]
            /\ \A i \in 1..Len(more) : (l \o more)[Len(l) + i] = more[i]
        BY <4>2
      <4> QED
        BY <3>6, <4>2, <4>3 DEF l
    <3>9. h \in Graphs /\ h.nodes = nodes /\ h.cut = (g.cut \/ Len(near) > Bound.near)
      BY <2>4, <3>7, <3>8 DEF Graphs
    <3>10. Len(new) \in Nat /\ DOMAIN h.line = 1..Len(h.line) /\ Len(h.line) \in Nat
      BY <3>5, <3>8
    <3>11. \A i \in DOMAIN g.line : i \in DOMAIN h.line /\ h.line[i] = g.line[i]
      BY <1>2, <3>8, <3>10
    <3>12. ASSUME NEW i \in DOMAIN h.line, i \notin DOMAIN g.line
           PROVE  /\ h.line[i].depth = d + 1 /\ h.line[i].node \in W!Nearby(s) /\ i > n + 1
                  /\ \A j \in DOMAIN g.line : j < i
      <4>1. i - Len(g.line) \in 1..Len(new) /\ Len(g.line) + (i - Len(g.line)) = i /\ i > Len(g.line)
        BY <1>2, <3>8, <3>10, <3>12
      <4>2. h.line[i] = more[i - Len(g.line)]
        BY <3>8, <4>1
      <4>3. h.line[i].depth = d + 1 /\ h.line[i].node \in Elements(new)
        BY <3>6, <4>1, <4>2
      <4> QED
        BY <1>2, <1>8, <3>4, <3>5, <4>1, <4>3
    <3>13. \A m \in Elements(new) : Waiting(h, m, d + 1)
      <4> SUFFICES ASSUME NEW i \in 1..Len(new) PROVE Waiting(h, new[i], d + 1)
        BY <3>5 DEF Elements
      <4>1. Len(g.line) + i \in DOMAIN h.line
        BY <1>2, <3>8, <3>10
      <4>2. h.line[Len(g.line) + i].node = new[i] /\ h.line[Len(g.line) + i].depth = d + 1
        BY <3>6, <3>8
      <4>3. d + 1 <= d + 1
        BY <2>1
      <4> QED
        BY <4>1, <4>2, <4>3 DEF Waiting
    <3>14. Sized(h)
      <4>1. Cardinality(nodes) * Bound.near \in Nat
        BY <2>2, <2>3, FS_CardinalityType
      <4>2. Len(g.line) + Len(new) <= 1 + Cardinality(nodes) * Bound.near
        BY <1>2, <2>2, <2>3, <3>5, <3>10, <4>1
      <4> QED
        BY <2>3, <3>8, <3>9, <4>2 DEF Sized
    <3>15. Begun(h, root)
      BY <1>1, <1>2, <3>8, <3>10 DEF Begun
    <3>16. Sound(h, root)
      <4>1. d \in {0, 1} /\ s \in Level(root, d)
        BY <1>1, <2>1, <2>6 DEF Sound
      <4>2. \A m \in W!Nearby(s) : m \in Level(root, d + 1)
        BY <4>1 DEF Level
      <4>3. ASSUME NEW i \in DOMAIN h.line
            PROVE  h.line[i].depth <= 2 /\ h.line[i].node \in Level(root, h.line[i].depth)
        BY <1>1, <2>1, <3>11, <3>12, <4>1, <4>2 DEF Sound
      <4> QED
        BY <4>3 DEF Sound
    <3>17. Popped(h, n + 1)
      <4>1. ASSUME NEW m \in nodes PROVE \E i \in DOMAIN g.line : i <= n + 1 /\ g.line[i].node = m
        BY <1>4, <2>1, <4>1 DEF Popped
      <4> QED
        BY <3>9, <3>11, <4>1 DEF Popped
    <3>18. Rising(h, n + 1)
      <4>1. \A i \in DOMAIN g.line : g.line[i].depth <= d + 1 /\ (n + 1 <= i => d <= g.line[i].depth)
        <5>1. \A i \in DOMAIN g.line : g.line[i].depth <= d + 1
          BY <1>1, <2>1 DEF Rising
        <5>2. ASSUME NEW i \in DOMAIN g.line, n + 1 <= i PROVE d <= g.line[i].depth
          <6>1. CASE i = n + 1
            BY <2>1, <6>1
          <6>2. CASE n + 1 < i
            BY <1>1, <2>1, <6>2 DEF Rising
          <6> QED
            BY <1>2, <5>2, <6>1, <6>2
        <5> QED
          BY <5>1, <5>2
      <4>2. ASSUME NEW i \in DOMAIN h.line, NEW j \in DOMAIN h.line, i < j
            PROVE  h.line[i].depth <= h.line[j].depth
        <5>1. CASE j \in DOMAIN g.line
          <6>1. i \in DOMAIN g.line
            BY <1>2, <3>10, <4>2, <5>1
          <6> QED
            BY <1>1, <3>11, <4>2, <5>1, <6>1 DEF Rising
        <5>2. CASE j \notin DOMAIN g.line
          <6>1. h.line[j].depth = d + 1
            BY <3>12, <5>2
          <6>2. CASE i \in DOMAIN g.line
            BY <3>11, <4>1, <6>1, <6>2
          <6>3. CASE i \notin DOMAIN g.line
            BY <2>1, <3>12, <6>1, <6>3
          <6> QED
            BY <6>2, <6>3
        <5> QED
          BY <5>1, <5>2
      <4>3. ASSUME NEW i \in DOMAIN h.line, NEW j \in DOMAIN h.line, n + 1 <= i
            PROVE  h.line[j].depth <= h.line[i].depth + 1
        <5>1. h.line[j].depth \in Nat /\ h.line[j].depth <= d + 1
          <6>1. CASE j \in DOMAIN g.line
            <7>1. h.line[j] = g.line[j] /\ g.line[j].depth <= d + 1
              BY <3>11, <4>1, <6>1
            <7>2. g.line[j].depth \in Nat
              BY <1>2, <6>1
            <7> QED
              BY <7>1, <7>2
          <6>2. CASE j \notin DOMAIN g.line
            BY <2>1, <3>12, <6>2
          <6> QED
            BY <6>1, <6>2
        <5>2. h.line[i].depth \in Nat /\ d <= h.line[i].depth
          <6>1. CASE i \in DOMAIN g.line
            BY <1>2, <3>11, <4>1, <4>3, <6>1
          <6>2. CASE i \notin DOMAIN g.line
            BY <2>1, <3>12, <6>2
          <6> QED
            BY <6>1, <6>2
        <5> QED
          BY <2>1, <5>1, <5>2
      <4> QED
        BY <4>2, <4>3 DEF Rising
    <3>19. ASSUME ~h.cut PROVE Whole(h, n + 1)
      <4>1. Whole(g, n) /\ near = Take(near, Bound.near)
        <5>1. Len(near) \in Nat /\ Bound.near \in Nat
          BY <2>2, <3>2
        <5>2. ~g.cut /\ ~(Len(near) > Bound.near)
          BY <3>9, <3>19
        <5> QED
          BY <1>1, <3>4, <5>1, <5>2
      <4>2. \A m, e : Waiting(g, m, e) => Waiting(h, m, e)
        BY <3>11 DEF Waiting
      <4>3. ASSUME NEW i \in DOMAIN g.line, i <= n
            PROVE  h.line[i].node \in h.nodes /\ Surrounded(h, i)
        BY <3>9, <3>11, <4>1, <4>2, <4>3 DEF Whole, Surrounded
      <4>4. ASSUME NEW m \in W!Nearby(s) PROVE Waiting(h, m, d + 1)
        <5>1. CASE m \in nodes
          <6>1. PICK i \in DOMAIN g.line : i <= n + 1 /\ g.line[i].node = m
            BY <1>4, <2>1, <5>1 DEF Popped
          <6>2. g.line[i].depth <= d + 1
            <7>1. CASE i = n + 1
              BY <2>1, <7>1
            <7>2. CASE i < n + 1
              <8>1. g.line[i].depth <= d
                BY <1>1, <2>1, <6>1, <7>2 DEF Rising
              <8> QED
                BY <1>2, <2>1, <6>1, <8>1
            <7> QED
              BY <1>2, <6>1, <7>1, <7>2
          <6> QED
            BY <3>11, <6>1, <6>2 DEF Waiting
        <5>2. CASE m \notin nodes
          <6>1. m \in Elements(new)
            BY <3>2, <3>5, <4>1, <4>4, <5>2, NearbyIs, ListIs DEF Inside
          <6> QED
            BY <3>13, <6>1
        <5> QED
          BY <5>1, <5>2
      <4>5. h.line[n + 1].node \in h.nodes /\ Surrounded(h, n + 1)
        <5>1. h.line[n + 1] = g.line[n + 1]
          BY <2>1, <3>11
        <5> QED
          BY <3>9, <4>4, <5>1 DEF Surrounded
      <4>6. \A i \in DOMAIN h.line : i <= n + 1 => i \in DOMAIN g.line
        BY <3>12, <3>10
      <4> QED
        BY <1>3, <4>3, <4>5, <4>6 DEF Whole
    <3> QED
      BY <1>h, <3>9, <3>14, <3>15, <3>16, <3>17, <3>18, <3>19 DEF GraphInv
  <2> QED
    BY <2>5, <2>6
<1> QED
  <2>1. Cardinality(g.nodes) < Bound.nodes \/ ~(Cardinality(g.nodes) < Bound.nodes)
    OBVIOUS
  <2> QED
    BY <1>2, <1>5, <1>6, <1>7, <1>8, <2>1

\* What a graph with a root is, once all of its pops are done.
LEMMA GraphReaches ==
  ASSUME W!Assumptions, NEW root \in Inside
  PROVE  W!Pops \in Nat /\ GraphInv(W!Graph(root, 2), root, W!Pops)
<1> DEFINE N == W!Pops
           P == [n \in 0..N |-> {x \in Graphs : GraphInv(x, root, n)}]
           nil == [nodes |-> {}, line |-> <<[node |-> root, depth |-> 0]>>, cut |-> FALSE]
           step(n, x) == W!Visit(x, n, 2)
           g == [n \in 1..N |-> [x \in Graphs |-> step(n, x)]]
<1>1. N \in Nat
  BY DEF W!Pops, W!Assumptions
<1> HIDE DEF N
<1>2. nil \in P[0]
  <2>1. [node |-> root, depth |-> 0] \in Entries
    BY DEF Entries
  <2>2. nil \in Graphs /\ nil.line = <<[node |-> root, depth |-> 0]>> /\ nil.nodes = {} /\ Len(nil.line) = 1
    BY <2>1 DEF Graphs
  <2>3. DOMAIN nil.line = {1} /\ nil.line[1] = [node |-> root, depth |-> 0]
    BY <2>2
  <2> HIDE DEF nil
  <2>4. Sized(nil)
    BY <2>2, FS_EmptySet DEF Sized, W!Assumptions
  <2>5. Begun(nil, root) /\ Sound(nil, root) /\ Popped(nil, 0) /\ Rising(nil, 0)
    BY <2>2, <2>3 DEF Begun, Sound, Popped, Rising, Level
  <2>6. Whole(nil, 0)
    BY <2>3 DEF Whole
  <2> QED
    BY <1>1, <2>2, <2>4, <2>5, <2>6 DEF GraphInv
<1> HIDE DEF nil
<1>3. \A n \in 1..N : \A x \in P[n - 1] : x \in Graphs /\ g[n][x] = step(n, x) /\ step(n, x) \in P[n]
  <2> SUFFICES ASSUME NEW n \in 1..N, NEW x \in P[n - 1]
               PROVE  x \in Graphs /\ g[n][x] = step(n, x) /\ step(n, x) \in P[n]
    OBVIOUS
  <2>1. n - 1 \in 0..N /\ n - 1 \in Nat /\ (n - 1) + 1 = n /\ n \in 0..N
    BY <1>1
  <2>2. x \in Graphs /\ GraphInv(x, root, n - 1)
    BY <2>1
  <2>3. GraphInv(step(n, x), root, n)
    BY <2>1, <2>2, VisitKeeps
  <2>4. step(n, x) \in Graphs
    BY <2>3 DEF GraphInv
  <2> QED
    BY <2>1, <2>2, <2>3, <2>4
<1> HIDE DEF P, step, g
<1>4. PICK f : Keeps(f, P, nil, N, g)
  BY <1>1, <1>2, <1>3, LoopKept
<1>5. /\ f = [n \in 0..N |-> f[n]] /\ f[0] = nil /\ \A n \in 0..N : f[n] \in P[n]
      /\ \A n \in 1..N : f[n] = step(n, f[n - 1])
  <2>1. \A n \in 1..N : n - 1 \in 0..N
    BY <1>1
  <2> QED
    BY <1>3, <1>4, <2>1 DEF Keeps
<1>6. f = [n \in 0..N |-> IF n = 0 THEN nil ELSE step(n, f[n - 1])]
  <2>1. \A n \in 0..N : n # 0 => n \in 1..N
    BY <1>1
  <2>2. \A n \in 0..N : f[n] = (IF n = 0 THEN nil ELSE step(n, f[n - 1]))
    BY <1>5, <2>1
  <2> QED
    BY <1>5, <2>2
<1>7. f = [n \in 0..N |-> IF n = 0
             THEN [nodes |-> {}, line |-> <<[node |-> root, depth |-> 0]>>, cut |-> FALSE]
             ELSE W!Visit(f[n - 1], n, 2)]
  BY <1>6 DEF nil, step
<1> DEFINE after[n \in 0..N] ==
              IF n = 0
              THEN [nodes |-> {}, line |-> <<[node |-> root, depth |-> 0]>>, cut |-> FALSE]
              ELSE W!Visit(after[n - 1], n, 2)
<1>8. after = [n \in 0..N |-> IF n = 0
                 THEN [nodes |-> {}, line |-> <<[node |-> root, depth |-> 0]>>, cut |-> FALSE]
                 ELSE W!Visit(after[n - 1], n, 2)]
  BY <1>7
<1>9. W!Graph(root, 2) = after[N]
  BY DEF W!Graph, N
<1> HIDE DEF after
<1>10. after = [n \in 0..N |-> IF n = 0 THEN nil ELSE step(n, after[n - 1])]
  BY <1>8 DEF nil, step
<1>11. after[0] = nil /\ \A n \in 1..N : after[n] = step(n, after[n - 1])
  BY <1>10, <1>1
<1> DEFINE H == {n \in Nat : n <= N => after[n] \in P[n]}
<1>12. 0 \in H
  BY <1>1, <1>2, <1>11
<1>13. ASSUME NEW n \in Nat, n \in H, n + 1 <= N PROVE after[n + 1] \in P[n + 1]
  <2>1. n + 1 \in 1..N /\ (n + 1) - 1 = n /\ n <= N
    BY <1>1, <1>13
  <2>2. after[n] \in P[n]
    BY <1>13, <2>1
  <2> QED
    BY <1>3, <1>11, <2>1, <2>2
<1>14. \A n \in Nat : n \in H => n + 1 \in H
  BY <1>13
<1> HIDE DEF H
<1>15. N \in H
  BY <1>1, <1>12, <1>14, Induction
<1>16. after[N] \in P[N]
  BY <1>1, <1>15 DEF H
<1> QED
  BY <1>1, <1>9, <1>16 DEF P, N

LEMMA ExportGraphKeeps == ASSUME W!Assumptions, WebInv, W!ExportGraph PROVE WebInv'
<1> DEFINE nodes == W!Graph(W!Target(word), 2).nodes
<1>1. at = "second" /\ ((W!Resolves(word) /\ W!Answer("ok", W!Rows(nodes), {})) \/ W!Refuse)
  BY DEF W!ExportGraph
<1>2. W!Resolves(word) => nodes \subseteq Inside
  <2>1. ASSUME W!Resolves(word) PROVE W!Target(word) \in Inside
    BY <2>1, NamedIs DEF Inside
  <2> QED
    BY <2>1, GraphReaches DEF GraphInv, Graphs
<1> HIDE DEF nodes
<1>3. CASE W!Refuse
  BY <1>1, <1>3, RefuseKeeps
<1>4. CASE W!Resolves(word) /\ W!Answer("ok", W!Rows(nodes), {})
  <2>1. nodes \in SUBSET W!Sources /\ \A s \in nodes : W!Visible(s)
    BY <1>2, <1>4, ListIs DEF Inside
  <2>2. ~private => W!Rows(nodes) \subseteq open
    BY <1>1, <2>1, RowsAreOpen
  <2> QED
    BY <1>1, <1>4, <2>2, ReadsDoNotFail, AnswerKeeps
<1> QED
  BY <1>1, <1>3, <1>4

\* The graph is all that lies within the depth, or says it is cut.
LEMMA GraphExact == ASSUME W!Assumptions PROVE W!GraphIsExact
<1> SUFFICES ASSUME W!Resolves(word) PROVE W!GraphIsExact
  BY DEF W!GraphIsExact
<1> DEFINE root == W!Target(word)
           one  == {root} \cup W!Nearby(root)
           all  == one \cup UNION {W!Nearby(s) : s \in one}
           g    == W!Graph(root, 2)
<1>1. root \in Inside
  BY NamedIs DEF Inside
<1> HIDE DEF root
<1>2. GraphInv(g, root, W!Pops) /\ W!Pops \in Nat
  BY <1>1, GraphReaches
<1> HIDE DEF g
<1>3. /\ g \in Graphs /\ Sized(g) /\ Begun(g, root) /\ Sound(g, root)
      /\ Popped(g, W!Pops) /\ (g.cut \/ Whole(g, W!Pops))
  BY <1>2 DEF GraphInv
<1>4. /\ g.line \in Seq(Entries) /\ Len(g.line) \in Nat
      /\ DOMAIN g.line = 1..Len(g.line)
      /\ \A i \in DOMAIN g.line : g.line[i].depth \in Nat
  <2>1. g.line \in Seq(Entries)
    BY <1>3 DEF Graphs
  <2>2. \A i \in DOMAIN g.line : g.line[i] \in Entries
    BY <2>1
  <2> QED
    BY <2>1, <2>2 DEF Entries
<1>5. g.nodes \subseteq all
  <2>1. \A d \in {0, 1, 2} : Level(root, d) \subseteq all
    BY DEF Level
  <2>2. \A i \in DOMAIN g.line : g.line[i].node \in all
    <3> SUFFICES ASSUME NEW i \in DOMAIN g.line PROVE g.line[i].node \in all
      OBVIOUS
    <3>1. g.line[i].depth \in {0, 1, 2} /\ g.line[i].node \in Level(root, g.line[i].depth)
      BY <1>3, <1>4 DEF Sound
    <3> QED
      BY <2>1, <3>1
  <2> HIDE DEF all
  <2> QED
    BY <1>3, <2>2 DEF Popped
<1>6. Len(g.line) <= W!Pops
  <2>1. Cardinality(g.nodes) \in Nat /\ Bound.nodes \in Nat /\ Bound.near \in Nat
    BY <1>3, FS_CardinalityType DEF Sized, W!Assumptions
  <2>2. \A a, b, c \in Nat : a <= b => a * c <= b * c
    OBVIOUS
  <2>3. Cardinality(g.nodes) * Bound.near <= Bound.nodes * Bound.near
    BY <1>3, <2>1, <2>2 DEF Sized
  <2>4. Cardinality(g.nodes) * Bound.near \in Nat /\ Bound.nodes * Bound.near \in Nat
    BY <2>1
  <2>5. Len(g.line) <= 1 + Cardinality(g.nodes) * Bound.near
    BY <1>3 DEF Sized
  <2>6. W!Pops = 1 + Bound.nodes * Bound.near
    BY DEF W!Pops
  <2> QED
    BY <1>4, <2>3, <2>4, <2>5, <2>6
<1>7. ASSUME ~g.cut PROVE all \subseteq g.nodes
  <2>1. \A i \in DOMAIN g.line : g.line[i].node \in g.nodes /\ Surrounded(g, i)
    <3>1. \A i \in DOMAIN g.line : i <= W!Pops
      BY <1>2, <1>4, <1>6
    <3> QED
      BY <1>3, <1>7, <3>1 DEF Whole
  <2>2. 1 \in DOMAIN g.line /\ g.line[1].node = root /\ g.line[1].depth = 0
    BY <1>3, <1>4 DEF Begun
  <2>3. ASSUME NEW i \in DOMAIN g.line, g.line[i].depth < 2, NEW m \in W!Nearby(g.line[i].node)
        PROVE  \E j \in DOMAIN g.line : g.line[j].node = m /\ g.line[j].depth <= g.line[i].depth + 1
    BY <2>1, <2>3 DEF Surrounded, Waiting
  <2>4. \A s \in one : \E j \in DOMAIN g.line : g.line[j].node = s /\ g.line[j].depth <= 1
    <3>1. \A m \in W!Nearby(root) : \E j \in DOMAIN g.line : g.line[j].node = m /\ g.line[j].depth <= 0 + 1
      BY <2>2, <2>3
    <3> QED
      BY <2>2, <3>1
  <2>5. ASSUME NEW s \in one, NEW m \in W!Nearby(s) PROVE m \in g.nodes
    <3>1. PICK i \in DOMAIN g.line : g.line[i].node = s /\ g.line[i].depth <= 1
      BY <2>4
    <3>2. g.line[i].depth < 2
      BY <1>4, <3>1
    <3>3. PICK j \in DOMAIN g.line : g.line[j].node = m
      BY <2>3, <2>5, <3>1, <3>2
    <3> QED
      BY <2>1, <3>3
  <2>6. one \subseteq g.nodes
    BY <2>1, <2>4
  <2> QED
    BY <2>5, <2>6
<1>8. W!Cardinality(g.nodes) <= Bound.nodes
  BY <1>3, WebLists DEF Sized
<1> HIDE DEF all, one
<1>9. /\ g.nodes \subseteq all /\ W!Cardinality(g.nodes) <= Bound.nodes
      /\ ~g.cut => g.nodes = all
  BY <1>5, <1>7, <1>8
<1> QED
  BY <1>9 DEF W!GraphIsExact, all, one, g, root

LEMMA FinishKeeps == ASSUME WebInv, W!Finish PROVE WebInv'
<1>1. PICK rebuilt \in BOOLEAN : W!Answer(W!Outcome(rebuilt), {}, {}) /\ at = "write"
  BY DEF W!Finish
<1>2. W!Outcome(rebuilt) = "ok" => ~failed
  BY DEF W!Outcome
<1> QED
  BY <1>1, <1>2, AnswerKeeps

\* The library changes while a request is under way: the files may, the index
\* follows them, and what is public in them is seen.
OpenGrows == /\ at # "idle" => OpenFiles' \subseteq open' /\ open \subseteq open'
             /\ at \in {"second", "third"} /\ ~private => PublicRows' \subseteq open'
Waits == UNCHANGED <<at, op, private, saw, word, found, todo, result, done, failed, changed>>

LEMMA LibraryMoves ==
  ASSUME WebInv, at # "answered", Waits, LibraryInv', OpenGrows PROVE WebInv'
<1>1. OpenInv'
  BY DEF Waits, OpenGrows, WebInv, OpenInv, W!Taken
<1>2. TodoInv' /\ DoneInv'
  BY DEF Waits, WebInv, TodoInv, DoneInv
<1>3. AnswerInv'
  BY DEF Waits, WebInv, AnswerInv, W!NothingHiddenAnswered, W!ClaimsAreTrue, W!NoAnswer
<1> QED
  BY <1>1, <1>2, <1>3 DEF WebInv

\* The rows become the files.
LEMMA IndexedIs ==
  ASSUME WebInv, NEW f, W!Indexed(f)
  PROVE  /\ \A s \in W!Sources : row'[s] # None => row'[s] \in past'[s]
         /\ \A s \in W!Sources : past[s] \subseteq past'[s]
  BY DEF W!Indexed

LEMMA EditKeeps ==
  ASSUME WebInv, NEW s \in W!Sources, NEW t, W!Edit(s, t) PROVE WebInv'
<1>1. /\ at # "answered" /\ file' = [file EXCEPT ![s] = t] /\ events' = events + 1
      /\ open' = (IF at = "idle" THEN open ELSE open \cup W!OpenIn(file'))
      /\ UNCHANGED <<row, rev, past, stuck, index, health, aliases, W!request, result, changed>>
  BY DEF W!Edit, W!Happens
<1>2. LibraryInv'
  BY <1>1 DEF WebInv, LibraryInv
<1>3. OpenFiles' = W!OpenIn(file')
  BY DEF OpenFiles, W!OpenIn
<1>4. PublicRows' = PublicRows
  BY <1>1 DEF PublicRows
<1>5. at \in {"second", "third"} /\ ~private => PublicRows \subseteq open
  BY DEF WebInv, OpenInv
<1>6. Waits
  BY <1>1 DEF W!request, Waits
<1>7. at # "idle" => OpenFiles' \subseteq open' /\ open \subseteq open'
  BY <1>1, <1>3
<1>8. OpenGrows
  BY <1>4, <1>5, <1>7 DEF OpenGrows
<1> QED
  BY <1>1, <1>2, <1>6, <1>8, LibraryMoves

\* The files that are indexed parse, and are those that are seen.
LEMMA SyncKeeps == ASSUME WebInv, W!Sync PROVE WebInv'
<1>1. /\ at # "answered" /\ W!Parses(file) /\ W!Indexed(file) /\ events' = events + 1
      /\ UNCHANGED <<file, index, health, aliases, W!request, result, open, changed>>
  BY DEF W!Sync, W!Happens
<1>2. LibraryInv'
  <2>1. \A t : (\E s \in W!Sources : t \in past[s]) => \E s \in W!Sources : t \in past'[s]
    BY <1>1, IndexedIs
  <2>2. health # None => \A t \in health : \E s \in W!Sources : t \in past'[s]
    BY <2>1 DEF WebInv, LibraryInv
  <2> QED
    BY <1>1, <2>2, IndexedIs DEF WebInv, LibraryInv
<1>3. Waits
  BY <1>1 DEF W!request, Waits
<1>4. OpenFiles' = OpenFiles
  BY <1>1 DEF OpenFiles, W!OpenIn
<1>5. row' = file
  BY <1>1 DEF W!Indexed
<1>6. PublicRows' \subseteq OpenFiles
  <2>1. PublicRows' = {<<s, file[s]>> : s \in {r \in W!Sources : file[r] # None /\ ~file[r].private}}
    BY <1>5 DEF PublicRows
  <2> QED
    BY <1>1, <2>1 DEF W!Parses, OpenFiles, W!OpenIn
<1>7. at # "idle" => OpenFiles \subseteq open
  BY DEF WebInv, OpenInv
<1>8. open' = open
  BY <1>1
<1>9. OpenGrows
  BY <1>4, <1>6, <1>7, <1>8 DEF OpenGrows
<1> QED
  BY <1>1, <1>2, <1>3, <1>9, LibraryMoves

LEMMA RebuildKeeps == ASSUME W!Assumptions, WebInv, W!Rebuild \/ W!Report PROVE WebInv'
<1>1. /\ at # "answered" /\ events' = events + 1
      /\ UNCHANGED <<file, row, rev, past, W!request, result, open, changed>>
  BY DEF W!Rebuild, W!Report, W!Happens
<1>2. Waits
  BY <1>1 DEF W!request, Waits
<1>3. OpenGrows
  BY <1>1 DEF OpenGrows, WebInv, OpenInv, OpenFiles, W!OpenIn, PublicRows
<1>4. CASE W!Rebuild
  <2>1. index' \subseteq W!Sources /\ health' = health
    BY <1>4 DEF W!Rebuild, W!Assumptions
  <2>2. LibraryInv'
    BY <1>1, <2>1 DEF WebInv, LibraryInv
  <2> QED
    BY <1>1, <1>2, <1>3, <2>2, LibraryMoves
<1>5. CASE W!Report
  <2>1. index' = index /\ health' = {row[s] : s \in {r \in CompiledPages : row[r] # None}}
    BY <1>5 DEF W!Report
  <2>2. \A t \in health' : \E s \in W!Sources : t \in past[s]
    BY <2>1 DEF WebInv, LibraryInv, W!Assumptions
  <2>3. LibraryInv'
    BY <1>1, <2>1, <2>2 DEF WebInv, LibraryInv
  <2> QED
    BY <1>1, <1>2, <1>3, <2>3, LibraryMoves
<1> QED
  BY <1>4, <1>5

LEMMA WriteKeeps ==
  ASSUME WebInv, NEW s \in W!Sources, W!Write(s) PROVE WebInv'
<1>1. /\ at = "write" /\ s \in todo /\ todo' = todo \ {s}
      /\ UNCHANGED <<index, health, aliases, at, op, private, saw, revs, word, found,
                     result, events>>
      /\ W!WriteNext(s) \/ W!RefuseNext
  BY DEF W!Write
<1>2. TodoInv'
  BY <1>1 DEF WebInv, TodoInv
<1>3. AnswerInv'
  BY <1>1 DEF WebInv, AnswerInv, W!NothingHiddenAnswered, W!ClaimsAreTrue, W!NoAnswer
<1>4. ASSUME (row' = row /\ past' = past) \/ (\E f : W!Indexed(f)),
             file' = [r \in W!Sources |-> file'[r]]
      PROVE  LibraryInv'
  <2>1. CASE row' = row /\ past' = past
    BY <1>1, <1>4, <2>1 DEF WebInv, LibraryInv
  <2>2. CASE \E f : W!Indexed(f)
    <3>1. \A t : (\E r \in W!Sources : t \in past[r]) => \E r \in W!Sources : t \in past'[r]
      BY <2>2, IndexedIs
    <3>2. health # None => \A t \in health : \E r \in W!Sources : t \in past'[r]
      BY <3>1 DEF WebInv, LibraryInv
    <3>3. \A r \in W!Sources : row'[r] # None => row'[r] \in past'[r]
      BY <2>2, IndexedIs
    <3> QED
      BY <1>1, <1>4, <3>2, <3>3 DEF WebInv, LibraryInv
  <2> QED
    BY <1>4, <2>1, <2>2
<1>5. CASE W!WriteNext(s)
  <2> DEFINE f == [file EXCEPT ![s] = W!New(s)]
  <2>1. /\ file' = f /\ changed' = changed \cup {s} /\ open' = open \cup W!OpenIn(f)
        /\ \/ W!Indexed(f) /\ done' = done \cup {s} /\ failed' = failed
           \/ failed' = TRUE /\ UNCHANGED <<row, rev, past, done>>
    BY <1>5 DEF W!WriteNext
  <2>2. f = [r \in W!Sources |-> f[r]]
    BY DEF WebInv, LibraryInv
  <2> HIDE DEF f
  <2>3. LibraryInv'
    BY <1>4, <2>1, <2>2
  <2>4. DoneInv'
    BY <1>1, <2>1 DEF WebInv, DoneInv
  <2>5. OpenInv'
    <3>1. OpenFiles' = W!OpenIn(f)
      BY <2>1 DEF OpenFiles, W!OpenIn
    <3> QED
      BY <1>1, <2>1, <3>1 DEF OpenInv
  <2> QED
    BY <1>2, <1>3, <2>3, <2>4, <2>5 DEF WebInv
<1>6. CASE W!RefuseNext
  <2>1. /\ failed' = TRUE /\ UNCHANGED <<file, done, changed, open>>
        /\ UNCHANGED <<row, rev, past>> \/ W!Indexed(file)
    BY <1>6 DEF W!RefuseNext
  <2>2. LibraryInv'
    BY <1>4, <2>1 DEF WebInv, LibraryInv
  <2>3. DoneInv'
    BY <1>1, <2>1 DEF WebInv, DoneInv
  <2>4. OpenInv'
    BY <1>1, <2>1 DEF WebInv, OpenInv, OpenFiles, W!OpenIn
  <2> QED
    BY <1>2, <1>3, <2>2, <2>3, <2>4 DEF WebInv
<1> QED
  BY <1>1, <1>5, <1>6

\* A request writes over what it took and nothing else.
LEMMA WritesTaken ==
  ASSUME WebInv, [W!Next]_webVars PROVE W!WritesAsTaken
<1> SUFFICES ASSUME NEW s \in W!Sources, events' = events, file'[s] # file[s]
             PROVE  /\ file[s] = saw[s]
                    /\ IF op = "fix" THEN file'[s] = [file[s] EXCEPT !.untidy = FALSE]
                       ELSE file'[s] = None /\ (s = word \/ file[s].thin)
  BY DEF W!WritesAsTaken
<1>1. ASSUME NEW r \in W!Sources, W!Write(r) PROVE W!Write(s) /\ file'[s] = W!New(s)
  <2>1. file' = file \/ file' = [file EXCEPT ![r] = W!New(r)]
    BY <1>1 DEF W!Write, W!WriteNext, W!RefuseNext
  <2> QED
    BY <1>1, <2>1 DEF WebInv, LibraryInv
<1>2. ASSUME NEW r \in W!Sources, NEW t, W!Edit(r, t) PROVE FALSE
  <2>1. events' = events + 1 /\ events' = events
    BY <1>2 DEF W!Edit, W!Happens
  <2> QED
    BY <2>1 DEF WebInv, LibraryInv
<1>3. \E r \in W!Sources : W!Write(r) \/ \E t : W!Edit(r, t)
  <2>1. file' # file
    OBVIOUS
  <2> QED
    BY <2>1 DEF W!Next, W!Begin, W!First, W!FromTaken, W!ReadHealth, W!Search,
         W!ResolveName, W!ExportFound, W!ExportAll, W!ExportGraph, W!Finish, W!Sync,
         W!Rebuild, W!Report, W!Refuse, W!Answer, W!library, webVars
<1>4. W!Write(s) /\ file'[s] = W!New(s)
  BY <1>1, <1>2, <1>3
<1>5. W!Accepts(s) /\ at = "write" /\ s \in todo
  BY <1>4 DEF W!Write, W!RefuseNext
<1>6. file[s] = saw[s]
  BY <1>5 DEF W!Accepts, W!AsTaken
<1>7. op # "fix" => s = word \/ saw[s].thin
  BY <1>5 DEF WebInv, TodoInv
<1> QED
  BY <1>4, <1>6, <1>7 DEF W!New

LEMMA WebStep == ASSUME W!Assumptions, WebInv, [W!Next]_webVars PROVE WebInv'
<1>1. ASSUME NEW o, NEW p, NEW w, W!Begin(o, p, w) PROVE WebInv'
  BY <1>1, BeginKeeps
<1>2. CASE W!First
  BY <1>2, FirstKeeps
<1>3. CASE W!FromTaken
  BY <1>3, FromTakenKeeps
<1>4. CASE W!ReadHealth
  BY <1>4, ReadHealthKeeps
<1>5. CASE W!Search
  BY <1>5, SearchKeeps
<1>6. CASE W!ResolveName
  BY <1>6, ResolveNameKeeps
<1>7. CASE W!ExportFound
  BY <1>7, ExportFoundKeeps
<1>8. CASE W!ExportAll
  BY <1>8, ExportAllKeeps
<1>9. CASE W!ExportGraph
  BY <1>9, ExportGraphKeeps
<1>10. ASSUME NEW s \in W!Sources, W!Write(s) PROVE WebInv'
  BY <1>10, WriteKeeps
<1>11. CASE W!Finish
  BY <1>11, FinishKeeps
<1>12. ASSUME NEW s \in W!Sources, NEW t, W!Edit(s, t) PROVE WebInv'
  BY <1>12, EditKeeps
<1>13. CASE W!Sync
  BY <1>13, SyncKeeps
<1>14. CASE W!Rebuild \/ W!Report
  BY <1>14, RebuildKeeps
<1>15. CASE UNCHANGED webVars
  <2>1. LibraryInv' /\ TodoInv' /\ DoneInv'
    BY <1>15 DEF webVars, WebInv, LibraryInv, TodoInv, DoneInv
  <2>2. OpenInv'
    BY <1>15 DEF webVars, WebInv, OpenInv, OpenFiles, W!OpenIn, W!Taken, PublicRows
  <2>3. AnswerInv'
    BY <1>15 DEF webVars, WebInv, AnswerInv, W!NothingHiddenAnswered, W!ClaimsAreTrue, W!NoAnswer
  <2> QED
    BY <2>1, <2>2, <2>3 DEF WebInv
<1> QED
  BY <1>1, <1>2, <1>3, <1>4, <1>5, <1>6, <1>7, <1>8, <1>9, <1>10, <1>11, <1>12, <1>13,
     <1>14, <1>15 DEF W!Next
-----------------------------------------------------------------------------
(* Catalog: the files, the rows and what is accepted.                      *)

Said == C!AllTexts \cup {None}
Lines == [rev : Nat, text : C!AllTexts, deleted : BOOLEAN]
Accepted == [rev : Nat, deleted : BOOLEAN, visibility : C!Levels,
             supports : SUBSET (C!Sources \X Nat), notes : SUBSET C!Levels,
             unconditional : BOOLEAN]

\* A row says what its last revision said.
FilesInv ==
    /\ source \in [C!Sources -> Said]
    /\ entry \in [C!Sources -> Lines]
    /\ history \in [C!Sources -> Seq(C!AllTexts)]
    /\ \A s \in C!Sources : /\ entry[s].rev = Len(history[s]) /\ Len(history[s]) >= 1
                            /\ entry[s].text = history[s][Len(history[s])]
    /\ by \in {"public", "owner", "other"} /\ writes \in 0..MaxWrites

\* The notes of a public relation are public.
RelationsInv ==
    /\ relations = [e \in C!EndSet |-> relations[e]]
    /\ \A e \in C!EndSet : relations[e] # None =>
         /\ relations[e] \in Accepted
         /\ relations[e].visibility = C!Public => relations[e].notes \subseteq {C!Public}

IsTree(t) == t \in Seq(Elements(t)) /\ \A i \in DOMAIN t : t[i].depth \in Nat

\* But for the owner's entities, what is generated is made of public texts.
DocumentsInv ==
    /\ accepted # None => /\ accepted.made = {} /\ accepted.consulted = {}
                          /\ IsTree(accepted.categories)
    /\ generated = [c \in C!Caches |-> generated[c]]
    /\ \A c \in C!Caches : generated[c] # None =>
         /\ generated[c].consulted \subseteq C!Sources
         /\ IsTree(generated[c].categories)
         /\ c # "entities.private" => \A t \in generated[c].made : ~t.private

CatalogInv == FilesInv /\ RelationsInv /\ DocumentsInv

LEMMA CatalogLists == ASSUME NEW q PROVE C!Elements(q) = Elements(q) /\ C!IsList(q) = IsList(q)
<1>1. C!Elements(q) = Elements(q)
  BY DEF C!Elements, Elements
<1>2. C!IsList(q) = IsList(q)
  BY <1>1 DEF C!IsList, IsList
<1> QED
  BY <1>1, <1>2

LEMMA CatalogBegins == ASSUME C!Assumptions, C!Init PROVE CatalogInv
<1>1. source \in [C!Sources -> C!AllTexts]
  BY DEF C!Assumptions, C!Init
<1>2. FilesInv
  <2>1. /\ entry = [s \in C!Sources |-> [rev |-> 1, text |-> source[s], deleted |-> FALSE]]
        /\ history = [s \in C!Sources |-> <<source[s]>>]
        /\ by = "other" /\ writes = 0 /\ MaxWrites \in Nat
    BY DEF C!Assumptions, C!Init
  <2>2. entry \in [C!Sources -> Lines] /\ history \in [C!Sources -> Seq(C!AllTexts)]
    BY <1>1, <2>1 DEF Lines
  <2>3. \A s \in C!Sources : /\ entry[s].rev = Len(history[s]) /\ Len(history[s]) >= 1
                             /\ entry[s].text = history[s][Len(history[s])]
    BY <2>1
  <2> QED
    BY <1>1, <2>1, <2>2, <2>3 DEF FilesInv, Said
<1>3. RelationsInv
  BY DEF C!Init, RelationsInv
<1>4. DocumentsInv
  BY DEF C!Init, DocumentsInv
<1> QED
  BY <1>2, <1>3, <1>4 DEF CatalogInv

LEMMA CountIs ==
  ASSUME C!Assumptions, CatalogInv, NEW who, C!Count(who)
  PROVE  by' = who /\ writes' \in 0..MaxWrites
<1>1. writes \in 0..MaxWrites /\ writes' = writes + 1 /\ by' = who /\ writes < MaxWrites
  BY DEF C!Count, CatalogInv, FilesInv
<1>2. MaxWrites \in Nat
  BY DEF C!Assumptions
<1> QED
  BY <1>1, <1>2

LEMMA ShelfEditKeeps ==
  ASSUME C!Assumptions, CatalogInv, NEW s \in C!Sources, NEW t \in Said, C!Edit(s, t) PROVE CatalogInv'
<1>1. /\ source' = [source EXCEPT ![s] = t] /\ writes' \in 0..MaxWrites /\ by' = "other"
      /\ UNCHANGED <<entry, history, relations, accepted, generated>>
  BY CountIs DEF C!Edit
<1>2. FilesInv'
  BY <1>1 DEF CatalogInv, FilesInv
<1> QED
  BY <1>1, <1>2 DEF CatalogInv, RelationsInv, DocumentsInv

LEMMA ShelfSyncKeeps == ASSUME CatalogInv, C!Sync PROVE CatalogInv'
<1> DEFINE Moved(s) == source[s] # None /\ (entry[s].deleted \/ entry[s].text # source[s])
<1>1. /\ entry' = [s \in C!Sources |->
             IF source[s] = None THEN [entry[s] EXCEPT !.deleted = TRUE]
             ELSE IF Moved(s)
             THEN [rev |-> Len(history[s]) + 1, text |-> source[s], deleted |-> FALSE]
             ELSE entry[s]]
      /\ history' = [s \in C!Sources |-> IF Moved(s) THEN Append(history[s], source[s])
                                         ELSE history[s]]
      /\ by' = "other" /\ UNCHANGED <<source, relations, accepted, generated, writes>>
  BY DEF C!Sync
<1>2. /\ source \in [C!Sources -> Said] /\ entry \in [C!Sources -> Lines]
      /\ history \in [C!Sources -> Seq(C!AllTexts)]
      /\ \A s \in C!Sources : /\ entry[s].rev = Len(history[s]) /\ Len(history[s]) >= 1
                              /\ entry[s].text = history[s][Len(history[s])]
  BY DEF CatalogInv, FilesInv
<1>3. ASSUME NEW s \in C!Sources
      PROVE  /\ entry'[s] \in Lines /\ history'[s] \in Seq(C!AllTexts)
             /\ entry'[s].rev = Len(history'[s]) /\ Len(history'[s]) >= 1
             /\ entry'[s].text = history'[s][Len(history'[s])]
  <2>1. /\ entry[s] \in Lines /\ history[s] \in Seq(C!AllTexts) /\ Len(history[s]) \in Nat
        /\ entry[s].rev = Len(history[s]) /\ Len(history[s]) >= 1
        /\ entry[s].text = history[s][Len(history[s])]
    BY <1>2
  <2>2. CASE source[s] = None
    <3>1. entry'[s] = [entry[s] EXCEPT !.deleted = TRUE] /\ history'[s] = history[s]
      BY <1>1, <2>2
    <3> QED
      BY <2>1, <3>1 DEF Lines
  <2>3. CASE source[s] # None /\ Moved(s)
    <3>1. /\ entry'[s] = [rev |-> Len(history[s]) + 1, text |-> source[s], deleted |-> FALSE]
          /\ history'[s] = Append(history[s], source[s])
      BY <1>1, <2>3
    <3>2. source[s] \in C!AllTexts
      BY <1>2, <2>3 DEF Said
    <3>3. /\ history'[s] \in Seq(C!AllTexts) /\ Len(history'[s]) = Len(history[s]) + 1
          /\ history'[s][Len(history[s]) + 1] = source[s]
      BY <2>1, <3>1, <3>2
    <3> QED
      BY <2>1, <3>1, <3>2, <3>3 DEF Lines
  <2>4. CASE source[s] # None /\ ~Moved(s)
    <3>1. entry'[s] = entry[s] /\ history'[s] = history[s]
      BY <1>1, <2>4
    <3> QED
      BY <2>1, <3>1
  <2> QED
    BY <2>2, <2>3, <2>4
<1>4. entry' = [s \in C!Sources |-> entry'[s]] /\ history' = [s \in C!Sources |-> history'[s]]
  BY <1>1
<1>5. FilesInv'
  BY <1>1, <1>2, <1>3, <1>4 DEF CatalogInv, FilesInv
<1> QED
  BY <1>1, <1>5 DEF CatalogInv, RelationsInv, DocumentsInv

\* What a relation written again is.
LEMMA RetainingIs ==
  ASSUME NEW old, old # None => old \in Accepted, NEW new \in Accepted
  PROVE  /\ C!Retaining(old, new) \in Accepted
         /\ old # None =>
              LET both == C!Retaining(old, new)
              IN  /\ both.rev = old.rev + 1 /\ both.visibility >= old.visibility
                  /\ both.supports = new.supports \cup old.supports
                  /\ both.notes = new.notes \cup old.notes
                  /\ both.visibility = C!Public => /\ old.visibility = C!Public
                                                   /\ new.visibility = C!Public
<1>1. CASE old = None
  BY <1>1 DEF C!Retaining
<1>2. CASE old # None
  <2> DEFINE both == C!Retaining(old, new)
  <2>1. both = [new EXCEPT !.rev           = old.rev + 1,
                           !.visibility    = C!Stricter(old.visibility, new.visibility),
                           !.unconditional = @ \/ old.unconditional,
                           !.supports      = @ \cup old.supports,
                           !.notes         = @ \cup old.notes]
    BY <1>2 DEF C!Retaining
  <2>2. /\ old.rev + 1 \in Nat /\ (new.unconditional \/ old.unconditional) \in BOOLEAN
        /\ new.supports \cup old.supports \in SUBSET (C!Sources \X Nat)
        /\ new.notes \cup old.notes \in SUBSET C!Levels
        /\ old.visibility \in C!Levels /\ new.visibility \in C!Levels
    BY <1>2 DEF Accepted
  <2>3. /\ C!Stricter(old.visibility, new.visibility) \in C!Levels
        /\ C!Stricter(old.visibility, new.visibility) >= old.visibility
        /\ C!Stricter(old.visibility, new.visibility) = C!Public =>
             old.visibility = C!Public /\ new.visibility = C!Public
    BY <2>2 DEF C!Stricter, C!Levels, C!Public
  <2>4. /\ both \in Accepted /\ both.rev = old.rev + 1
        /\ both.visibility = C!Stricter(old.visibility, new.visibility)
        /\ both.supports = new.supports \cup old.supports
        /\ both.notes = new.notes \cup old.notes
    BY <2>1, <2>2, <2>3 DEF Accepted
  <2> QED
    BY <1>2, <2>3, <2>4
<1> QED
  BY <1>1, <1>2

\* The relation that is added.
Added(level, supports) ==
    [rev |-> 1, deleted |-> FALSE, visibility |-> level, supports |-> supports,
     notes |-> {level}, unconditional |-> supports = {}]

LEMMA AddedIs ==
  ASSUME NEW e \in C!EndSet, NEW level \in C!Levels, NEW x \in C!Cite(e), C!Assumptions
  PROVE  /\ Added(level, x) \in Accepted /\ Added(level, x).visibility = level
         /\ Added(level, x).notes = {level} /\ Added(level, x).supports = x
<1>1. e \in C!Sources \X C!Sources
  BY DEF C!Assumptions
<1>2. x \in SUBSET (C!Sources \X Nat)
  BY <1>1 DEF C!Cite
<1> QED
  BY <1>2 DEF Added, Accepted

LEMMA AddRelationKeeps ==
  ASSUME C!Assumptions, CatalogInv, NEW e \in C!EndSet, NEW level \in C!Levels,
         NEW x \in C!Cite(e), NEW p \in BOOLEAN, C!AddRelation(e, level, x, p)
  PROVE  CatalogInv'
<1>1. /\ relations' = [relations EXCEPT ![e] = C!Retaining(relations[e], Added(level, x))]
      /\ writes' \in 0..MaxWrites /\ by' \in {"public", "owner"}
      /\ UNCHANGED <<source, entry, history, accepted, generated>>
  BY CountIs DEF C!AddRelation, C!Caller, Added
<1>2. relations' = [f \in C!EndSet |-> relations'[f]]
  BY <1>1 DEF CatalogInv, RelationsInv
<1>3. /\ relations'[e] = C!Retaining(relations[e], Added(level, x))
      /\ \A f \in C!EndSet : f # e => relations'[f] = relations[f]
  BY <1>1 DEF CatalogInv, RelationsInv
<1>4. /\ Added(level, x) \in Accepted /\ Added(level, x).visibility = level
      /\ Added(level, x).notes = {level}
  BY AddedIs
<1>5. relations[e] # None => /\ relations[e] \in Accepted
                             /\ relations[e].visibility = C!Public =>
                                  relations[e].notes \subseteq {C!Public}
  BY DEF CatalogInv, RelationsInv
<1>6. relations'[e] \in Accepted
  BY <1>3, <1>4, <1>5, RetainingIs
<1>7. relations'[e].visibility = C!Public => relations'[e].notes \subseteq {C!Public}
  <2>1. CASE relations[e] = None
    BY <1>3, <1>4, <2>1 DEF C!Retaining
  <2>2. CASE relations[e] # None
    BY <1>3, <1>4, <1>5, <2>2, RetainingIs
  <2> QED
    BY <2>1, <2>2
<1>8. RelationsInv'
  BY <1>2, <1>3, <1>6, <1>7 DEF CatalogInv, RelationsInv
<1> QED
  BY <1>1, <1>8 DEF CatalogInv, FilesInv, DocumentsInv

\* A relation that is removed keeps the rest.
LEMMA RemovedIs ==
  ASSUME CatalogInv, NEW e \in C!EndSet, NEW p \in BOOLEAN, C!RemoveRelation(e, p)
  PROVE  /\ relations[e] \in Accepted /\ relations'[e] \in Accepted
         /\ relations'[e].rev = relations[e].rev + 1
         /\ relations'[e].visibility = relations[e].visibility
         /\ relations'[e].supports = relations[e].supports
         /\ relations'[e].notes = relations[e].notes
         /\ \A f \in C!EndSet : f # e => relations'[f] = relations[f]
         /\ relations' = [f \in C!EndSet |-> relations'[f]]
<1>1. relations' = [relations EXCEPT ![e].rev = relations[e].rev + 1, ![e].deleted = TRUE]
  BY DEF C!RemoveRelation
<1>2. relations[e] \in Accepted
  BY DEF C!RemoveRelation, CatalogInv, RelationsInv
<1>3. /\ relations'[e] = [relations[e] EXCEPT !.rev = relations[e].rev + 1, !.deleted = TRUE]
      /\ \A f \in C!EndSet : f # e => relations'[f] = relations[f]
      /\ relations' = [f \in C!EndSet |-> relations'[f]]
  BY <1>1 DEF CatalogInv, RelationsInv
<1>4. ASSUME NEW r \in Accepted, NEW new, new = [r EXCEPT !.rev = r.rev + 1, !.deleted = TRUE]
      PROVE  /\ new \in Accepted /\ new.rev = r.rev + 1
             /\ new.visibility = r.visibility /\ new.supports = r.supports
             /\ new.notes = r.notes
  <2>1. new = [rev |-> r.rev + 1, deleted |-> TRUE, visibility |-> r.visibility,
               supports |-> r.supports, notes |-> r.notes, unconditional |-> r.unconditional]
    BY <1>4 DEF Accepted
  <2>2. /\ r.rev + 1 \in Nat /\ r.visibility \in C!Levels /\ r.supports \in SUBSET (C!Sources \X Nat)
        /\ r.notes \in SUBSET C!Levels /\ r.unconditional \in BOOLEAN
    BY DEF Accepted
  <2> QED
    BY <2>1, <2>2 DEF Accepted
<1> QED
  BY <1>2, <1>3, <1>4

LEMMA RemoveRelationKeeps ==
  ASSUME C!Assumptions, CatalogInv, NEW e \in C!EndSet, NEW p \in BOOLEAN, C!RemoveRelation(e, p)
  PROVE  CatalogInv'
<1>1. /\ writes' \in 0..MaxWrites /\ by' \in {"public", "owner"}
      /\ UNCHANGED <<source, entry, history, accepted, generated>>
  BY CountIs DEF C!RemoveRelation, C!Caller
<1>2. relations[e] # None
  BY DEF C!RemoveRelation
<1>3. /\ relations'[e] \in Accepted /\ relations'[e].visibility = relations[e].visibility
      /\ relations'[e].notes = relations[e].notes
      /\ \A f \in C!EndSet : f # e => relations'[f] = relations[f]
      /\ relations' = [f \in C!EndSet |-> relations'[f]]
  BY RemovedIs
<1>4. RelationsInv'
  BY <1>2, <1>3 DEF CatalogInv, RelationsInv
<1> QED
  BY <1>1, <1>4 DEF CatalogInv, FilesInv, DocumentsInv

LEMMA SetTaxonomyKeeps ==
  ASSUME C!Assumptions, CatalogInv, NEW d \in Documents, NEW p \in BOOLEAN,
         C!SetTaxonomy(d, p)
  PROVE  CatalogInv'
<1>1. /\ accepted' = [categories |-> d, consulted |-> {}, made |-> {}]
      /\ writes' \in 0..MaxWrites /\ by' \in {"public", "owner"}
      /\ UNCHANGED <<source, entry, history, relations, generated>>
  BY CountIs DEF C!SetTaxonomy, C!Caller
<1>2. IsTree(d)
  BY CatalogLists DEF C!Assumptions, IsTree, IsList
<1>3. DocumentsInv'
  BY <1>1, <1>2 DEF CatalogInv, DocumentsInv
<1> QED
  BY <1>1, <1>3 DEF CatalogInv, FilesInv, RelationsInv

\* Who is in a view.
LEMMA ViewIs ==
  ASSUME NEW R, NEW among, NEW p
  PROVE  /\ DOMAIN C!View(R, among, p) = {s \in among : /\ R[s] # None /\ ~R[s].deleted
                                                        /\ p \/ ~R[s].text.private}
         /\ \A s \in DOMAIN C!View(R, among, p) : C!View(R, among, p)[s] = R[s]
  BY DEF C!View

LEMMA GenerateKeeps ==
  ASSUME C!Assumptions, CatalogInv, NEW c \in C!Caches, NEW p \in BOOLEAN, C!Generate(c, p)
  PROVE  CatalogInv'
<1> DEFINE view == DOMAIN C!View(entry, Compiled, p)
           doc  == [open       |-> ~p,
                    consulted  |-> view,
                    made       |-> {entry[s].text : s \in view},
                    entries    |-> {{s} : s \in view} \cup {view},
                    categories |-> <<C!Category("made", 0, TRUE, view)>>]
<1>1. /\ generated' = [generated EXCEPT ![c] = doc]
      /\ p <=> c = "entities.private"
      /\ \A s \in view : source[s] = entry[s].text
      /\ writes' \in 0..MaxWrites /\ by' = "other"
      /\ UNCHANGED <<source, entry, history, relations, accepted>>
  BY CountIs DEF C!Generate
<1>v. view = {s \in Compiled : /\ entry[s] # None /\ ~entry[s].deleted
                               /\ p \/ ~entry[s].text.private}
  BY DEF C!View
<1> HIDE DEF view
<1>2. ~p => \A s \in view : ~entry[s].text.private
  BY <1>v
<1>3. view \subseteq C!Sources
  BY <1>v DEF C!Assumptions
<1>4. IsTree(doc.categories)
  <2> DEFINE one == C!Category("made", 0, TRUE, view)
  <2>1. one.depth = 0
    BY DEF C!Category
  <2> HIDE DEF one
  <2>2. DOMAIN <<one>> = {1} /\ <<one>>[1] = one
    OBVIOUS
  <2>3. <<one>> \in Seq({one}) /\ Elements(<<one>>) = {one}
    BY <2>2 DEF Elements
  <2>4. IsTree(<<one>>)
    BY <2>1, <2>2, <2>3 DEF IsTree
  <2> QED
    BY <2>4 DEF one
<1>5. /\ doc.consulted = view /\ doc.made = {entry[s].text : s \in view}
  OBVIOUS
<1> HIDE DEF doc
<1>6. generated' = [x \in C!Caches |-> generated'[x]]
  BY <1>1 DEF CatalogInv, DocumentsInv
<1>7. generated'[c] = doc /\ \A x \in C!Caches : x # c => generated'[x] = generated[x]
  BY <1>1 DEF CatalogInv, DocumentsInv
<1>8. c # "entities.private" => \A t \in doc.made : ~t.private
  BY <1>1, <1>2, <1>5
<1>9. DocumentsInv'
  BY <1>1, <1>3, <1>4, <1>5, <1>6, <1>7, <1>8 DEF CatalogInv, DocumentsInv
<1> QED
  BY <1>1, <1>9 DEF CatalogInv, FilesInv, RelationsInv

\* What a step may do to what is accepted.
LEMMA RelationsKept ==
  ASSUME C!Assumptions, CatalogInv, [C!Next]_catalogVars, NEW e \in C!EndSet,
         relations[e] # None, relations'[e] # relations[e]
  PROVE  /\ relations'[e].visibility >= relations[e].visibility
         /\ relations'[e].rev = relations[e].rev + 1
         /\ relations[e].supports \subseteq relations'[e].supports
         /\ relations[e].notes \subseteq relations'[e].notes
         /\ by' = "public" => /\ relations[e].visibility = C!Public
                              /\ C!OpenNow(e[1]) /\ C!OpenNow(e[2])
<1>0. relations[e] \in Accepted /\ relations[e].visibility \in Nat
  BY DEF CatalogInv, RelationsInv, Accepted, C!Levels, C!Public
<1>1. ASSUME NEW f \in C!EndSet, NEW level \in C!Levels, NEW x \in C!Cite(f), NEW p \in BOOLEAN,
             C!AddRelation(f, level, x, p)
      PROVE  f = e /\ relations'[e] = C!Retaining(relations[e], Added(level, x))
  BY <1>1 DEF C!AddRelation, Added, CatalogInv, RelationsInv
<1>2. ASSUME NEW level \in C!Levels, NEW x \in C!Cite(e), NEW p \in BOOLEAN,
             C!AddRelation(e, level, x, p)
      PROVE  by' = "public" => /\ relations[e].visibility = C!Public
                               /\ C!OpenNow(e[1]) /\ C!OpenNow(e[2])
  <2>1. by' = C!Caller(p) /\ C!LiveSource(e[1], p) /\ C!LiveSource(e[2], p)
        /\ (p \/ relations[e].visibility = C!Public)
    BY <1>2 DEF C!AddRelation, C!Count
  <2> QED
    BY <2>1 DEF C!Caller, C!LiveSource, C!Readable, C!Validated, C!OpenNow
<1>3. ASSUME NEW level \in C!Levels, NEW x \in C!Cite(e), NEW p \in BOOLEAN,
             C!AddRelation(e, level, x, p)
      PROVE  /\ relations'[e].visibility >= relations[e].visibility
             /\ relations'[e].rev = relations[e].rev + 1
             /\ relations[e].supports \subseteq relations'[e].supports
             /\ relations[e].notes \subseteq relations'[e].notes
  <2>1. relations'[e] = C!Retaining(relations[e], Added(level, x))
    BY <1>1, <1>3
  <2>2. Added(level, x) \in Accepted
    BY AddedIs
  <2> QED
    BY <1>0, <2>1, <2>2, RetainingIs
<1>4. ASSUME NEW f \in C!EndSet, NEW p \in BOOLEAN, C!RemoveRelation(f, p)
      PROVE  /\ relations'[e].visibility >= relations[e].visibility
             /\ relations'[e].rev = relations[e].rev + 1
             /\ relations[e].supports \subseteq relations'[e].supports
             /\ relations[e].notes \subseteq relations'[e].notes
             /\ by' = "public" => /\ relations[e].visibility = C!Public
                                  /\ C!OpenNow(e[1]) /\ C!OpenNow(e[2])
  <2>1. /\ relations'[f].rev = relations[f].rev + 1
        /\ relations'[f].visibility = relations[f].visibility
        /\ relations'[f].supports = relations[f].supports
        /\ relations'[f].notes = relations[f].notes
        /\ \A r \in C!EndSet : r # f => relations'[r] = relations[r]
    BY <1>4, RemovedIs
  <2>2. f = e
    BY <2>1
  <2>3. by' = C!Caller(p) /\ C!Readable(entry, e[1], p) /\ C!Readable(entry, e[2], p)
        /\ (p \/ relations[e].visibility = C!Public)
    BY <1>4, <2>2 DEF C!RemoveRelation, C!Count
  <2>4. by' = "public" => /\ relations[e].visibility = C!Public
                          /\ C!OpenNow(e[1]) /\ C!OpenNow(e[2])
    BY <2>3 DEF C!Caller, C!Readable, C!Validated, C!OpenNow
  <2> QED
    BY <1>0, <2>1, <2>2, <2>4
<1>5. \/ \E f \in C!EndSet, level \in C!Levels, p \in BOOLEAN : \E x \in C!Cite(f) :
           C!AddRelation(f, level, x, p)
      \/ \E f \in C!EndSet, p \in BOOLEAN : C!RemoveRelation(f, p)
  <2>1. relations' # relations
    OBVIOUS
  <2> QED
    BY <2>1 DEF C!Next, C!Edit, C!Sync, C!SetTaxonomy, C!Generate, catalogVars
<1> QED
  BY <1>1, <1>2, <1>3, <1>4, <1>5

LEMMA AcceptedKept ==
  ASSUME [C!Next]_catalogVars, accepted' # accepted, by' = "public",
         C!TaxonomyDocument # None
  PROVE  /\ ~C!HasPrivate(C!TaxonomyDocument.categories)
         /\ \A s \in C!Slugs(C!TaxonomyDocument.categories) : C!OpenNow(s)
<1>1. PICK d \in Documents, p \in BOOLEAN : C!SetTaxonomy(d, p)
  <2>1. accepted' # accepted
    OBVIOUS
  <2>2. ~\E s \in C!Sources : \E t \in Sayings[s] \cup {None} : C!Edit(s, t)
    BY <2>1 DEF C!Edit
  <2>3. ~C!Sync /\ catalogVars' # catalogVars
    BY <2>1 DEF C!Sync, catalogVars
  <2>4. ASSUME NEW e \in C!EndSet, NEW p \in BOOLEAN PROVE ~C!RemoveRelation(e, p)
    BY <2>1 DEF C!RemoveRelation
  <2>5. ASSUME NEW e \in C!EndSet, NEW p \in BOOLEAN, NEW level \in C!Levels, NEW x \in C!Cite(e)
        PROVE  ~C!AddRelation(e, level, x, p)
    BY <2>1 DEF C!AddRelation
  <2>6. ASSUME NEW c \in C!Caches, NEW p \in BOOLEAN PROVE ~C!Generate(c, p)
    BY <2>1 DEF C!Generate
  <2> QED
    BY <2>2, <2>3, <2>4, <2>5, <2>6 DEF C!Next
<1>2. ~p /\ C!TaxonomyDocument # None
  BY <1>1 DEF C!SetTaxonomy, C!Count, C!Caller
<1> DEFINE Q == C!View(entry, Compiled, p)
           t == C!TaxonomyDocument.categories
<1>3. ~C!Refused(entry, Q, p) /\ C!Slugs(t) \subseteq DOMAIN Q /\ ~C!HasPrivate(t)
  BY <1>1, <1>2 DEF C!SetTaxonomy
<1> HIDE DEF Q, t
<1>4. \A s \in DOMAIN Q : C!OpenNow(s)
  BY <1>2, <1>3 DEF C!Refused, C!Readable, C!Validated, C!OpenNow
<1> QED
  BY <1>3, <1>4 DEF t

LEMMA ShelfWritesKeep ==
  ASSUME C!Assumptions, CatalogInv, [C!Next]_catalogVars PROVE C!WritesKeep
  BY RelationsKept, AcceptedKept DEF C!WritesKeep

LEMMA CatalogStep == ASSUME C!Assumptions, CatalogInv, [C!Next]_catalogVars PROVE CatalogInv'
<1>1. ASSUME NEW s \in C!Sources, NEW t \in Sayings[s] \cup {None}, C!Edit(s, t) PROVE CatalogInv'
  <2>1. t \in Said
    BY DEF Said, C!AllTexts
  <2> QED
    BY <1>1, <2>1, ShelfEditKeeps
<1>2. CASE C!Sync
  BY <1>2, ShelfSyncKeeps
<1>3. ASSUME NEW e \in C!EndSet, NEW level \in C!Levels, NEW x \in C!Cite(e), NEW p \in BOOLEAN,
             C!AddRelation(e, level, x, p)
      PROVE  CatalogInv'
  BY <1>3, AddRelationKeeps
<1>4. ASSUME NEW e \in C!EndSet, NEW p \in BOOLEAN, C!RemoveRelation(e, p) PROVE CatalogInv'
  BY <1>4, RemoveRelationKeeps
<1>5. ASSUME NEW d \in Documents, NEW p \in BOOLEAN, C!SetTaxonomy(d, p) PROVE CatalogInv'
  BY <1>5, SetTaxonomyKeeps
<1>6. ASSUME NEW c \in C!Caches, NEW p \in BOOLEAN, C!Generate(c, p) PROVE CatalogInv'
  BY <1>6, GenerateKeeps
<1>7. CASE UNCHANGED catalogVars
  BY <1>7 DEF catalogVars, CatalogInv, FilesInv, RelationsInv, DocumentsInv
<1> QED
  BY <1>1, <1>2, <1>3, <1>4, <1>5, <1>6, <1>7 DEF C!Next

-----------------------------------------------------------------------------
(* Catalog: the edges of the graph.                                        *)

\* Edges that rest on supports in S only and show notes in N only.
Kinds       == {"manual", "wikilink", "source_reference", "shared_source"}
Edges(S, N) == [key : C!Sources \X C!Sources \X Kinds, supports : SUBSET S, notes : SUBSET N]
Sets(S, N)  == [edges : SUBSET Edges(S, N), truncated : BOOLEAN]
KeysOf(all) == {all[i].key : i \in DOMAIN all}

LEMMA InsertIs ==
  ASSUME NEW S, NEW N, NEW acc \in Sets(S, N), NEW e \in Edges(S, N), NEW limit
  PROVE  LET next == C!Insert(acc, e, limit)
         IN  /\ next \in Sets(S, N)
             /\ acc.truncated => next.truncated
             /\ C!Keys(next.edges) \subseteq C!Keys(acc.edges) \cup {e.key}
             /\ ~next.truncated => C!Keys(next.edges) = C!Keys(acc.edges) \cup {e.key}
<1> DEFINE next == C!Insert(acc, e, limit)
<1>0. acc.edges \in SUBSET Edges(S, N) /\ acc.truncated \in BOOLEAN
  BY DEF Sets
<1>1. CASE e.key \in C!Keys(acc.edges)
  <2> DEFINE More(f) == IF f.key = e.key THEN [f EXCEPT !.supports = @ \cup e.supports] ELSE f
             all == {More(f) : f \in acc.edges}
  <2>1. next = [acc EXCEPT !.edges = all]
    BY <1>1 DEF C!Insert
  <2>2. \A f \in acc.edges : More(f) \in Edges(S, N) /\ More(f).key = f.key
    <3> SUFFICES ASSUME NEW f \in acc.edges PROVE More(f) \in Edges(S, N) /\ More(f).key = f.key
      OBVIOUS
    <3>1. f \in Edges(S, N)
      BY <1>0
    <3>2. f.supports \cup e.supports \in SUBSET S
      BY <3>1 DEF Edges
    <3> QED
      BY <3>1, <3>2 DEF Edges
  <2> HIDE DEF More
  <2>3. all \in SUBSET Edges(S, N)
    BY <2>2
  <2>4. C!Keys(all) = C!Keys(acc.edges)
    BY <2>2 DEF C!Keys
  <2> HIDE DEF all
  <2>5. next \in Sets(S, N) /\ next.edges = all /\ next.truncated = acc.truncated
    BY <2>1, <2>3 DEF Sets
  <2> QED
    BY <1>1, <2>4, <2>5
<1>2. CASE e.key \notin C!Keys(acc.edges) /\ C!Cardinality(acc.edges) < limit
  <2>1. next = [acc EXCEPT !.edges = acc.edges \cup {e}]
    BY <1>2 DEF C!Insert
  <2>2. /\ next \in Sets(S, N) /\ next.edges = acc.edges \cup {e}
        /\ next.truncated = acc.truncated
    BY <1>0, <2>1 DEF Sets
  <2> HIDE DEF next
  <2>3. C!Keys(next.edges) = C!Keys(acc.edges) \cup {e.key}
    BY <2>2 DEF C!Keys
  <2> QED
    BY <2>2, <2>3 DEF next
<1>3. CASE e.key \notin C!Keys(acc.edges) /\ ~(C!Cardinality(acc.edges) < limit)
  <2>1. next = [acc EXCEPT !.truncated = TRUE]
    BY <1>3 DEF C!Insert
  <2>2. next \in Sets(S, N) /\ next.edges = acc.edges /\ next.truncated
    BY <2>1 DEF Sets
  <2> QED
    BY <2>2
<1> QED
  BY <1>1, <1>2, <1>3

\* What the edges are once the first n of a list are inserted to those keyed K.
Holds(acc, K, all, n) ==
    /\ C!Keys(acc.edges) \subseteq K \cup {all[i].key : i \in 1..n}
    /\ ~acc.truncated => C!Keys(acc.edges) = K \cup {all[i].key : i \in 1..n}

LEMMA InsertAllIs ==
  ASSUME NEW S, NEW M, NEW all \in Seq(Edges(S, M)), NEW limit
  PROVE  /\ C!InsertAll(all, limit) \in Sets(S, M)
         /\ Holds(C!InsertAll(all, limit), {}, all, Len(all))
<1> DEFINE N == Len(all)
           X == Sets(S, M)
           P == [n \in 0..N |-> {x \in X : Holds(x, {}, all, n)}]
           nil == C!NoEdges
           step(n, x) == C!Insert(x, all[n], limit)
           g == [n \in 1..N |-> [x \in X |-> step(n, x)]]
<1>1. N \in Nat
  OBVIOUS
<1>2. nil \in P[0]
  <2>1. nil \in X /\ nil.edges = {} /\ 1..0 = {} /\ 0 \in 0..N
    BY <1>1 DEF C!NoEdges, Sets
  <2>2. Holds(nil, {}, all, 0)
    BY <2>1 DEF Holds, C!Keys
  <2> QED
    BY <2>1, <2>2
<1>3. \A n \in 1..N : \A x \in P[n - 1] : g[n][x] = step(n, x) /\ step(n, x) \in P[n]
  <2> SUFFICES ASSUME NEW n \in 1..N, NEW x \in P[n - 1]
               PROVE  g[n][x] = step(n, x) /\ step(n, x) \in P[n]
    OBVIOUS
  <2>1. n - 1 \in 0..N /\ n \in 0..N /\ n \in 1..Len(all) /\ all[n] \in Edges(S, M)
    BY <1>1
  <2>2. x \in X /\ Holds(x, {}, all, n - 1)
    BY <2>1
  <2>3. {all[i].key : i \in 1..n} = {all[i].key : i \in 1..n-1} \cup {all[n].key}
    <3>1. \A i : i \in 1..n <=> i \in 1..n-1 \/ i = n
      BY <2>1
    <3> QED
      BY <3>1
  <2> DEFINE y == step(n, x)
             new == {all[i].key : i \in 1..n}
             old == {all[i].key : i \in 1..n-1}
  <2>4. /\ y \in X
        /\ x.truncated => y.truncated
        /\ C!Keys(y.edges) \subseteq C!Keys(x.edges) \cup {all[n].key}
        /\ ~y.truncated => C!Keys(y.edges) = C!Keys(x.edges) \cup {all[n].key}
    BY <2>1, <2>2, InsertIs
  <2>5. /\ C!Keys(x.edges) \subseteq {} \cup old
        /\ ~x.truncated => C!Keys(x.edges) = {} \cup old
    BY <2>2 DEF Holds
  <2>6. new = old \cup {all[n].key}
    BY <2>3
  <2> HIDE DEF y, new, old
  <2>7. /\ C!Keys(y.edges) \subseteq {} \cup new
        /\ ~y.truncated => C!Keys(y.edges) = {} \cup new
    BY <2>4, <2>5, <2>6
  <2>8. Holds(y, {}, all, n)
    BY <2>7 DEF Holds, new
  <2> QED
    BY <2>1, <2>2, <2>4, <2>8 DEF y
<1> HIDE DEF N, X, P, nil, step, g
<1>4. PICK f : Keeps(f, P, nil, N, g)
  BY <1>1, <1>2, <1>3, LoopKept
<1>5. \A n \in 0..N : f[n] = (IF n = 0 THEN nil ELSE step(n, f[n - 1]))
  <2>1. \A n \in 1..N : n - 1 \in 0..N
    BY <1>1
  <2>2. \A n \in 0..N : n # 0 => n \in 1..N
    BY <1>1
  <2> QED
    BY <1>3, <1>4, <2>1, <2>2 DEF Keeps
<1>6. f = [n \in 0..N |-> IF n = 0 THEN nil ELSE step(n, f[n - 1])]
  BY <1>4, <1>5 DEF Keeps
<1>7. f = [n \in 0..N |-> IF n = 0 THEN C!NoEdges ELSE C!Insert(f[n - 1], all[n], limit)]
  BY <1>6 DEF nil, step
<1> DEFINE upto[n \in 0..N] == IF n = 0 THEN C!NoEdges ELSE C!Insert(upto[n - 1], all[n], limit)
<1>8. upto = [n \in 0..N |-> IF n = 0 THEN C!NoEdges
                             ELSE C!Insert(upto[n - 1], all[n], limit)]
  BY <1>7
<1>9. C!InsertAll(all, limit) = upto[N]
  BY DEF C!InsertAll, N
<1> HIDE DEF upto
<1>10. upto = [n \in 0..N |-> IF n = 0 THEN nil ELSE step(n, upto[n - 1])]
  BY <1>8 DEF nil, step
<1>11. upto[0] = nil /\ \A n \in 1..N : upto[n] = step(n, upto[n - 1])
  BY <1>10, <1>1
<1> DEFINE H == {n \in Nat : n <= N => upto[n] \in P[n]}
<1>12. 0 \in H
  BY <1>1, <1>2, <1>11
<1>13. ASSUME NEW n \in Nat, n \in H, n + 1 <= N PROVE upto[n + 1] \in P[n + 1]
  <2>1. n + 1 \in 1..N /\ (n + 1) - 1 = n /\ n <= N
    BY <1>1, <1>13
  <2>2. upto[n] \in P[n]
    BY <1>13, <2>1
  <2> QED
    BY <1>3, <1>11, <2>1, <2>2
<1>14. \A n \in Nat : n \in H => n + 1 \in H
  BY <1>13
<1> HIDE DEF H
<1>15. N \in H
  BY <1>1, <1>12, <1>14, Induction
<1>16. upto[N] \in P[N]
  BY <1>1, <1>15 DEF H
<1> QED
  BY <1>1, <1>9, <1>16 DEF P, N, X

\* The last loop, that stops at the limit, has said so.
Told(acc, all, n, limit) == n >= 1 => (C!Cardinality(acc.edges) >= limit => acc.truncated)
Pairs(S, M) == [first : BOOLEAN, edge : Edges(S, M)]
PairKeys(all, n) == {all[i].edge.key : i \in 1..n}
HoldsShared(acc, start, all, n) ==
    /\ start.truncated => acc.truncated
    /\ C!Keys(acc.edges) \subseteq C!Keys(start.edges) \cup PairKeys(all, n)
    /\ ~acc.truncated => C!Keys(acc.edges) = C!Keys(start.edges) \cup PairKeys(all, n)

LEMMA InsertSharedIs ==
  ASSUME NEW S, NEW M, NEW all \in Seq(Pairs(S, M)), NEW limit, NEW start,
         NEW n \in 1..Len(all), NEW x \in Sets(S, M), n = 1 => all[1].first,
         HoldsShared(x, start, all, n - 1), Told(x, all, n - 1, limit)
  PROVE  LET y == C!InsertShared(x, all[n], limit)
         IN  y \in Sets(S, M) /\ HoldsShared(y, start, all, n) /\ Told(y, all, n, limit)
<1> DEFINE y == C!InsertShared(x, all[n], limit)
           next == C!Insert(x, all[n].edge, limit)
           z == all[n].edge.key
<1>1. all[n] \in Pairs(S, M)
  OBVIOUS
<1>2. all[n].edge \in Edges(S, M) /\ all[n].first \in BOOLEAN
  BY <1>1 DEF Pairs
<1>3. /\ next \in Sets(S, M)
      /\ x.truncated => next.truncated
      /\ C!Keys(next.edges) \subseteq C!Keys(x.edges) \cup {z}
      /\ ~next.truncated => C!Keys(next.edges) = C!Keys(x.edges) \cup {z}
  BY <1>2, InsertIs
<1>4. PairKeys(all, n) = PairKeys(all, n - 1) \cup {z}
  <2>1. \A i : i \in 1..n <=> i \in 1..n-1 \/ i = n
    OBVIOUS
  <2> QED
    BY <2>1 DEF PairKeys
<1>5. CASE C!Cardinality(x.edges) >= limit /\ ~all[n].first
  <2>1. y = x
    BY <1>5 DEF C!InsertShared
  <2>2. x.truncated
    <3>1. n # 1
      BY <1>5
    <3>2. n - 1 >= 1
      BY <3>1
    <3> QED
      BY <1>5, <3>2 DEF Told
  <2> QED
    BY <1>4, <2>1, <2>2 DEF HoldsShared, Told
<1>6. CASE ~(C!Cardinality(x.edges) >= limit /\ ~all[n].first)
  <2> HIDE DEF z, next
  <2>1. y = [next EXCEPT !.truncated = next.truncated \/ C!Cardinality(next.edges) >= limit]
    BY <1>6 DEF C!InsertShared, next
  <2>2. (next.truncated \/ C!Cardinality(next.edges) >= limit) \in BOOLEAN
    OBVIOUS
  <2>3. /\ y \in Sets(S, M) /\ y.edges = next.edges
        /\ y.truncated = (next.truncated \/ C!Cardinality(next.edges) >= limit)
    BY <1>3, <2>1, <2>2 DEF Sets
  <2> HIDE DEF y
  <2>4. HoldsShared(y, start, all, n)
    BY <1>3, <1>4, <2>3 DEF HoldsShared
  <2>5. Told(y, all, n, limit)
    BY <2>3 DEF Told
  <2> QED
    BY <2>3, <2>4, <2>5 DEF y
<1> QED
  BY <1>5, <1>6

Starts(all) == all # <<>> => all[1].first

LEMMA InsertAllSharedIs ==
  ASSUME NEW S, NEW M, NEW all \in Seq(Pairs(S, M)), NEW limit, NEW start \in Sets(S, M),
         Starts(all)
  PROVE  /\ C!InsertAllShared(start, all, limit) \in Sets(S, M)
         /\ HoldsShared(C!InsertAllShared(start, all, limit), start, all, Len(all))
<1> DEFINE N == Len(all)
           X == Sets(S, M)
           P == [n \in 0..N |-> {x \in X : HoldsShared(x, start, all, n) /\ Told(x, all, n, limit)}]
           nil == start
           step(n, x) == C!InsertShared(x, all[n], limit)
           g == [n \in 1..N |-> [x \in X |-> step(n, x)]]
<1>1. N \in Nat
  OBVIOUS
<1>2. nil \in P[0]
  <2>1. 1..0 = {} /\ 0 \in 0..N
    BY <1>1
  <2>2. HoldsShared(nil, start, all, 0) /\ Told(nil, all, 0, limit)
    BY <2>1 DEF HoldsShared, PairKeys, Told
  <2> QED
    BY <2>1, <2>2
<1>3. \A n \in 1..N : \A x \in P[n - 1] : g[n][x] = step(n, x) /\ step(n, x) \in P[n]
  <2> SUFFICES ASSUME NEW n \in 1..N, NEW x \in P[n - 1]
               PROVE  g[n][x] = step(n, x) /\ step(n, x) \in P[n]
    OBVIOUS
  <2>1. n - 1 \in 0..N /\ n \in 0..N /\ n \in 1..Len(all)
    BY <1>1
  <2>2. x \in X /\ HoldsShared(x, start, all, n - 1) /\ Told(x, all, n - 1, limit)
    BY <2>1
  <2>3. n = 1 => all[1].first
    <3>1. all # <<>>
      BY <2>1
    <3> QED
      BY <3>1 DEF Starts
  <2>4. /\ step(n, x) \in X /\ HoldsShared(step(n, x), start, all, n)
        /\ Told(step(n, x), all, n, limit)
    BY <2>1, <2>2, <2>3, InsertSharedIs
  <2> QED
    BY <2>1, <2>2, <2>4
<1> HIDE DEF N, X, P, nil, step, g
<1>4. PICK f : Keeps(f, P, nil, N, g)
  BY <1>1, <1>2, <1>3, LoopKept
<1>5. \A n \in 0..N : f[n] = (IF n = 0 THEN nil ELSE step(n, f[n - 1]))
  <2>1. \A n \in 1..N : n - 1 \in 0..N
    BY <1>1
  <2>2. \A n \in 0..N : n # 0 => n \in 1..N
    BY <1>1
  <2> QED
    BY <1>3, <1>4, <2>1, <2>2 DEF Keeps
<1>6. f = [n \in 0..N |-> IF n = 0 THEN nil ELSE step(n, f[n - 1])]
  BY <1>4, <1>5 DEF Keeps
<1>7. f = [n \in 0..N |-> IF n = 0 THEN start ELSE C!InsertShared(f[n - 1], all[n], limit)]
  BY <1>6 DEF nil, step
<1> DEFINE upto[n \in 0..N] == IF n = 0 THEN start ELSE C!InsertShared(upto[n - 1], all[n], limit)
<1>8. upto = [n \in 0..N |-> IF n = 0 THEN start
                             ELSE C!InsertShared(upto[n - 1], all[n], limit)]
  BY <1>7
<1>9. C!InsertAllShared(start, all, limit) = upto[N]
  BY DEF C!InsertAllShared, N
<1> HIDE DEF upto
<1>10. upto = [n \in 0..N |-> IF n = 0 THEN nil ELSE step(n, upto[n - 1])]
  BY <1>8 DEF nil, step
<1>11. upto[0] = nil /\ \A n \in 1..N : upto[n] = step(n, upto[n - 1])
  BY <1>10, <1>1
<1> DEFINE H == {n \in Nat : n <= N => upto[n] \in P[n]}
<1>12. 0 \in H
  BY <1>1, <1>2, <1>11
<1>13. ASSUME NEW n \in Nat, n \in H, n + 1 <= N PROVE upto[n + 1] \in P[n + 1]
  <2>1. n + 1 \in 1..N /\ (n + 1) - 1 = n /\ n <= N
    BY <1>1, <1>13
  <2>2. upto[n] \in P[n]
    BY <1>13, <2>1
  <2> QED
    BY <1>3, <1>11, <2>1, <2>2
<1>14. \A n \in Nat : n \in H => n + 1 \in H
  BY <1>13
<1> HIDE DEF H
<1>15. N \in H
  BY <1>1, <1>12, <1>14, Induction
<1>16. upto[N] \in P[N]
  BY <1>1, <1>15 DEF H
<1> QED
  BY <1>1, <1>9, <1>16 DEF P, N, X

LEMMA KeysJoined ==
  ASSUME NEW A, NEW a \in Seq(A), NEW b \in Seq(A)
  PROVE  a \o b \in Seq(A) /\ KeysOf(a \o b) = KeysOf(a) \cup KeysOf(b)
<1> DEFINE y == a \o b
<1>1. /\ y \in Seq(A) /\ Len(y) = Len(a) + Len(b) /\ Len(a) \in Nat /\ Len(b) \in Nat
      /\ DOMAIN y = 1..Len(y) /\ DOMAIN a = 1..Len(a) /\ DOMAIN b = 1..Len(b)
      /\ \A i \in 1..Len(a) : y[i] = a[i]
      /\ \A i \in 1..Len(b) : y[Len(a) + i] = b[i]
  OBVIOUS
<1> HIDE DEF y
<1>2. \A i \in DOMAIN a : i \in DOMAIN y /\ y[i] = a[i]
  BY <1>1
<1>3. \A i \in DOMAIN b : Len(a) + i \in DOMAIN y /\ y[Len(a) + i] = b[i]
  BY <1>1
<1>4. KeysOf(a) \cup KeysOf(b) \subseteq KeysOf(y)
  BY <1>2, <1>3 DEF KeysOf
<1>5. ASSUME NEW i \in DOMAIN y PROVE y[i].key \in KeysOf(a) \cup KeysOf(b)
  <2>1. CASE i <= Len(a)
    BY <1>1, <2>1 DEF KeysOf
  <2>2. CASE i > Len(a)
    <3>1. i - Len(a) \in 1..Len(b) /\ Len(a) + (i - Len(a)) = i
      BY <1>1, <2>2
    <3> QED
      BY <1>1, <3>1 DEF KeysOf
  <2> QED
    BY <1>1, <2>1, <2>2
<1>6. KeysOf(y) \subseteq KeysOf(a) \cup KeysOf(b)
  BY <1>5 DEF KeysOf
<1> QED
  BY <1>1, <1>4, <1>6 DEF y

-----------------------------------------------------------------------------
(* Catalog: what makes the edges of a view.                                *)

LEMMA ShelfLists ==
  ASSUME NEW q, NEW S, NEW n
  PROVE  /\ C!InOrder(q, S) = InOrder(q, S) /\ C!Take(q, n) = Take(q, n)
         /\ C!Flat(q) = Flat(q) /\ C!Cardinality(S) = Cardinality(S)
<1>1. C!InOrder(q, S) = InOrder(q, S)
  BY DEF C!InOrder, InOrder, C!Select, Select
<1>2. C!Take(q, n) = Take(q, n)
  BY DEF C!Take, Take
<1>3. C!Flat(q) = Flat(q)
  BY DEF C!Flat, Flat
<1>4. C!Cardinality(S) = Cardinality(S)
  BY DEF C!Cardinality, Cardinality
<1> QED
  BY <1>1, <1>2, <1>3, <1>4

Names(Q, among, w, t) == C!Named(Q, among, w) = {t}

\* A name resolves to the one source that answers to it.
LEMMA ResolveIs ==
  ASSUME NEW Q, NEW among, NEW w, None \notin among
  PROVE  /\ C!Resolve(Q, among, w) # None =>
              /\ C!Resolve(Q, among, w) \in among
              /\ Names(Q, among, w, C!Resolve(Q, among, w))
         /\ \A t : Names(Q, among, w, t) => /\ C!Resolve(Q, among, w) = t
                                            /\ t \in among /\ w \in {t} \cup Q[t].text.names
<1>1. \A t : Names(Q, among, w, t) => t \in among /\ w \in {t} \cup Q[t].text.names
  BY DEF C!Named, Names
<1>2. C!Resolve(Q, among, w) = (IF \E s \in among : Names(Q, among, w, s)
                                THEN CHOOSE s \in among : Names(Q, among, w, s) ELSE None)
  BY DEF C!Resolve, Names
<1>3. ASSUME \E s \in among : Names(Q, among, w, s)
      PROVE  LET t == CHOOSE s \in among : Names(Q, among, w, s)
             IN  t \in among /\ Names(Q, among, w, t)
  BY <1>3
<1>5. \A s, t : Names(Q, among, w, s) /\ Names(Q, among, w, t) => s = t
  BY DEF Names
<1>6. CASE \E s \in among : Names(Q, among, w, s)
  <2>1. Names(Q, among, w, C!Resolve(Q, among, w)) /\ C!Resolve(Q, among, w) \in among
    BY <1>2, <1>3, <1>6
  <2> QED
    BY <1>1, <1>5, <2>1
<1>7. CASE ~\E s \in among : Names(Q, among, w, s)
  <2>1. C!Resolve(Q, among, w) = None /\ \A s : ~Names(Q, among, w, s)
    BY <1>1, <1>2, <1>7
  <2> QED
    BY <2>1
<1> QED
  BY <1>6, <1>7

Rests(x, n, S, M) == x \in SUBSET S /\ n \in SUBSET M
Joins(a, b, kind) == a \in C!Sources /\ b \in C!Sources /\ kind \in Kinds

LEMMA EdgeIs ==
  ASSUME NEW S, NEW M, NEW a, NEW b, NEW kind, Joins(a, b, kind), NEW x, NEW n, Rests(x, n, S, M)
  PROVE  C!Edge(a, b, kind, x, n) \in Edges(S, M)
<1> DEFINE key == <<a, b, kind>>
<1>1. key \in C!Sources \X C!Sources \X Kinds
  BY DEF Joins
<1>2. C!Edge(a, b, kind, x, n) = [key |-> key, supports |-> x, notes |-> n]
  BY DEF C!Edge
<1> HIDE DEF key
<1> QED
  BY <1>1, <1>2 DEF Edges, Rests

\* Sources of the shelf with what they say, each of a revision in S.
IsView(Q, S) == /\ DOMAIN Q \subseteq C!Sources
                /\ \A s \in DOMAIN Q : Q[s].text \in C!AllTexts /\ <<s, Q[s].rev>> \in S

LEMMA ViewLists ==
  ASSUME C!Assumptions, NEW S, NEW Q, IsView(Q, S)
  PROVE  /\ None \notin DOMAIN Q /\ Shelf \in Seq(C!Sources) /\ C!Sources = Elements(Shelf)
         /\ \A s \in DOMAIN Q : /\ Q[s].text.links \in Seq(Elements(Q[s].text.links))
                                /\ Q[s].text.cites \in Seq(Elements(Q[s].text.cites))
                                /\ <<s, Q[s].rev>> \in S /\ s \in C!Sources
<1>1. C!Sources = Elements(Shelf)
  BY DEF C!Sources, Elements
<1> QED
  BY <1>1, CatalogLists DEF C!Assumptions, IsView, IsList

LinksTo(Q, s, t) == \E w \in Elements(Q[s].text.links) : Names(Q, DOMAIN Q, w, t)
CitesRaw(Q, s, t) ==
    s \in Compiled /\ \E w \in Elements(Q[s].text.cites) : Names(Q, DOMAIN Q \ Compiled, w, t)

Linked(x, Q, s)  == \E t \in DOMAIN Q : x = <<s, t, "wikilink">> /\ LinksTo(Q, s, t)
Referred(x, Q, s) == \E t \in DOMAIN Q : x = <<s, t, "source_reference">> /\ CitesRaw(Q, s, t)
AmongPairs(x, all) == \E e \in Elements(all) : e.edge.key = x

LEMMA LinksOfIs ==
  ASSUME C!Assumptions, NEW S, NEW M, NEW Q, IsView(Q, S), NEW s \in DOMAIN Q
  PROVE  /\ C!LinksOf(Q, s) \in Seq(Edges(S, M))
         /\ \A x : x \in KeysOf(C!LinksOf(Q, s)) <=> Linked(x, Q, s)
<1> DEFINE said  == Q[s].text.links
           good  == {w \in C!Words(Q) : C!Resolve(Q, DOMAIN Q, w) # None}
           links == InOrder(said, good)
           all   == C!LinksOf(Q, s)
<1>1. /\ None \notin DOMAIN Q /\ said \in Seq(Elements(said)) /\ <<s, Q[s].rev>> \in S
      /\ s \in C!Sources /\ DOMAIN Q \subseteq C!Sources
  BY ViewLists DEF IsView
<1> HIDE DEF said
<1>2. links \in Seq(Elements(said)) /\ Elements(links) = Elements(said) \cap good
  BY <1>1, InOrderIs
<1>3. \A w : w \in good => /\ C!Resolve(Q, DOMAIN Q, w) \in DOMAIN Q
                           /\ Names(Q, DOMAIN Q, w, C!Resolve(Q, DOMAIN Q, w))
  BY <1>1, ResolveIs
<1>4. ASSUME NEW w, NEW t, Names(Q, DOMAIN Q, w, t)
      PROVE  w \in good /\ C!Resolve(Q, DOMAIN Q, w) = t /\ t \in DOMAIN Q
  <2>1. C!Resolve(Q, DOMAIN Q, w) = t /\ t \in DOMAIN Q
    BY <1>1, <1>4, ResolveIs
  <2>2. w \in {t} \cup Q[t].text.names
    BY <1>1, <1>4, ResolveIs
  <2>3. w \in C!Words(Q)
    BY <2>1, <2>2 DEF C!Words
  <2> QED
    BY <1>1, <2>1, <2>3
<1> HIDE DEF links
<1>5. /\ all = [i \in DOMAIN links |->
                  C!Edge(s, C!Resolve(Q, DOMAIN Q, links[i]), "wikilink", C!Current(Q, s), {})]
      /\ DOMAIN links = 1..Len(links) /\ Len(links) \in Nat
  <2> DEFINE taken == C!InOrder(Q[s].text.links, good)
  <2>1. taken = links
    BY ShelfLists DEF links, said
  <2>2. all = [i \in DOMAIN taken |->
                 C!Edge(s, C!Resolve(Q, DOMAIN Q, taken[i]), "wikilink", C!Current(Q, s), {})]
    BY DEF C!LinksOf
  <2> HIDE DEF taken, all, good
  <2> QED
    BY <1>2, <2>1, <2>2
<1>6. \A i \in DOMAIN links : links[i] \in Elements(said) \cap good
  BY <1>2 DEF Elements
<1>7. \A w \in Elements(said) \cap good : \E i \in DOMAIN links : links[i] = w
  BY <1>2 DEF Elements
<1> HIDE DEF good
<1>8. ASSUME NEW i \in DOMAIN links
      PROVE  /\ all[i] \in Edges(S, M)
             /\ all[i].key = <<s, C!Resolve(Q, DOMAIN Q, links[i]), "wikilink">>
  <2> DEFINE t == C!Resolve(Q, DOMAIN Q, links[i])
  <2>1. all[i] = C!Edge(s, t, "wikilink", {<<s, Q[s].rev>>}, {})
    BY <1>5 DEF C!Current
  <2>2. s \in C!Sources /\ t \in C!Sources
    BY <1>1, <1>3, <1>6
  <2>3. {<<s, Q[s].rev>>} \in SUBSET S /\ {} \in SUBSET M /\ "wikilink" \in Kinds
    BY <1>1 DEF Kinds
  <2> DEFINE x == {<<s, Q[s].rev>>}
             n == {}
             kind == "wikilink"
  <2>4. Rests(x, n, S, M) /\ Joins(s, t, kind) /\ all[i] = C!Edge(s, t, kind, x, n)
    BY <2>1, <2>2, <2>3 DEF Rests, Joins
  <2> HIDE DEF t, x, n, kind, all
  <2>5. C!Edge(s, t, kind, x, n) \in Edges(S, M)
    BY <2>4, EdgeIs
  <2>6. C!Edge(s, t, kind, x, n).key = <<s, t, kind>>
    BY DEF C!Edge
  <2> QED
    BY <2>4, <2>5, <2>6 DEF t, kind
<1>9. all \in Seq(Edges(S, M)) /\ DOMAIN all = DOMAIN links
  BY <1>5, <1>8
<1> HIDE DEF all
<1>10. ASSUME NEW x, x \in KeysOf(all)
       PROVE  \E t \in DOMAIN Q : x = <<s, t, "wikilink">> /\ LinksTo(Q, s, t)
  <2>1. PICK i \in DOMAIN links : x = <<s, C!Resolve(Q, DOMAIN Q, links[i]), "wikilink">>
    BY <1>8, <1>9, <1>10 DEF KeysOf
  <2> QED
    BY <1>3, <1>6, <2>1 DEF LinksTo, said
<1>11. ASSUME NEW t \in DOMAIN Q, LinksTo(Q, s, t) PROVE <<s, t, "wikilink">> \in KeysOf(all)
  <2>1. PICK w \in Elements(said) : Names(Q, DOMAIN Q, w, t)
    BY <1>11 DEF LinksTo, said
  <2>2. PICK i \in DOMAIN links : links[i] = w
    BY <1>4, <1>7, <2>1
  <2>3. all[i].key = <<s, t, "wikilink">>
    BY <1>4, <1>8, <2>1, <2>2
  <2> QED
    BY <1>9, <2>3 DEF KeysOf
<1> QED
  BY <1>9, <1>10, <1>11 DEF all, Linked

LEMMA CitesOfIs ==
  ASSUME C!Assumptions, NEW S, NEW M, NEW Q, IsView(Q, S), NEW s \in DOMAIN Q
  PROVE  /\ C!CitesOf(Q, s) \in Seq(Edges(S, M))
         /\ \A x : x \in KeysOf(C!CitesOf(Q, s)) <=> Referred(x, Q, s)
<1> DEFINE said  == Q[s].text.cites
           raw   == DOMAIN Q \ Compiled
           good  == {w \in C!Words(Q) : C!Cited(Q, w) # None}
           cites == InOrder(said, good)
           all   == C!CitesOf(Q, s)
<1>1. /\ None \notin DOMAIN Q /\ said \in Seq(Elements(said))
      /\ \A t \in DOMAIN Q : <<t, Q[t].rev>> \in S
      /\ s \in C!Sources /\ DOMAIN Q \subseteq C!Sources
  BY ViewLists DEF IsView
<1> HIDE DEF said
<1>2. cites \in Seq(Elements(said)) /\ Elements(cites) = Elements(said) \cap good
  BY <1>1, InOrderIs
<1>c. \A w : C!Cited(Q, w) = C!Resolve(Q, raw, w)
  BY DEF C!Cited
<1>r. None \notin raw /\ raw \subseteq DOMAIN Q
  BY <1>1
<1>3. \A w : w \in good => /\ C!Cited(Q, w) \in raw
                           /\ Names(Q, raw, w, C!Cited(Q, w))
  <2>1. \A w : w \in good => C!Cited(Q, w) # None
    OBVIOUS
  <2> HIDE DEF good, raw
  <2> QED
    BY <1>c, <1>r, <2>1, ResolveIs
<1>4. ASSUME NEW w, NEW t, Names(Q, raw, w, t)
      PROVE  w \in good /\ C!Cited(Q, w) = t /\ t \in raw
  <2>1. C!Cited(Q, w) = t /\ t \in raw
    <3>1. C!Resolve(Q, raw, w) = t /\ t \in raw
      <4> HIDE DEF raw
      <4> QED
        BY <1>r, <1>4, ResolveIs
    <3> QED
      BY <1>c, <3>1
  <2>2. w \in {t} \cup Q[t].text.names
    BY <1>r, <1>4, ResolveIs
  <2>3. w \in C!Words(Q)
    BY <1>r, <2>1, <2>2 DEF C!Words
  <2> QED
    BY <1>r, <2>1, <2>3
<1> HIDE DEF cites
<1>5. CASE s \notin Compiled
  <2>1. all = <<>>
    BY <1>5 DEF C!CitesOf
  <2>2. all \in Seq(Edges(S, M)) /\ \A x : x \notin KeysOf(all)
    BY <2>1 DEF KeysOf
  <2> QED
    BY <1>5, <2>2 DEF CitesRaw, Referred
<1>6. CASE s \in Compiled
  <2>1. /\ all = [i \in DOMAIN cites |->
                    C!Edge(s, C!Cited(Q, cites[i]), "source_reference",
                           C!Current(Q, C!Cited(Q, cites[i])), {})]
        /\ DOMAIN cites = 1..Len(cites) /\ Len(cites) \in Nat
    <3> DEFINE met == C!InOrder(Q[s].text.cites, good)
    <3>1. met = cites
      BY ShelfLists DEF cites, said
    <3>2. all = [i \in DOMAIN met |->
                   C!Edge(s, C!Cited(Q, met[i]), "source_reference",
                          C!Current(Q, C!Cited(Q, met[i])), {})]
      BY <1>6 DEF C!CitesOf
    <3> HIDE DEF met, all, good
    <3> QED
      BY <1>2, <3>1, <3>2
  <2>2. \A i \in DOMAIN cites : cites[i] \in Elements(said) \cap good
    BY <1>2 DEF Elements
  <2>3. \A w \in Elements(said) \cap good : \E i \in DOMAIN cites : cites[i] = w
    BY <1>2 DEF Elements
  <2> HIDE DEF good, raw
  <2>4. ASSUME NEW i \in DOMAIN cites
        PROVE  /\ all[i] \in Edges(S, M)
               /\ all[i].key = <<s, C!Cited(Q, cites[i]), "source_reference">>
    <3> DEFINE t == C!Cited(Q, cites[i])
    <3>1. all[i] = C!Edge(s, t, "source_reference", {<<t, Q[t].rev>>}, {})
      BY <2>1 DEF C!Current
    <3>2. t \in C!Sources /\ <<t, Q[t].rev>> \in S
      BY <1>1, <1>r, <1>3, <2>2
    <3> HIDE DEF t
    <3>3. {<<t, Q[t].rev>>} \in SUBSET S /\ {} \in SUBSET M /\ "source_reference" \in Kinds
      BY <3>2 DEF Kinds
    <3> DEFINE x == {<<t, Q[t].rev>>}
               n == {}
               kind == "source_reference"
    <3>4. Rests(x, n, S, M) /\ Joins(s, t, kind) /\ all[i] = C!Edge(s, t, kind, x, n)
      BY <1>1, <3>1, <3>2, <3>3 DEF Rests, Joins
    <3> HIDE DEF x, n, kind, all
    <3>5. C!Edge(s, t, kind, x, n) \in Edges(S, M)
      BY <3>4, EdgeIs
    <3>6. C!Edge(s, t, kind, x, n).key = <<s, t, kind>>
      BY DEF C!Edge
    <3> QED
      BY <3>4, <3>5, <3>6 DEF t, kind
  <2>5. all \in Seq(Edges(S, M)) /\ DOMAIN all = DOMAIN cites
    BY <2>1, <2>4
  <2> HIDE DEF all
  <2>6. ASSUME NEW x, x \in KeysOf(all)
        PROVE  \E t \in DOMAIN Q : x = <<s, t, "source_reference">> /\ CitesRaw(Q, s, t)
    <3>1. PICK i \in DOMAIN cites : x = <<s, C!Cited(Q, cites[i]), "source_reference">>
      BY <2>4, <2>5, <2>6 DEF KeysOf
    <3>2. C!Cited(Q, cites[i]) \in DOMAIN Q /\ CitesRaw(Q, s, C!Cited(Q, cites[i]))
      BY <1>r, <1>3, <1>6, <2>2 DEF CitesRaw, said, raw
    <3> QED
      BY <3>1, <3>2
  <2>7. ASSUME NEW t \in DOMAIN Q, CitesRaw(Q, s, t)
        PROVE  <<s, t, "source_reference">> \in KeysOf(all)
    <3>1. PICK w \in Elements(said) : Names(Q, raw, w, t)
      BY <2>7 DEF CitesRaw, said, raw
    <3>2. PICK i \in DOMAIN cites : cites[i] = w
      BY <1>4, <2>3, <3>1
    <3>3. all[i].key = <<s, t, "source_reference">>
      BY <1>4, <2>4, <3>1, <3>2
    <3> QED
      BY <2>5, <3>3 DEF KeysOf
  <2> QED
    BY <2>5, <2>6, <2>7 DEF all, Referred
<1> QED
  BY <1>5, <1>6

\* Every two articles that cite r, in the order of the shelf.
PairOf(x, Q, r) ==
    \E a, b \in 1..Len(Shelf) : /\ a < b /\ x = <<Shelf[a], Shelf[b], "shared_source">>
                                /\ {Shelf[a], Shelf[b]} \subseteq DOMAIN Q
                                /\ CitesRaw(Q, Shelf[a], r) /\ CitesRaw(Q, Shelf[b], r)

LEMMA CitingIs ==
  ASSUME C!Assumptions, NEW S, NEW Q, IsView(Q, S), NEW r \in DOMAIN Q
  PROVE  C!Citing(Q, r) = {s \in DOMAIN Q : CitesRaw(Q, s, r)}
<1> DEFINE raw == DOMAIN Q \ Compiled
<1>1. None \notin raw /\ None \notin DOMAIN Q /\ \A w : C!Cited(Q, w) = C!Resolve(Q, raw, w)
  BY ViewLists DEF C!Cited
<1>2. \A w : C!Cited(Q, w) = r <=> Names(Q, raw, w, r)
  <2> HIDE DEF raw
  <2> QED
    BY <1>1, ResolveIs
<1>3. ASSUME NEW s \in DOMAIN Q
      PROVE  s \in C!Citing(Q, r) <=> CitesRaw(Q, s, r)
  <2> DEFINE q == Q[s].text.cites
  <2>1. s \in C!Citing(Q, r) <=> s \in Compiled /\ \E i \in DOMAIN q : C!Cited(Q, q[i]) = r
    BY DEF C!Citing
  <2>2. (\E i \in DOMAIN q : C!Cited(Q, q[i]) = r) <=> \E w \in Elements(q) : Names(Q, raw, w, r)
    <3> HIDE DEF q, raw
    <3> QED
      BY <1>2 DEF Elements
  <2> QED
    BY <2>1, <2>2 DEF CitesRaw
<1>4. C!Citing(Q, r) \subseteq DOMAIN Q
  BY DEF C!Citing
<1> QED
  BY <1>3, <1>4

LEMMA SharedOfIs ==
  ASSUME C!Assumptions, NEW S, NEW M, NEW Q, IsView(Q, S), NEW r \in DOMAIN Q
  PROVE  /\ C!SharedOf(Q, r) \in Seq(Pairs(S, M)) /\ Starts(C!SharedOf(Q, r))
         /\ \A x : AmongPairs(x, C!SharedOf(Q, r)) <=> PairOf(x, Q, r)
<1> DEFINE citing == InOrder(Shelf, C!Citing(Q, r))
           N      == Len(citing)
           Pair(i, j) == [first |-> i = 1 /\ j = 1,
                          edge  |-> C!Edge(citing[i], citing[i + j], "shared_source",
                                           C!Current(Q, r), {})]
           q      == [i \in DOMAIN citing |-> [j \in 1..N - i |-> Pair(i, j)]]
           all    == Flat(q)
<1>1. /\ Shelf \in Seq(C!Sources) /\ C!Sources = Elements(Shelf) /\ <<r, Q[r].rev>> \in S
      /\ C!Citing(Q, r) = {s \in DOMAIN Q : CitesRaw(Q, s, r)}
      /\ DOMAIN Q \subseteq C!Sources
  <2>1. Shelf \in Seq(C!Sources) /\ C!Sources = Elements(Shelf) /\ <<r, Q[r].rev>> \in S
    BY ViewLists
  <2>2. C!Citing(Q, r) = {s \in DOMAIN Q : CitesRaw(Q, s, r)}
    BY CitingIs
  <2> QED
    BY <2>1, <2>2 DEF IsView
<1> DEFINE P == {i \in DOMAIN Shelf : Shelf[i] \in C!Citing(Q, r)}
<1>2. citing \in Seq(C!Sources) /\ Picked(citing, Shelf, P, Len(Shelf))
  BY <1>1, SelectIs DEF InOrder
<1>p. \A i \in 1..Len(Shelf) : i \in P <=> Shelf[i] \in C!Citing(Q, r)
  BY <1>1
<1> HIDE DEF P
<1>3. PICK m : Picks(m, citing, Shelf, P, Len(Shelf))
  BY <1>2 DEF Picked
<1>4. /\ N \in Nat /\ DOMAIN citing = 1..N /\ Len(Shelf) \in Nat
      /\ \A i \in 1..N : citing[i] \in C!Sources
  <2>1. Len(citing) \in Nat /\ Len(Shelf) \in Nat /\ DOMAIN citing = 1..Len(citing)
    BY <1>1, <1>2
  <2>2. \A i \in 1..Len(citing) : citing[i] \in C!Sources
    BY <1>2
  <2> QED
    BY <2>1, <2>2
<1>5. C!SharedOf(Q, r) = all
  <2> DEFINE taken == C!InOrder(Shelf, C!Citing(Q, r))
             qq == [i \in DOMAIN taken |-> [j \in 1..Len(taken) - i |->
                      [first |-> i = 1 /\ j = 1,
                       edge  |-> C!Edge(taken[i], taken[i + j], "shared_source",
                                        C!Current(Q, r), {})]]]
  <2>1. taken = citing
    BY ShelfLists
  <2>2. C!SharedOf(Q, r) = C!Flat(qq)
    BY DEF C!SharedOf
  <2>3. qq = q
    BY <2>1
  <2> HIDE DEF qq, q
  <2> QED
    BY <2>2, <2>3, ShelfLists
<1>6. ASSUME NEW i \in 1..N, NEW j \in 1..N - i
      PROVE  /\ Pair(i, j) \in Pairs(S, M)
             /\ Pair(i, j).edge.key = <<citing[i], citing[i + j], "shared_source">>
             /\ Pair(i, j).first = (i = 1 /\ j = 1)
  <2> DEFINE x == {<<r, Q[r].rev>>}
             n == {}
             kind == "shared_source"
             e == C!Edge(citing[i], citing[i + j], kind, x, n)
  <2>1. i + j \in 1..N
    BY <1>4
  <2>2. Rests(x, n, S, M) /\ C!Current(Q, r) = x /\ kind \in Kinds
    BY <1>1 DEF C!Current, Kinds, Rests
  <2>3. Joins(citing[i], citing[i + j], kind)
    BY <1>4, <2>1, <2>2 DEF Joins
  <2>4. Pair(i, j) = [first |-> i = 1 /\ j = 1, edge |-> e]
    BY <2>2
  <2> HIDE DEF x, n, kind
  <2>5. e \in Edges(S, M)
    BY <2>2, <2>3, EdgeIs
  <2>7. e.key = <<citing[i], citing[i + j], kind>>
    BY DEF C!Edge
  <2>6. (i = 1 /\ j = 1) \in BOOLEAN
    OBVIOUS
  <2> HIDE DEF e, Pair
  <2> QED
    BY <2>4, <2>5, <2>6, <2>7 DEF Pairs, kind
<1> HIDE DEF Pair, N, citing
<1>n. N = Len(citing)
  BY DEF N
<1>m. /\ m \in [1..N -> 1..Len(Shelf)]
      /\ \A i \in 1..N : m[i] \in P /\ citing[i] = Shelf[m[i]]
      /\ \A i, j \in 1..N : i < j => m[i] < m[j]
      /\ \A p \in 1..Len(Shelf) : p \in P => \E i \in 1..N : m[i] = p
  BY <1>3, <1>n DEF Picks
<1>7. /\ Len(q) = N /\ DOMAIN q = 1..N
      /\ \A i \in 1..N : /\ q[i] = [j \in 1..N - i |-> Pair(i, j)] /\ N - i \in Nat
                         /\ q[i] \in Seq(Pairs(S, M)) /\ Len(q[i]) = N - i
  <2>1. ASSUME NEW i \in 1..N
        PROVE  /\ q[i] = [j \in 1..N - i |-> Pair(i, j)] /\ N - i \in Nat
               /\ q[i] \in Seq(Pairs(S, M)) /\ Len(q[i]) = N - i
    <3> DEFINE r_i == [j \in 1..N - i |-> Pair(i, j)]
               z == N - i
    <3>1. q[i] = r_i /\ z \in Nat
      BY <1>4
    <3>2. \A j \in 1..z : Pair(i, j) \in Pairs(S, M)
      BY <1>6
    <3>3. r_i = [j \in 1..z |-> Pair(i, j)]
      OBVIOUS
    <3> HIDE DEF r_i, z, q
    <3>4. r_i \in [1..z -> Pairs(S, M)]
      BY <3>2, <3>3
    <3>5. r_i \in Seq(Pairs(S, M)) /\ Len(r_i) = z
      BY <3>1, <3>4
    <3> QED
      BY <3>1, <3>5 DEF r_i, z
  <2>2. Len(q) = N /\ DOMAIN q = 1..N
    BY <1>4
  <2> QED
    BY <2>1, <2>2
<1> HIDE DEF q, all
<1>8. Nested(q, Pairs(S, M))
  BY <1>4, <1>7 DEF Nested
<1>9. all \in Seq(Pairs(S, M)) /\ Flattens(all, q, N)
  BY <1>7, <1>8, FlatIs DEF all
<1>10. Starts(all)
  <2> SUFFICES ASSUME all # <<>> PROVE all[1].first
    BY DEF Starts
  <2>1. PICK i \in 1..N : q[i] # <<>> /\ all[1] = q[i][1] /\ \A j \in 1..i - 1 : q[j] = <<>>
    BY <1>9 DEF Flattens
  <2>2. i = 1
    <3> SUFFICES ASSUME i # 1 PROVE FALSE
      OBVIOUS
    <3>1. 1 \in 1..i - 1 /\ 1 \in 1..N
      BY <1>4
    <3>2. Len(q[1]) = 0 /\ Len(q[1]) = N - 1
      BY <1>7, <2>1, <3>1
    <3>3. N - i = 0
      BY <1>4, <3>1, <3>2
    <3>4. Len(q[i]) = 0 /\ q[i] \in Seq(Pairs(S, M))
      BY <1>7, <3>3
    <3> QED
      BY <2>1, <3>4
  <2>3. Len(q[1]) >= 1 /\ Len(q[1]) = N - 1
    BY <1>4, <1>7, <2>1, <2>2
  <2>4. 1 \in 1..N /\ 1 \in 1..N - 1
    BY <1>4, <2>3
  <2>5. q[1][1] = Pair(1, 1)
    BY <1>7, <2>4
  <2>6. Pair(1, 1).first = (1 = 1 /\ 1 = 1)
    BY <1>6, <2>4
  <2> QED
    BY <2>1, <2>2, <2>5, <2>6
<1>11. ASSUME NEW x, NEW e \in Elements(all), e.edge.key = x PROVE PairOf(x, Q, r)
  <2>1. PICK i \in 1..N : e \in Elements(q[i])
    BY <1>9, <1>11 DEF Flattens
  <2>2. PICK j \in 1..N - i : e = Pair(i, j)
    BY <1>7, <2>1 DEF Elements
  <2>3. x = <<citing[i], citing[i + j], "shared_source">>
    BY <1>6, <1>11, <2>2
  <2>4. i + j \in 1..N /\ i < i + j
    BY <1>4
  <2>5. /\ m[i] \in P /\ citing[i] = Shelf[m[i]] /\ m[i + j] \in P
        /\ citing[i + j] = Shelf[m[i + j]] /\ m[i] < m[i + j]
    BY <1>m, <2>4
  <2>6. /\ m[i] \in 1..Len(Shelf) /\ m[i + j] \in 1..Len(Shelf)
        /\ Shelf[m[i]] \in C!Citing(Q, r) /\ Shelf[m[i + j]] \in C!Citing(Q, r)
    BY <1>m, <1>p, <2>4, <2>5
  <2> QED
    BY <1>1, <2>3, <2>5, <2>6 DEF PairOf
<1>12. ASSUME NEW x, PairOf(x, Q, r) PROVE \E e \in Elements(all) : e.edge.key = x
  <2>1. PICK a \in 1..Len(Shelf), b \in 1..Len(Shelf) :
              /\ a < b /\ x = <<Shelf[a], Shelf[b], "shared_source">>
              /\ Shelf[a] \in C!Citing(Q, r) /\ Shelf[b] \in C!Citing(Q, r)
    BY <1>1, <1>12 DEF PairOf
  <2>2. a \in P /\ b \in P
    BY <1>p, <2>1
  <2>3. PICK i \in 1..N : m[i] = a
    BY <1>m, <2>2
  <2>4. PICK l \in 1..N : m[l] = b
    BY <1>m, <2>2
  <2>5. i < l
    <3>1. l < i => m[l] < m[i]
      BY <1>m
    <3> QED
      BY <1>4, <2>1, <2>3, <2>4, <3>1
  <2>6. l - i \in 1..N - i /\ i + (l - i) = l
    BY <1>4, <2>5
  <2>7. q[i][l - i] = Pair(i, l - i) /\ l - i \in DOMAIN q[i]
    BY <1>7, <2>6
  <2>8. Pair(i, l - i).edge.key = <<citing[i], citing[l], "shared_source">>
    BY <1>6, <2>6
  <2>9. citing[i] = Shelf[a] /\ citing[l] = Shelf[b]
    BY <1>m, <2>3, <2>4
  <2>10. Pair(i, l - i) \in Elements(q[i])
    BY <2>7 DEF Elements
  <2>11. Pair(i, l - i) \in Elements(all)
    BY <1>9, <2>10 DEF Flattens
  <2> QED
    BY <2>1, <2>8, <2>9, <2>11
<1> QED
  BY <1>5, <1>9, <1>10, <1>11, <1>12 DEF AmongPairs

\* What each source of a view gives, one after the other.
LEMMA ListedIs ==
  ASSUME C!Assumptions, NEW S, NEW Q, IsView(Q, S)
  PROVE  /\ C!Listed(Q) \in Seq(DOMAIN Q) /\ Elements(C!Listed(Q)) = DOMAIN Q
<1>1. Shelf \in Seq(C!Sources) /\ C!Sources = Elements(Shelf) /\ DOMAIN Q \subseteq C!Sources
  BY ViewLists DEF IsView
<1> DEFINE in == InOrder(Shelf, DOMAIN Q)
<1>2. in \in Seq(C!Sources) /\ Elements(in) = Elements(Shelf) \cap DOMAIN Q
  BY <1>1, InOrderIs
<1>3. C!Listed(Q) = in
  BY ShelfLists DEF C!Listed
<1> HIDE DEF in
<1>4. Elements(in) = DOMAIN Q
  BY <1>1, <1>2
<1>5. \A i \in 1..Len(in) : in[i] \in DOMAIN Q
  BY <1>2, <1>4 DEF Elements
<1>6. in \in Seq(DOMAIN Q)
  BY <1>2, <1>5
<1> QED
  BY <1>3, <1>4, <1>6

SomeLink(Q, x)   == \E s, t \in DOMAIN Q : x = <<s, t, "wikilink">> /\ LinksTo(Q, s, t)
SomeCite(Q, x)   == \E s, t \in DOMAIN Q : x = <<s, t, "source_reference">> /\ CitesRaw(Q, s, t)
SomeShared(Q, x) == \E r \in DOMAIN Q : PairOf(x, Q, r)

LEMMA KeysFlat ==
  ASSUME NEW A, NEW q, Nested(q, A)
  PROVE  \A x : x \in KeysOf(Flat(q)) <=> \E i \in 1..Len(q) : x \in KeysOf(q[i])
<1>1. Flat(q) \in Seq(A) /\ Flattens(Flat(q), q, Len(q))
  BY FlatIs
<1>2. \A r : KeysOf(r) = {e.key : e \in Elements(r)}
  BY DEF KeysOf, Elements
<1>3. \A e : e \in Elements(Flat(q)) <=> \E i \in 1..Len(q) : e \in Elements(q[i])
  BY <1>1 DEF Flattens
<1>4. \A r, x : x \in KeysOf(r) <=> \E e \in Elements(r) : x = e.key
  BY <1>2
<1> QED
  BY <1>3, <1>4

LEMMA DerivedIs ==
  ASSUME C!Assumptions, NEW S, NEW M, NEW Q, IsView(Q, S)
  PROVE  /\ C!Derived(Q) \in Seq(Edges(S, M))
         /\ \A x : x \in KeysOf(C!Derived(Q)) <=> SomeLink(Q, x) \/ SomeCite(Q, x)
<1> DEFINE in    == C!Listed(Q)
           A     == Edges(S, M)
           links == [i \in DOMAIN in |-> C!LinksOf(Q, in[i])]
           cites == [i \in DOMAIN in |-> C!CitesOf(Q, in[i])]
<1>1. in \in Seq(DOMAIN Q) /\ Elements(in) = DOMAIN Q
  BY ListedIs
<1>2. C!Derived(Q) = Flat(links) \o Flat(cites)
  <2>1. C!Derived(Q) = C!Flat(links) \o C!Flat(cites)
    BY DEF C!Derived
  <2> HIDE DEF links, cites
  <2>2. C!Flat(links) = Flat(links) /\ C!Flat(cites) = Flat(cites)
    BY ShelfLists
  <2> QED
    BY <2>1, <2>2
<1> HIDE DEF in
<1>3. /\ DOMAIN in = 1..Len(in) /\ Len(in) \in Nat /\ \A i \in 1..Len(in) : in[i] \in DOMAIN Q
      /\ \A s \in DOMAIN Q : \E i \in 1..Len(in) : in[i] = s
  BY <1>1 DEF Elements
<1>4. /\ Len(links) = Len(in) /\ DOMAIN links = 1..Len(in) /\ Len(cites) = Len(in)
      /\ DOMAIN cites = 1..Len(in)
      /\ \A i \in 1..Len(in) : links[i] = C!LinksOf(Q, in[i]) /\ cites[i] = C!CitesOf(Q, in[i])
  BY <1>3
<1> HIDE DEF links, cites
<1>5. \A i \in 1..Len(in) :
        /\ links[i] \in Seq(A) /\ \A x : x \in KeysOf(links[i]) <=> Linked(x, Q, in[i])
        /\ cites[i] \in Seq(A) /\ \A x : x \in KeysOf(cites[i]) <=> Referred(x, Q, in[i])
  <2> SUFFICES ASSUME NEW i \in 1..Len(in)
               PROVE  /\ links[i] \in Seq(A)
                      /\ \A x : x \in KeysOf(links[i]) <=> Linked(x, Q, in[i])
                      /\ cites[i] \in Seq(A)
                      /\ \A x : x \in KeysOf(cites[i]) <=> Referred(x, Q, in[i])
    OBVIOUS
  <2>1. /\ C!LinksOf(Q, in[i]) \in Seq(A)
        /\ \A x : x \in KeysOf(C!LinksOf(Q, in[i])) <=> Linked(x, Q, in[i])
    BY <1>3, LinksOfIs
  <2>2. /\ C!CitesOf(Q, in[i]) \in Seq(A)
        /\ \A x : x \in KeysOf(C!CitesOf(Q, in[i])) <=> Referred(x, Q, in[i])
    BY <1>3, CitesOfIs
  <2> HIDE DEF A
  <2> QED
    BY <1>4, <2>1, <2>2
<1>6. Nested(links, A) /\ Nested(cites, A)
  BY <1>3, <1>4, <1>5 DEF Nested
<1> HIDE DEF A
<1>7. Flat(links) \in Seq(A) /\ Flat(cites) \in Seq(A)
  BY <1>6, FlatIs
<1>8. \A x : /\ x \in KeysOf(Flat(links)) <=> \E i \in 1..Len(in) : x \in KeysOf(links[i])
             /\ x \in KeysOf(Flat(cites)) <=> \E i \in 1..Len(in) : x \in KeysOf(cites[i])
  BY <1>4, <1>6, KeysFlat
<1>9. \A x : x \in KeysOf(Flat(links)) <=> SomeLink(Q, x)
  <2>1. \A x : \A i \in 1..Len(in) : x \in KeysOf(links[i]) <=> Linked(x, Q, in[i])
    BY <1>5
  <2> QED
    BY <1>3, <1>8, <2>1 DEF SomeLink, Linked
<1>10. \A x : x \in KeysOf(Flat(cites)) <=> SomeCite(Q, x)
  <2>1. \A x : \A i \in 1..Len(in) : x \in KeysOf(cites[i]) <=> Referred(x, Q, in[i])
    BY <1>5
  <2> QED
    BY <1>3, <1>8, <2>1 DEF SomeCite, Referred
<1>11. \A a, b \in Seq(A) : a \o b \in Seq(A) /\ KeysOf(a \o b) = KeysOf(a) \cup KeysOf(b)
  BY KeysJoined
<1> QED
  BY <1>2, <1>7, <1>9, <1>10, <1>11 DEF A

LEMMA SharedIs ==
  ASSUME C!Assumptions, NEW S, NEW M, NEW Q, IsView(Q, S)
  PROVE  /\ C!Shared(Q) \in Seq(Pairs(S, M)) /\ Starts(C!Shared(Q))
         /\ \A x : AmongPairs(x, C!Shared(Q)) <=> SomeShared(Q, x)
<1> DEFINE in  == C!Listed(Q)
           A   == Pairs(S, M)
           q   == [i \in DOMAIN in |-> C!SharedOf(Q, in[i])]
           all == C!Shared(Q)
<1>1. in \in Seq(DOMAIN Q) /\ Elements(in) = DOMAIN Q
  BY ListedIs
<1>2. all = Flat(q)
  <2>1. all = C!Flat(q)
    BY DEF C!Shared
  <2> HIDE DEF q
  <2> QED
    BY <2>1, ShelfLists
<1> HIDE DEF in, all
<1>3. /\ DOMAIN in = 1..Len(in) /\ Len(in) \in Nat /\ \A i \in 1..Len(in) : in[i] \in DOMAIN Q
      /\ \A s \in DOMAIN Q : \E i \in 1..Len(in) : in[i] = s
  BY <1>1 DEF Elements
<1>4. /\ Len(q) = Len(in) /\ DOMAIN q = 1..Len(in)
      /\ \A i \in 1..Len(in) : q[i] = C!SharedOf(Q, in[i])
  BY <1>3
<1> HIDE DEF q
<1>5. \A i \in 1..Len(in) :
        /\ q[i] \in Seq(A) /\ Starts(q[i])
        /\ \A x : AmongPairs(x, q[i]) <=> PairOf(x, Q, in[i])
  BY <1>3, <1>4, SharedOfIs
<1>6. Nested(q, A)
  BY <1>3, <1>4, <1>5 DEF Nested
<1> HIDE DEF A
<1>7. all \in Seq(A) /\ Flattens(all, q, Len(in))
  BY <1>2, <1>4, <1>6, FlatIs
<1>8. Starts(all)
  BY <1>5, <1>7 DEF Starts, Flattens
<1>9. \A x : AmongPairs(x, all) <=> SomeShared(Q, x)
  <2>1. \A e : e \in Elements(all) <=> \E i \in 1..Len(in) : e \in Elements(q[i])
    BY <1>7 DEF Flattens
  <2> QED
    BY <1>3, <1>5, <2>1 DEF SomeShared, AmongPairs
<1> QED
  BY <1>7, <1>8, <1>9 DEF all, A

\* The relations of a view that are shown.
Shown(R, rels, Q, p, S, M) ==
    \A e \in C!Related(R, rels, Q, p) : Rests(C!Supports(R, rels, e, p), rels[e].notes, S, M)

LEMMA ManualIs ==
  ASSUME C!Assumptions, NEW S, NEW M, NEW Q, NEW R, NEW rels, NEW p, Shown(R, rels, Q, p, S, M)
  PROVE  /\ C!Manual(R, rels, Q, p) \in Seq(Edges(S, M))
         /\ \A x : x \in KeysOf(C!Manual(R, rels, Q, p)) <=>
                     \E e \in C!Related(R, rels, Q, p) : x = <<e[1], e[2], "manual">>
<1> DEFINE related == C!Related(R, rels, Q, p)
           shown   == InOrder(Ends, related)
           all     == C!Manual(R, rels, Q, p)
<1>1. related \subseteq C!EndSet
  BY DEF C!Related
<1>2. /\ Ends \in Seq(Elements(Ends)) /\ C!EndSet = Elements(Ends)
      /\ C!EndSet \subseteq C!Sources \X C!Sources
  BY CatalogLists DEF C!Assumptions, C!IsList, C!EndSet, Elements
<1> HIDE DEF related
<1>3. shown \in Seq(Elements(Ends)) /\ Elements(shown) = related
  <2>1. shown \in Seq(Elements(Ends)) /\ Elements(shown) = Elements(Ends) \cap related
    BY <1>2, InOrderIs
  <2> QED
    BY <1>1, <1>2, <2>1
<1>4. all = [i \in DOMAIN shown |->
               C!Edge(shown[i][1], shown[i][2], "manual",
                      C!Supports(R, rels, shown[i], p), rels[shown[i]].notes)]
  <2> DEFINE met == C!InOrder(Ends, C!Related(R, rels, Q, p))
  <2>1. met = shown
    BY ShelfLists DEF related
  <2>2. all = [i \in DOMAIN met |->
                 C!Edge(met[i][1], met[i][2], "manual",
                        C!Supports(R, rels, met[i], p), rels[met[i]].notes)]
    BY DEF C!Manual
  <2> HIDE DEF met, all, shown
  <2> QED
    BY <2>1, <2>2
<1> HIDE DEF shown
<1>5. /\ DOMAIN shown = 1..Len(shown) /\ Len(shown) \in Nat
      /\ \A i \in DOMAIN shown : shown[i] \in related
      /\ \A e \in related : \E i \in DOMAIN shown : shown[i] = e
  BY <1>3 DEF Elements
<1>6. ASSUME NEW i \in DOMAIN shown
      PROVE  /\ all[i] \in Edges(S, M) /\ all[i].key = <<shown[i][1], shown[i][2], "manual">>
  <2> DEFINE e == shown[i]
             x == C!Supports(R, rels, e, p)
             n == rels[e].notes
             kind == "manual"
  <2>1. e \in C!Sources \X C!Sources /\ Rests(x, n, S, M)
    BY <1>1, <1>2, <1>5 DEF Shown, related
  <2>2. all[i] = C!Edge(e[1], e[2], kind, x, n)
    BY <1>4
  <2>3. Joins(e[1], e[2], kind)
    BY <2>1 DEF Kinds, Joins
  <2> HIDE DEF e, x, n, kind, all
  <2>4. C!Edge(e[1], e[2], kind, x, n) \in Edges(S, M)
    BY <2>1, <2>3, EdgeIs
  <2>5. C!Edge(e[1], e[2], kind, x, n).key = <<e[1], e[2], kind>>
    BY DEF C!Edge
  <2> QED
    BY <2>2, <2>4, <2>5 DEF e, kind
<1>7. all \in Seq(Edges(S, M)) /\ DOMAIN all = DOMAIN shown
  BY <1>4, <1>5, <1>6
<1> HIDE DEF all
<1>8. \A x : x \in KeysOf(all) <=> \E i \in DOMAIN shown : x = <<shown[i][1], shown[i][2], "manual">>
  BY <1>6, <1>7 DEF KeysOf
<1>9. \A x : x \in KeysOf(all) <=> \E e \in related : x = <<e[1], e[2], "manual">>
  BY <1>5, <1>8
<1> QED
  BY <1>7, <1>9 DEF all, related

\* The edges between the sources of a view, as they are told without order.
LEMMA EveryEdgeIs ==
  ASSUME C!Assumptions, NEW S, NEW Q, IsView(Q, S)
  PROVE  \A x : x \in C!EveryEdge(Q) <=> SomeLink(Q, x) \/ SomeCite(Q, x) \/ SomeShared(Q, x)
<1> DEFINE in      == DOMAIN Q
           raw     == in \ Compiled
           One(w, among) == {s \in among : w \in {s} \cup Q[s].text.names}
           Told_(q) == {q[i] : i \in DOMAIN q}
           cites   == {c \in (in \cap Compiled) \X in :
                         \E w \in Told_(Q[c[1]].text.cites) : One(w, raw) = {c[2]}}
           links   == {p \in in \X in : \E w \in Told_(Q[p[1]].text.links) : One(w, in) = {p[2]}}
           pairs   == {i \in (DOMAIN Shelf) \X (DOMAIN Shelf) :
                         /\ i[1] < i[2]
                         /\ \E r \in in : {<<Shelf[i[1]], r>>, <<Shelf[i[2]], r>>} \subseteq cites}
<1>1. C!EveryEdge(Q) = {<<p[1], p[2], "wikilink">> : p \in links}
                       \cup {<<c[1], c[2], "source_reference">> : c \in cites}
                       \cup {<<Shelf[i[1]], Shelf[i[2]], "shared_source">> : i \in pairs}
  BY DEF C!EveryEdge
<1>2. \A w, among, t : One(w, among) = {t} <=> Names(Q, among, w, t)
  BY DEF Names, C!Named
<1>3. \A q : Told_(q) = Elements(q)
  BY DEF Elements
<1> HIDE DEF One, Told_
<1>4. \A s, t : <<s, t>> \in links <=> s \in in /\ t \in in /\ LinksTo(Q, s, t)
  <2>1. \A s, t : LinksTo(Q, s, t) <=> \E w \in Told_(Q[s].text.links) : One(w, in) = {t}
    BY <1>2, <1>3 DEF LinksTo
  <2> QED
    BY <2>1
<1>5. \A s, t : <<s, t>> \in cites <=> s \in in /\ t \in in /\ CitesRaw(Q, s, t)
  <2>1. \A s, t : CitesRaw(Q, s, t) <=>
                    s \in Compiled /\ \E w \in Told_(Q[s].text.cites) : One(w, raw) = {t}
    BY <1>2, <1>3 DEF CitesRaw
  <2> QED
    BY <2>1
<1>6. /\ \A p \in links : p = <<p[1], p[2]>>
      /\ \A c \in cites : c = <<c[1], c[2]>>
      /\ \A i \in pairs : i = <<i[1], i[2]>>
  OBVIOUS
<1>7. \A a, b : <<a, b>> \in pairs <=>
                  /\ a \in DOMAIN Shelf /\ b \in DOMAIN Shelf /\ a < b
                  /\ \E r \in in : <<Shelf[a], r>> \in cites /\ <<Shelf[b], r>> \in cites
  OBVIOUS
<1>8. DOMAIN Shelf = 1..Len(Shelf)
  BY ViewLists
<1> HIDE DEF links, cites, pairs
<1>9. \A x : (\E p \in links : x = <<p[1], p[2], "wikilink">>) <=> SomeLink(Q, x)
  <2>1. ASSUME NEW x, NEW p \in links, x = <<p[1], p[2], "wikilink">> PROVE SomeLink(Q, x)
    <3>1. <<p[1], p[2]>> \in links
      BY <1>6
    <3>2. p[1] \in in /\ p[2] \in in /\ LinksTo(Q, p[1], p[2])
      BY <1>4, <3>1
    <3> QED
      BY <2>1, <3>2 DEF SomeLink
  <2>2. ASSUME NEW x, SomeLink(Q, x) PROVE \E p \in links : x = <<p[1], p[2], "wikilink">>
    <3>1. PICK s \in in, t \in in : x = <<s, t, "wikilink">> /\ LinksTo(Q, s, t)
      BY <2>2 DEF SomeLink
    <3>2. <<s, t>> \in links
      BY <1>4, <3>1
    <3>3. <<s, t>>[1] = s /\ <<s, t>>[2] = t
      OBVIOUS
    <3> QED
      BY <3>1, <3>2, <3>3
  <2> QED
    BY <2>1, <2>2
<1>10. \A x : (\E c \in cites : x = <<c[1], c[2], "source_reference">>) <=> SomeCite(Q, x)
  <2>1. ASSUME NEW x, NEW p \in cites, x = <<p[1], p[2], "source_reference">> PROVE SomeCite(Q, x)
    <3>1. <<p[1], p[2]>> \in cites
      BY <1>6
    <3>2. p[1] \in in /\ p[2] \in in /\ CitesRaw(Q, p[1], p[2])
      BY <1>5, <3>1
    <3> QED
      BY <2>1, <3>2 DEF SomeCite
  <2>2. ASSUME NEW x, SomeCite(Q, x) PROVE \E p \in cites : x = <<p[1], p[2], "source_reference">>
    <3>1. PICK s \in in, t \in in : x = <<s, t, "source_reference">> /\ CitesRaw(Q, s, t)
      BY <2>2 DEF SomeCite
    <3>2. <<s, t>> \in cites
      BY <1>5, <3>1
    <3>3. <<s, t>>[1] = s /\ <<s, t>>[2] = t
      OBVIOUS
    <3> QED
      BY <3>1, <3>2, <3>3
  <2> QED
    BY <2>1, <2>2
<1>11. \A x : (\E i \in pairs : x = <<Shelf[i[1]], Shelf[i[2]], "shared_source">>) <=> SomeShared(Q, x)
  <2>1. ASSUME NEW x, NEW i \in pairs, x = <<Shelf[i[1]], Shelf[i[2]], "shared_source">>
        PROVE  SomeShared(Q, x)
    <3>1. <<i[1], i[2]>> \in pairs
      BY <1>6
    <3>2. PICK r \in in : <<Shelf[i[1]], r>> \in cites /\ <<Shelf[i[2]], r>> \in cites
      BY <1>7, <3>1
    <3>3. i[1] \in 1..Len(Shelf) /\ i[2] \in 1..Len(Shelf) /\ i[1] < i[2]
      BY <1>7, <1>8, <3>1
    <3>4. /\ Shelf[i[1]] \in in /\ CitesRaw(Q, Shelf[i[1]], r)
          /\ Shelf[i[2]] \in in /\ CitesRaw(Q, Shelf[i[2]], r)
      BY <1>5, <3>2
    <3>5. PairOf(x, Q, r)
      BY <2>1, <3>3, <3>4 DEF PairOf
    <3> QED
      BY <3>5 DEF SomeShared
  <2>2. ASSUME NEW x, SomeShared(Q, x)
        PROVE  \E i \in pairs : x = <<Shelf[i[1]], Shelf[i[2]], "shared_source">>
    <3>1. PICK r \in in : PairOf(x, Q, r)
      BY <2>2 DEF SomeShared
    <3>2. PICK a \in 1..Len(Shelf), b \in 1..Len(Shelf) :
               /\ a < b /\ x = <<Shelf[a], Shelf[b], "shared_source">>
               /\ {Shelf[a], Shelf[b]} \subseteq DOMAIN Q
               /\ CitesRaw(Q, Shelf[a], r) /\ CitesRaw(Q, Shelf[b], r)
      BY <3>1 DEF PairOf
    <3>3. <<Shelf[a], r>> \in cites /\ <<Shelf[b], r>> \in cites
      BY <1>5, <3>2
    <3>4. <<a, b>> \in pairs
      BY <1>7, <1>8, <3>2, <3>3
    <3>5. <<a, b>>[1] = a /\ <<a, b>>[2] = b
      OBVIOUS
    <3> QED
      BY <3>2, <3>4, <3>5
  <2> QED
    BY <2>1, <2>2
<1> QED
  BY <1>1, <1>9, <1>10, <1>11

AllKeys(R, rels, Q, p) ==
    {<<e[1], e[2], "manual">> : e \in C!Related(R, rels, Q, p)} \cup C!EveryEdge(Q)

\* The edges that are collected are of these, and all unless it says otherwise.
LEMMA CollectIs ==
  ASSUME C!Assumptions, NEW S, NEW M, NEW Q, IsView(Q, S), NEW R, NEW rels, NEW p,
         Shown(R, rels, Q, p, S, M), NEW limit
  PROVE  LET all == C!Collect(R, rels, Q, p, limit)
         IN  /\ all \in Sets(S, M) /\ C!Keys(all.edges) \subseteq AllKeys(R, rels, Q, p)
             /\ ~all.truncated => C!Keys(all.edges) = AllKeys(R, rels, Q, p)
<1> DEFINE manual  == C!Manual(R, rels, Q, p)
           derived == C!Derived(Q)
           shared  == C!Shared(Q)
           first   == C!InsertAll(manual \o derived, limit)
           all     == C!Collect(R, rels, Q, p, limit)
<1>1. /\ manual \in Seq(Edges(S, M))
      /\ \A x : x \in KeysOf(manual) <=>
                  \E e \in C!Related(R, rels, Q, p) : x = <<e[1], e[2], "manual">>
  BY ManualIs
<1>2. /\ derived \in Seq(Edges(S, M))
      /\ \A x : x \in KeysOf(derived) <=> SomeLink(Q, x) \/ SomeCite(Q, x)
  BY DerivedIs
<1>3. /\ shared \in Seq(Pairs(S, M)) /\ Starts(shared)
      /\ \A x : AmongPairs(x, shared) <=> SomeShared(Q, x)
  BY SharedIs
<1>4. all = C!InsertAllShared(first, shared, limit)
  BY DEF C!Collect
<1>5. /\ manual \o derived \in Seq(Edges(S, M))
      /\ KeysOf(manual \o derived) = KeysOf(manual) \cup KeysOf(derived)
  BY <1>1, <1>2, KeysJoined
<1> HIDE DEF manual, derived, shared
<1>6. first \in Sets(S, M) /\ Holds(first, {}, manual \o derived, Len(manual \o derived))
  BY <1>5, InsertAllIs
<1> HIDE DEF first, all
<1>7. all \in Sets(S, M) /\ HoldsShared(all, first, shared, Len(shared))
  BY <1>3, <1>4, <1>6, InsertAllSharedIs
<1>8. {(manual \o derived)[i].key : i \in 1..Len(manual \o derived)} = KeysOf(manual \o derived)
  <2> DEFINE q == manual \o derived
  <2>1. DOMAIN q = 1..Len(q)
    BY <1>5
  <2> HIDE DEF q
  <2>2. {q[i].key : i \in 1..Len(q)} = KeysOf(q)
    BY <2>1 DEF KeysOf
  <2> QED
    BY <2>2 DEF q
<1>9. \A x : x \in PairKeys(shared, Len(shared)) <=> SomeShared(Q, x)
  <2>1. DOMAIN shared = 1..Len(shared)
    BY <1>3
  <2>2. \A x : x \in PairKeys(shared, Len(shared)) <=> AmongPairs(x, shared)
    BY <2>1 DEF PairKeys, AmongPairs, Elements
  <2> QED
    BY <1>3, <2>2
<1>10. AllKeys(R, rels, Q, p) = KeysOf(manual \o derived) \cup PairKeys(shared, Len(shared))
  <2>1. \A x : x \in AllKeys(R, rels, Q, p) <=>
                 \/ \E e \in C!Related(R, rels, Q, p) : x = <<e[1], e[2], "manual">>
                 \/ SomeLink(Q, x) \/ SomeCite(Q, x) \/ SomeShared(Q, x)
    BY EveryEdgeIs DEF AllKeys
  <2>2. \A x : x \in AllKeys(R, rels, Q, p) <=>
                 x \in KeysOf(manual) \/ x \in KeysOf(derived) \/ x \in PairKeys(shared, Len(shared))
    BY <1>1, <1>2, <1>9, <2>1
  <2> QED
    BY <1>5, <2>2
<1>11. /\ C!Keys(first.edges) \subseteq KeysOf(manual \o derived)
       /\ ~first.truncated => C!Keys(first.edges) = KeysOf(manual \o derived)
  BY <1>6, <1>8 DEF Holds
<1>12. /\ C!Keys(all.edges) \subseteq AllKeys(R, rels, Q, p)
       /\ ~all.truncated => C!Keys(all.edges) = AllKeys(R, rels, Q, p)
  BY <1>7, <1>10, <1>11 DEF HoldsShared
<1> QED
  BY <1>7, <1>12 DEF all

-----------------------------------------------------------------------------
(* Catalog: what is within a depth.                                        *)

\* The sets of Ball: B[d] is what is within d edges.
Balls(B, s, depth, K) ==
    /\ B[0] = {s} /\ C!Ball(s, depth, K) = B[depth]
    /\ \A d \in 1..depth : B[d] = B[d - 1] \cup UNION {C!Neighbours(K, r) : r \in B[d - 1]}

LEMMA BallLoop ==
  ASSUME NEW s, NEW depth \in Nat, NEW K PROVE \E B : Balls(B, s, depth, K)
<1> DEFINE N == depth
           X == SUBSET ({s} \cup UNION {{z[1], z[2]} : z \in K})
           P == [n \in 0..N |-> X]
           nil == {s}
           step(n, x) == x \cup UNION {C!Neighbours(K, r) : r \in x}
           g == [n \in 1..N |-> [x \in X |-> step(n, x)]]
<1>1. N \in Nat /\ nil \in P[0]
  OBVIOUS
<1>2. \A n \in 1..N : \A x \in P[n - 1] : x \in X /\ g[n][x] = step(n, x) /\ step(n, x) \in P[n]
  <2> SUFFICES ASSUME NEW n \in 1..N, NEW x \in P[n - 1]
               PROVE  x \in X /\ g[n][x] = step(n, x) /\ step(n, x) \in P[n]
    OBVIOUS
  <2>1. n - 1 \in 0..N /\ n \in 0..N
    BY <1>1
  <2>2. x \in X
    BY <2>1
  <2>3. \A r : C!Neighbours(K, r) \subseteq UNION {{z[1], z[2]} : z \in K}
    BY DEF C!Neighbours
  <2>4. step(n, x) \in X
    BY <2>2, <2>3
  <2> QED
    BY <2>1, <2>2, <2>4
<1> HIDE DEF N, P, step, g, nil, X
<1>4. PICK f : Keeps(f, P, nil, N, g)
  BY <1>1, <1>2, LoopKept
<1>5. /\ f = [n \in 0..N |-> f[n]] /\ f[0] = nil
      /\ \A n \in 1..N : f[n] = step(n, f[n - 1])
  <2>1. \A n \in 1..N : n - 1 \in 0..N
    BY <1>1
  <2> QED
    BY <1>2, <1>4, <2>1 DEF Keeps
<1>6. f = [n \in 0..N |-> IF n = 0 THEN nil ELSE step(n, f[n - 1])]
  <2>1. \A n \in 0..N : n # 0 => n \in 1..N
    BY <1>1
  <2>2. \A n \in 0..N : f[n] = (IF n = 0 THEN nil ELSE step(n, f[n - 1]))
    BY <1>5, <2>1
  <2> QED
    BY <1>5, <2>2
<1>7. f = [d \in 0..N |-> IF d = 0 THEN {s}
                          ELSE f[d - 1] \cup UNION {C!Neighbours(K, r) : r \in f[d - 1]}]
  BY <1>6 DEF nil, step
<1> DEFINE within[d \in 0..N] ==
              IF d = 0 THEN {s}
              ELSE within[d - 1] \cup UNION {C!Neighbours(K, r) : r \in within[d - 1]}
<1>8. within = [d \in 0..N |-> IF d = 0 THEN {s}
                  ELSE within[d - 1] \cup UNION {C!Neighbours(K, r) : r \in within[d - 1]}]
  BY <1>7
<1>9. C!Ball(s, depth, K) = within[N]
  BY DEF C!Ball, N
<1> HIDE DEF within
<1>10. within[0] = {s} /\ \A d \in 1..N :
           within[d] = within[d - 1] \cup UNION {C!Neighbours(K, r) : r \in within[d - 1]}
  <2>1. 0 \in 0..N /\ \A d \in 1..N : d \in 0..N /\ d # 0
    BY <1>1
  <2> QED
    BY <1>8, <2>1
<1>11. Balls(within, s, depth, K)
  BY <1>9, <1>10 DEF Balls, N
<1> QED
  BY <1>11

\* Sets that grow by what is next to them stay within the ball.
LEMMA BallHolds ==
  ASSUME NEW s, NEW depth \in Nat, NEW K, NEW L, L[0] \subseteq {s},
         \A d \in 1..depth : \A m \in L[d] :
            m \in L[d - 1] \/ \E r \in L[d - 1] : m \in C!Neighbours(K, r)
  PROVE  L[depth] \subseteq C!Ball(s, depth, K)
<1>1. PICK B : Balls(B, s, depth, K)
  BY BallLoop
<1> DEFINE H == {d \in Nat : d <= depth => L[d] \subseteq B[d]}
<1>2. 0 \in H
  BY <1>1 DEF Balls
<1>3. ASSUME NEW d \in Nat, d \in H, d + 1 <= depth PROVE L[d + 1] \subseteq B[d + 1]
  <2>1. d + 1 \in 1..depth /\ (d + 1) - 1 = d /\ d <= depth
    BY <1>3
  <2>2. L[d] \subseteq B[d]
    BY <1>3, <2>1
  <2>3. B[d + 1] = B[d] \cup UNION {C!Neighbours(K, r) : r \in B[d]}
    BY <1>1, <2>1 DEF Balls
  <2>4. \A m \in L[d + 1] : m \in L[d] \/ \E r \in L[d] : m \in C!Neighbours(K, r)
    BY <2>1
  <2> QED
    BY <2>2, <2>3, <2>4
<1>4. \A d \in Nat : d \in H => d + 1 \in H
  BY <1>3
<1> HIDE DEF H
<1>5. depth \in H
  BY <1>2, <1>4, Induction
<1> QED
  BY <1>1, <1>5 DEF H, Balls

\* Sets that grow by all that is next to them hold the ball.
LEMMA BallWithin ==
  ASSUME NEW s, NEW depth \in Nat, NEW K, NEW L, s \in L[0],
         \A d \in 1..depth : L[d - 1] \subseteq L[d] /\ \A r \in L[d - 1] : C!Neighbours(K, r) \subseteq L[d]
  PROVE  C!Ball(s, depth, K) \subseteq L[depth]
<1>1. PICK B : Balls(B, s, depth, K)
  BY BallLoop
<1> DEFINE H == {d \in Nat : d <= depth => B[d] \subseteq L[d]}
<1>2. 0 \in H
  BY <1>1 DEF Balls
<1>3. ASSUME NEW d \in Nat, d \in H, d + 1 <= depth PROVE B[d + 1] \subseteq L[d + 1]
  <2>1. d + 1 \in 1..depth /\ (d + 1) - 1 = d /\ d <= depth
    BY <1>3
  <2>2. B[d] \subseteq L[d]
    BY <1>3, <2>1
  <2>3. B[d + 1] = B[d] \cup UNION {C!Neighbours(K, r) : r \in B[d]}
    BY <1>1, <2>1 DEF Balls
  <2>4. L[d] \subseteq L[d + 1] /\ \A r \in L[d] : C!Neighbours(K, r) \subseteq L[d + 1]
    BY <2>1
  <2> QED
    BY <2>2, <2>3, <2>4
<1>4. \A d \in Nat : d \in H => d + 1 \in H
  BY <1>3
<1> HIDE DEF H
<1>5. depth \in H
  BY <1>2, <1>4, Induction
<1> QED
  BY <1>1, <1>5 DEF H, Balls

\* A walk over the edges K between the sources D.
Roams(D, K, start, q) ==
    /\ D \subseteq C!Sources /\ start \in D
    /\ \A z \in K : z[1] \in D /\ z[2] \in D
    /\ q.depth \in Nat /\ q.neighbours \in Nat \ {0} /\ q.nodes \in Nat \ {0}

Spots(D) == [node : D, depth : Nat]
Found(D) == [line : Seq(Spots(D)), truncated : BOOLEAN]

Bounded(g, q) == Len(g.line) <= q.nodes /\ \A i \in DOMAIN g.line : g.line[i].depth <= q.depth
Apart(g)      == \A i, j \in DOMAIN g.line : g.line[i].node = g.line[j].node => i = j

\* Each but the first was found from one before it.
FoundFrom(g, K, i) ==
    \E j \in DOMAIN g.line : /\ g.line[j].depth + 1 = g.line[i].depth
                             /\ g.line[i].node \in C!Neighbours(K, g.line[j].node)
Led(g, K) == \A i \in DOMAIN g.line : i # 1 => FoundFrom(g, K, i)

\* All that is next to what is popped is in the line.
Heeds(g, K, q, i)  == g.line[i].depth < q.depth =>
                        \A m \in C!Neighbours(K, g.line[i].node) : Waiting(g, m, g.line[i].depth + 1)
Heeded(g, K, q, n) == \A i \in DOMAIN g.line : i <= n => Heeds(g, K, q, i)

WalkInv(g, n, D, K, start, q) ==
    /\ g \in Found(D) /\ Begun(g, start) /\ Bounded(g, q) /\ Apart(g)
    /\ Led(g, K) /\ Rising(g, n)
    /\ g.truncated \/ Heeded(g, K, q, n)

LEMMA NextTo ==
  ASSUME C!Assumptions, NEW D, NEW K, NEW start, NEW q, Roams(D, K, start, q), NEW s
  PROVE  /\ C!Neighbours(K, s) \subseteq D /\ C!InOrder(Shelf, C!Neighbours(K, s)) \in Seq(D)
         /\ Elements(C!InOrder(Shelf, C!Neighbours(K, s))) = C!Neighbours(K, s)
         /\ Distinct(C!InOrder(Shelf, C!Neighbours(K, s)))
<1>1. C!Neighbours(K, s) \subseteq D
  BY DEF C!Neighbours, Roams
<1>2. /\ Shelf \in Seq(C!Sources) /\ C!Sources = Elements(Shelf) /\ Distinct(Shelf)
  <2>1. C!Sources = Elements(Shelf)
    BY DEF C!Sources, Elements
  <2> QED
    BY <2>1, CatalogLists DEF C!Assumptions, IsList, Distinct
<1> DEFINE N == C!Neighbours(K, s)
           near == InOrder(Shelf, N)
<1>3. near = C!InOrder(Shelf, C!Neighbours(K, s))
  BY ShelfLists
<1> HIDE DEF N
<1>4. near \in Seq(C!Sources) /\ Elements(near) = Elements(Shelf) \cap N /\ Distinct(near)
  BY <1>2, InOrderIs, InOrderDistinct
<1> HIDE DEF near
<1>5. N \subseteq D /\ D \subseteq C!Sources
  BY <1>1 DEF N, Roams
<1>6. Elements(near) = N
  BY <1>2, <1>4, <1>5
<1>7. \A i \in 1..Len(near) : near[i] \in D
  BY <1>4, <1>5, <1>6 DEF Elements
<1>8. near \in Seq(D)
  <2>1. near \in Seq(C!Sources)
    BY <1>4
  <2>2. Len(near) \in Nat /\ near = [i \in 1..Len(near) |-> near[i]]
    BY <2>1
  <2> QED
    BY <1>7, <2>2
<1> QED
  BY <1>1, <1>3, <1>4, <1>6, <1>8 DEF N

\* What the pop of one more does to all this.
LEMMA PopKeeps ==
  ASSUME C!Assumptions, NEW D, NEW K, NEW start, NEW q, Roams(D, K, start, q),
         NEW n \in Nat, NEW g, WalkInv(g, n, D, K, start, q)
  PROVE  WalkInv(C!Pop(g, n + 1, K, q), n + 1, D, K, start, q)
<1> DEFINE h    == C!Pop(g, n + 1, K, q)
           on   == g.line[n + 1]
           s    == on.node
           d    == on.depth
           N    == C!Neighbours(K, s)
           near == C!InOrder(Shelf, N)
           new  == C!InOrder(C!Take(near, q.neighbours), C!Sources \ C!NodesOf(g.line))
           kept == C!Take(new, q.nodes - Len(g.line))
           more == [i \in DOMAIN kept |-> [node |-> kept[i], depth |-> d + 1]]
<1>0. h = (IF n + 1 > Len(g.line) \/ d >= q.depth THEN g
           ELSE [line      |-> g.line \o more,
                 truncated |-> \/ g.truncated
                               \/ Len(near) > q.neighbours
                               \/ Len(new) > Len(kept)])
  BY DEF C!Pop
<1>h. h = C!Pop(g, n + 1, K, q)
  OBVIOUS
<1>d. on = g.line[n + 1] /\ s = g.line[n + 1].node /\ d = g.line[n + 1].depth
  OBVIOUS
<1>r. /\ N = C!Neighbours(K, s) /\ near = C!InOrder(Shelf, C!Neighbours(K, s))
      /\ new = InOrder(Take(near, q.neighbours), C!Sources \ C!NodesOf(g.line))
      /\ kept = Take(new, q.nodes - Len(g.line))
      /\ more = [i \in DOMAIN kept |-> [node |-> kept[i], depth |-> d + 1]]
  <2>1. new = InOrder(Take(near, q.neighbours), C!Sources \ C!NodesOf(g.line))
    <3> HIDE DEF near
    <3> QED
      BY ShelfLists
  <2>2. kept = Take(new, q.nodes - Len(g.line))
    <3> HIDE DEF new
    <3> QED
      BY ShelfLists
  <2> QED
    BY <2>1, <2>2
<1> HIDE DEF h, on, s, d, N, near, new, kept, more
<1>1. /\ g \in Found(D) /\ Begun(g, start) /\ Bounded(g, q) /\ Apart(g)
      /\ Led(g, K) /\ Rising(g, n) /\ (g.truncated \/ Heeded(g, K, q, n))
  BY DEF WalkInv
<1>2. /\ g.line \in Seq(Spots(D)) /\ Len(g.line) \in Nat
      /\ DOMAIN g.line = 1..Len(g.line)
      /\ \A i \in DOMAIN g.line : g.line[i].node \in D /\ g.line[i].depth \in Nat
      /\ g.truncated \in BOOLEAN
  <2>1. g.line \in Seq(Spots(D)) /\ g.truncated \in BOOLEAN
    BY <1>1 DEF Found
  <2>2. \A i \in DOMAIN g.line : g.line[i] \in Spots(D)
    BY <2>1
  <2> QED
    BY <2>1, <2>2 DEF Spots
<1>q. q.depth \in Nat /\ q.neighbours \in Nat /\ q.nodes \in Nat /\ D \subseteq C!Sources
  BY DEF Roams
<1>3. \A i \in DOMAIN g.line : (i <= n + 1) <=> (i <= n \/ i = n + 1)
  BY <1>2
<1>4. Rising(g, n + 1)
  <2>1. \A i \in DOMAIN g.line : n + 1 <= i => n <= i
    BY <1>2
  <2> QED
    BY <1>1, <2>1 DEF Rising
<1>5. CASE n + 1 > Len(g.line)
  <2>1. h = g
    BY <1>0, <1>5
  <2>2. \A i \in DOMAIN g.line : i <= n
    BY <1>2, <1>5
  <2>3. g.truncated \/ Heeded(g, K, q, n + 1)
    BY <1>1, <2>2 DEF Heeded
  <2> QED
    BY <1>h, <1>1, <1>4, <2>1, <2>3 DEF WalkInv
<1>6. CASE n + 1 <= Len(g.line) /\ d >= q.depth
  <2>1. h = g
    BY <1>0, <1>6
  <2>2. n + 1 \in DOMAIN g.line
    BY <1>2, <1>6
  <2>3. Heeds(g, K, q, n + 1)
    <3>1. ~(g.line[n + 1].depth < q.depth)
      BY <1>d, <1>q, <1>2, <1>6, <2>2
    <3> QED
      BY <3>1 DEF Heeds
  <2>4. g.truncated \/ Heeded(g, K, q, n + 1)
    BY <1>1, <1>3, <2>3 DEF Heeded
  <2> QED
    BY <1>h, <1>1, <1>4, <2>1, <2>4 DEF WalkInv
<1>7. CASE n + 1 <= Len(g.line) /\ ~(d >= q.depth)
  <2>1. n + 1 \in DOMAIN g.line /\ s \in D /\ d \in Nat /\ d + 1 <= q.depth
    <3>1. n + 1 \in DOMAIN g.line
      BY <1>2, <1>7
    <3>2. s \in D /\ d \in Nat
      BY <1>2, <1>d, <3>1
    <3> QED
      BY <1>7, <1>q, <3>1, <3>2
  <2>2. h = [line |-> g.line \o more,
             truncated |-> g.truncated \/ Len(near) > q.neighbours \/ Len(new) > Len(kept)]
    <3>1. ~(n + 1 > Len(g.line))
      BY <1>2, <1>7
    <3> QED
      BY <1>0, <1>7, <3>1
  <2>3. /\ near \in Seq(D) /\ Elements(near) = N /\ Distinct(near)
    BY <1>r, NextTo
  <2> DEFINE first == Take(near, q.neighbours)
             free  == C!Sources \ C!NodesOf(g.line)
             room  == q.nodes - Len(g.line)
  <2>4. /\ first \in Seq(D) /\ Distinct(first) /\ Elements(first) \subseteq N
        /\ Len(near) <= q.neighbours => first = near
    BY <1>q, <2>3, TakeIs, TakeDistinct
  <2>r. new = InOrder(first, free) /\ kept = Take(new, room)
    BY <1>r
  <2>5. room \in Nat /\ Len(g.line) + room = q.nodes
    BY <1>q, <1>1, <1>2 DEF Bounded
  <2> HIDE DEF first, room
  <2>6. new \in Seq(D) /\ Elements(new) = Elements(first) \cap free /\ Distinct(new)
    <3> HIDE DEF free
    <3> QED
      BY <2>r, <2>4, InOrderIs, InOrderDistinct
  <2>7. /\ kept \in Seq(D) /\ Len(kept) <= room /\ Elements(kept) \subseteq Elements(new)
        /\ Distinct(kept) /\ (Len(new) <= room => kept = new)
    <3>1. /\ Take(new, room) \in Seq(D) /\ Len(Take(new, room)) <= room
          /\ Elements(Take(new, room)) \subseteq Elements(new)
          /\ Len(new) <= room => Take(new, room) = new
      BY <2>5, <2>6, TakeIs
    <3>2. Distinct(Take(new, room))
      BY <2>5, <2>6, TakeDistinct
    <3> QED
      BY <2>r, <3>1, <3>2
  <2>8. /\ DOMAIN kept = 1..Len(kept) /\ Len(kept) \in Nat
        /\ \A i \in 1..Len(kept) : /\ kept[i] \in D /\ kept[i] \in N
                                   /\ \A j \in DOMAIN g.line : g.line[j].node # kept[i]
    <3>1. DOMAIN kept = 1..Len(kept) /\ Len(kept) \in Nat /\ \A i \in 1..Len(kept) : kept[i] \in D
      BY <2>7
    <3>2. \A i \in 1..Len(kept) : kept[i] \in Elements(first) /\ kept[i] \notin C!NodesOf(g.line)
      BY <2>6, <2>7, <3>1 DEF Elements
    <3> QED
      BY <2>4, <3>1, <3>2 DEF C!NodesOf
  <2>9. /\ more \in Seq(Spots(D)) /\ Len(more) = Len(kept)
        /\ \A i \in 1..Len(kept) : more[i].node = kept[i] /\ more[i].depth = d + 1
    <3>1. \A i \in 1..Len(kept) : [node |-> kept[i], depth |-> d + 1] \in Spots(D)
      BY <2>1, <2>8 DEF Spots
    <3>2. more = [i \in 1..Len(kept) |-> [node |-> kept[i], depth |-> d + 1]]
      BY <1>r, <2>8
    <3>3. more \in [1..Len(kept) -> Spots(D)]
      BY <3>1, <3>2
    <3> QED
      BY <2>8, <3>2, <3>3
  <2>10. /\ h.line \in Seq(Spots(D)) /\ Len(h.line) = Len(g.line) + Len(kept)
         /\ \A i \in 1..Len(g.line) : h.line[i] = g.line[i]
         /\ \A i \in 1..Len(kept) : h.line[Len(g.line) + i] = more[i]
    <3> DEFINE l == g.line
    <3>2. l \in Seq(Spots(D)) /\ more \in Seq(Spots(D)) /\ h.line = l \o more
      BY <1>2, <2>2, <2>9
    <3> HIDE DEF l
    <3>3. /\ l \o more \in Seq(Spots(D)) /\ Len(l \o more) = Len(l) + Len(more)
          /\ \A i \in 1..Len(l) : (l \o more)[i] = l[i]
          /\ \A i \in 1..Len(more) : (l \o more)[Len(l) + i] = more[i]
      BY <3>2
    <3> QED
      BY <2>9, <3>2, <3>3 DEF l
  <2>11. /\ h \in Found(D)
         /\ h.truncated = (g.truncated \/ Len(near) > q.neighbours \/ Len(new) > Len(kept))
    <3>1. (g.truncated \/ Len(near) > q.neighbours \/ Len(new) > Len(kept)) \in BOOLEAN
      OBVIOUS
    <3> QED
      BY <2>2, <2>10, <3>1 DEF Found
  <2>12. DOMAIN h.line = 1..Len(h.line) /\ Len(h.line) \in Nat
    BY <2>10
  <2>13. \A i \in DOMAIN g.line : i \in DOMAIN h.line /\ h.line[i] = g.line[i]
    BY <1>2, <2>8, <2>10, <2>12
  <2>14. ASSUME NEW i \in DOMAIN h.line, i \notin DOMAIN g.line
         PROVE  /\ i - Len(g.line) \in 1..Len(kept)
                /\ h.line[i].node = kept[i - Len(g.line)] /\ h.line[i].depth = d + 1
                /\ h.line[i].node \in N /\ i > n + 1
                /\ \A j \in DOMAIN g.line : j < i /\ g.line[j].node # h.line[i].node
    <3>1. i - Len(g.line) \in 1..Len(kept) /\ Len(g.line) + (i - Len(g.line)) = i /\ i > Len(g.line)
      BY <1>2, <2>8, <2>10, <2>12, <2>14
    <3>2. h.line[i] = more[i - Len(g.line)]
      BY <2>10, <3>1
    <3>3. h.line[i].node = kept[i - Len(g.line)] /\ h.line[i].depth = d + 1
      BY <2>9, <3>1, <3>2
    <3> QED
      BY <1>2, <1>7, <2>8, <3>1, <3>3
  <2>15. Begun(h, start)
    BY <1>1, <1>2, <2>10, <2>12, <2>8 DEF Begun
  <2>16. Bounded(h, q)
    <3>1. Len(h.line) <= q.nodes
      BY <1>2, <1>q, <2>5, <2>7, <2>8, <2>10
    <3>2. \A i \in DOMAIN h.line : h.line[i].depth <= q.depth
      BY <1>1, <2>1, <2>13, <2>14 DEF Bounded
    <3> QED
      BY <3>1, <3>2 DEF Bounded
  <2>17. Apart(h)
    <3>1. ASSUME NEW i \in DOMAIN h.line, NEW j \in DOMAIN h.line,
                 h.line[i].node = h.line[j].node
          PROVE  i = j
      <4>1. CASE i \in DOMAIN g.line /\ j \in DOMAIN g.line
        BY <1>1, <2>13, <3>1, <4>1 DEF Apart
      <4>2. CASE i \in DOMAIN g.line /\ j \notin DOMAIN g.line
        BY <2>13, <2>14, <3>1, <4>2
      <4>3. CASE i \notin DOMAIN g.line /\ j \in DOMAIN g.line
        BY <2>13, <2>14, <3>1, <4>3
      <4>4. CASE i \notin DOMAIN g.line /\ j \notin DOMAIN g.line
        <5>1. /\ i - Len(g.line) \in 1..Len(kept) /\ j - Len(g.line) \in 1..Len(kept)
              /\ kept[i - Len(g.line)] = kept[j - Len(g.line)]
          BY <2>14, <3>1, <4>4
        <5>2. i - Len(g.line) = j - Len(g.line)
          BY <2>7, <2>8, <5>1 DEF Distinct
        <5> QED
          BY <1>2, <2>12, <5>2
      <4> QED
        BY <4>1, <4>2, <4>3, <4>4
    <3> QED
      BY <3>1 DEF Apart
  <2>18. Led(h, K)
    <3>1. ASSUME NEW i \in DOMAIN h.line, i # 1 PROVE FoundFrom(h, K, i)
      <4>1. CASE i \in DOMAIN g.line
        <5>1. PICK j \in DOMAIN g.line : /\ g.line[j].depth + 1 = g.line[i].depth
                                         /\ g.line[i].node \in C!Neighbours(K, g.line[j].node)
          BY <1>1, <3>1, <4>1 DEF Led, FoundFrom
        <5> QED
          BY <2>13, <4>1, <5>1 DEF FoundFrom
      <4>2. CASE i \notin DOMAIN g.line
        <5>1. h.line[i].depth = d + 1 /\ h.line[i].node \in C!Neighbours(K, g.line[n + 1].node)
          BY <1>r, <1>d, <2>14, <4>2
        <5>2. n + 1 \in DOMAIN h.line /\ h.line[n + 1] = g.line[n + 1] /\ h.line[n + 1].depth = d
          BY <1>d, <2>1, <2>13
        <5> QED
          BY <5>1, <5>2 DEF FoundFrom
      <4> QED
        BY <4>1, <4>2
    <3> QED
      BY <3>1 DEF Led
  <2>19. Rising(h, n + 1)
    <3>1. \A i \in DOMAIN g.line : g.line[i].depth <= d + 1 /\ (n + 1 <= i => d <= g.line[i].depth)
      <4>1. \A i \in DOMAIN g.line : g.line[i].depth <= d + 1
        BY <1>1, <1>d, <1>2, <2>1 DEF Rising
      <4>2. ASSUME NEW i \in DOMAIN g.line, n + 1 <= i PROVE d <= g.line[i].depth
        <5>1. CASE i = n + 1
          BY <1>d, <2>1, <5>1
        <5>2. CASE n + 1 < i
          BY <1>1, <1>d, <2>1, <5>2 DEF Rising
        <5> QED
          BY <1>2, <4>2, <5>1, <5>2
      <4> QED
        BY <4>1, <4>2
    <3>2. ASSUME NEW i \in DOMAIN h.line, NEW j \in DOMAIN h.line, i < j
          PROVE  h.line[i].depth <= h.line[j].depth
      <4>1. CASE j \in DOMAIN g.line
        <5>1. i \in DOMAIN g.line
          BY <1>2, <2>12, <3>2, <4>1
        <5> QED
          BY <1>1, <2>13, <3>2, <4>1, <5>1 DEF Rising
      <4>2. CASE j \notin DOMAIN g.line
        <5>1. h.line[j].depth = d + 1
          BY <2>14, <4>2
        <5>2. CASE i \in DOMAIN g.line
          BY <2>13, <3>1, <5>1, <5>2
        <5>3. CASE i \notin DOMAIN g.line
          BY <2>1, <2>14, <5>1, <5>3
        <5> QED
          BY <5>2, <5>3
      <4> QED
        BY <4>1, <4>2
    <3>3. ASSUME NEW i \in DOMAIN h.line, NEW j \in DOMAIN h.line, n + 1 <= i
          PROVE  h.line[j].depth <= h.line[i].depth + 1
      <4>1. h.line[j].depth \in Nat /\ h.line[j].depth <= d + 1
        <5>1. CASE j \in DOMAIN g.line
          BY <1>2, <2>13, <3>1, <5>1
        <5>2. CASE j \notin DOMAIN g.line
          BY <2>1, <2>14, <5>2
        <5> QED
          BY <5>1, <5>2
      <4>2. h.line[i].depth \in Nat /\ d <= h.line[i].depth
        <5>1. CASE i \in DOMAIN g.line
          BY <1>2, <2>13, <3>1, <3>3, <5>1
        <5>2. CASE i \notin DOMAIN g.line
          BY <2>1, <2>14, <5>2
        <5> QED
          BY <5>1, <5>2
      <4> QED
        BY <2>1, <4>1, <4>2
    <3> QED
      BY <3>2, <3>3 DEF Rising
  <2>20. ASSUME ~h.truncated PROVE Heeded(h, K, q, n + 1)
    <3>1. Heeded(g, K, q, n) /\ first = near /\ kept = new
      <4>1. /\ Len(near) \in Nat /\ Len(new) \in Nat
            /\ ~(Len(near) > q.neighbours) /\ ~(Len(new) > Len(kept)) /\ ~g.truncated
        <5>1. Len(near) \in Nat /\ Len(new) \in Nat
          BY <2>3, <2>6
        <5> QED
          BY <2>11, <2>20, <5>1
      <4>2. Len(near) <= q.neighbours /\ Len(new) <= room
        BY <1>q, <2>5, <2>7, <2>8, <4>1
      <4> QED
        BY <1>1, <2>4, <2>7, <4>1, <4>2
    <3>2. \A m, e : Waiting(g, m, e) => Waiting(h, m, e)
      BY <2>13 DEF Waiting
    <3>3. ASSUME NEW i \in DOMAIN g.line, i <= n PROVE Heeds(h, K, q, i)
      <4>1. Heeds(g, K, q, i)
        BY <3>1, <3>3 DEF Heeded
      <4> QED
        BY <2>13, <3>2, <4>1 DEF Heeds
    <3>4. ASSUME NEW m \in N PROVE Waiting(h, m, d + 1)
      <4>1. CASE \E i \in DOMAIN g.line : g.line[i].node = m
        <5>1. PICK i \in DOMAIN g.line : g.line[i].node = m
          BY <4>1
        <5>2. g.line[i].depth <= d + 1
          BY <1>1, <1>d, <1>2, <1>4, <2>1, <5>1 DEF Rising
        <5> QED
          BY <2>13, <5>1, <5>2 DEF Waiting
      <4>2. CASE ~\E i \in DOMAIN g.line : g.line[i].node = m
        <5>1. m \in free
          <6>1. N \subseteq D
            BY <1>r, NextTo
          <6> QED
            BY <1>q, <3>4, <4>2, <6>1 DEF C!NodesOf
        <5>2. m \in Elements(kept)
          <6> HIDE DEF free
          <6> QED
            BY <2>3, <2>6, <3>1, <3>4, <5>1
        <5>3. PICK i \in 1..Len(kept) : kept[i] = m
          BY <2>8, <5>2 DEF Elements
        <5>4. Len(g.line) + i \in DOMAIN h.line
          BY <1>2, <2>8, <2>10, <2>12
        <5>5. h.line[Len(g.line) + i].node = m /\ h.line[Len(g.line) + i].depth = d + 1
          BY <2>9, <2>10, <5>3
        <5>6. d + 1 <= d + 1
          BY <2>1
        <5> QED
          BY <5>4, <5>5, <5>6 DEF Waiting
      <4> QED
        BY <4>1, <4>2
    <3>5. Heeds(h, K, q, n + 1)
      <4>1. h.line[n + 1].node = s /\ h.line[n + 1].depth = d
        BY <1>d, <2>1, <2>13
      <4> QED
        BY <1>r, <3>4, <4>1 DEF Heeds
    <3>6. \A i \in DOMAIN h.line : i <= n + 1 => i \in DOMAIN g.line
      BY <2>12, <2>14
    <3> QED
      BY <1>3, <3>3, <3>5, <3>6 DEF Heeded
  <2> QED
    BY <1>h, <2>11, <2>15, <2>16, <2>17, <2>18, <2>19, <2>20 DEF WalkInv
<1> QED
  <2>1. n + 1 > Len(g.line) \/ n + 1 <= Len(g.line)
    BY <1>2
  <2> QED
    BY <1>5, <1>6, <1>7, <2>1

\* What a walk found, once all of its pops are done.
LEMMA WalkLoop ==
  ASSUME C!Assumptions, NEW D, NEW K, NEW start, NEW q, Roams(D, K, start, q)
  PROVE  \E g : /\ WalkInv(g, Len(Shelf), D, K, start, q)
                /\ C!Walk(start, K, q).nodes = C!NodesOf(g.line)
                /\ C!Walk(start, K, q).truncated = g.truncated
<1> DEFINE N == Len(Shelf)
           P == [n \in 0..N |-> {x \in Found(D) : WalkInv(x, n, D, K, start, q)}]
           nil == [line |-> <<[node |-> start, depth |-> 0]>>, truncated |-> FALSE]
           step(n, x) == C!Pop(x, n, K, q)
           g == [n \in 1..N |-> [x \in Found(D) |-> step(n, x)]]
<1>1. N \in Nat
  BY CatalogLists DEF C!Assumptions, IsList
<1> HIDE DEF N
<1>2. nil \in P[0]
  <2>1. [node |-> start, depth |-> 0] \in Spots(D)
    BY DEF Spots, Roams
  <2>2. nil \in Found(D) /\ nil.line = <<[node |-> start, depth |-> 0]>> /\ Len(nil.line) = 1
    BY <2>1 DEF Found
  <2>3. DOMAIN nil.line = {1} /\ nil.line[1] = [node |-> start, depth |-> 0]
    BY <2>2
  <2>q. q.depth \in Nat /\ q.nodes \in Nat \ {0}
    BY DEF Roams
  <2> HIDE DEF nil
  <2>4. Begun(nil, start) /\ Apart(nil) /\ Led(nil, K) /\ Rising(nil, 0)
    BY <2>2, <2>3 DEF Begun, Apart, Led, Rising
  <2>5. Bounded(nil, q)
    BY <2>2, <2>3, <2>q DEF Bounded
  <2>6. Heeded(nil, K, q, 0)
    BY <2>3 DEF Heeded
  <2> QED
    BY <1>1, <2>2, <2>4, <2>5, <2>6 DEF WalkInv
<1> HIDE DEF nil
<1>3. \A n \in 1..N : \A x \in P[n - 1] : x \in Found(D) /\ g[n][x] = step(n, x) /\ step(n, x) \in P[n]
  <2> SUFFICES ASSUME NEW n \in 1..N, NEW x \in P[n - 1]
               PROVE  x \in Found(D) /\ g[n][x] = step(n, x) /\ step(n, x) \in P[n]
    OBVIOUS
  <2>1. n - 1 \in 0..N /\ n - 1 \in Nat /\ (n - 1) + 1 = n /\ n \in 0..N
    BY <1>1
  <2>2. x \in Found(D) /\ WalkInv(x, n - 1, D, K, start, q)
    BY <2>1
  <2>3. WalkInv(step(n, x), n, D, K, start, q)
    BY <2>1, <2>2, PopKeeps
  <2>4. step(n, x) \in Found(D)
    BY <2>3 DEF WalkInv
  <2> QED
    BY <2>1, <2>2, <2>3, <2>4
<1> HIDE DEF P, step, g
<1>z. \A n \in 1..N : \A x \in P[n - 1] : g[n][x] \in P[n]
  BY <1>3
<1>4. PICK f : Keeps(f, P, nil, N, g)
  BY <1>1, <1>2, <1>z, LoopKept
<1>5. /\ f = [n \in 0..N |-> f[n]] /\ f[0] = nil /\ \A n \in 0..N : f[n] \in P[n]
      /\ \A n \in 1..N : f[n] = step(n, f[n - 1])
  <2>1. \A n \in 1..N : n - 1 \in 0..N
    BY <1>1
  <2> QED
    BY <1>3, <1>4, <2>1 DEF Keeps
<1>6. f = [n \in 0..N |-> IF n = 0 THEN nil ELSE step(n, f[n - 1])]
  <2>1. \A n \in 0..N : n # 0 => n \in 1..N
    BY <1>1
  <2>2. \A n \in 0..N : f[n] = (IF n = 0 THEN nil ELSE step(n, f[n - 1]))
    BY <1>5, <2>1
  <2> QED
    BY <1>5, <2>2
<1>7. f = [n \in 0..N |-> IF n = 0
             THEN [line |-> <<[node |-> start, depth |-> 0]>>, truncated |-> FALSE]
             ELSE C!Pop(f[n - 1], n, K, q)]
  BY <1>6 DEF nil, step
<1> DEFINE after[n \in 0..N] ==
              IF n = 0
              THEN [line |-> <<[node |-> start, depth |-> 0]>>, truncated |-> FALSE]
              ELSE C!Pop(after[n - 1], n, K, q)
<1>8. after = [n \in 0..N |-> IF n = 0
                 THEN [line |-> <<[node |-> start, depth |-> 0]>>, truncated |-> FALSE]
                 ELSE C!Pop(after[n - 1], n, K, q)]
  BY <1>7
<1>9. C!Walk(start, K, q) = [nodes |-> C!NodesOf(after[N].line), truncated |-> after[N].truncated]
  BY DEF C!Walk, N
<1> HIDE DEF after
<1>10. after = [n \in 0..N |-> IF n = 0 THEN nil ELSE step(n, after[n - 1])]
  BY <1>8 DEF nil, step
<1>11. after[0] = nil /\ \A n \in 1..N : after[n] = step(n, after[n - 1])
  BY <1>10, <1>1
<1> DEFINE H == {n \in Nat : n <= N => after[n] \in P[n]}
<1>12. 0 \in H
  BY <1>1, <1>2, <1>11
<1>13. ASSUME NEW n \in Nat, n \in H, n + 1 <= N PROVE after[n + 1] \in P[n + 1]
  <2>1. n + 1 \in 1..N /\ (n + 1) - 1 = n /\ n <= N
    BY <1>1, <1>13
  <2>2. after[n] \in P[n]
    BY <1>13, <2>1
  <2> QED
    BY <1>3, <1>11, <2>1, <2>2
<1>14. \A n \in Nat : n \in H => n + 1 \in H
  BY <1>13
<1> HIDE DEF H
<1>15. N \in H
  BY <1>1, <1>12, <1>14, Induction
<1>16. after[N] \in P[N]
  BY <1>1, <1>15 DEF H
<1>17. WalkInv(after[N], N, D, K, start, q)
  BY <1>1, <1>16 DEF P
<1> QED
  BY <1>9, <1>17 DEF N

\* The edges with both ends among those.
Between(E, K, nodes) == \A z \in K : z[1] \in nodes /\ z[2] \in nodes => z \in E

\* A walk finds what is within the depth over the edges between what it found,
\* and all that is within the depth, or says that it is truncated.
LEMMA WalkIs ==
  ASSUME C!Assumptions, NEW D, NEW K, NEW start, NEW q, Roams(D, K, start, q)
  PROVE  LET w == C!Walk(start, K, q)
         IN  /\ w.nodes \subseteq D /\ Cardinality(w.nodes) <= q.nodes
             /\ \A E : Between(E, K, w.nodes) => w.nodes \subseteq C!Ball(start, q.depth, E)
             /\ ~w.truncated => C!Ball(start, q.depth, K) \subseteq w.nodes
<1> DEFINE w == C!Walk(start, K, q)
<1>1. PICK g : /\ WalkInv(g, Len(Shelf), D, K, start, q)
               /\ w.nodes = C!NodesOf(g.line) /\ w.truncated = g.truncated
  BY WalkLoop
<1> HIDE DEF w
<1>2. /\ g \in Found(D) /\ Begun(g, start) /\ Bounded(g, q) /\ Apart(g)
      /\ Led(g, K) /\ (g.truncated \/ Heeded(g, K, q, Len(Shelf)))
  BY <1>1 DEF WalkInv
<1>3. /\ g.line \in Seq(Spots(D)) /\ Len(g.line) \in Nat
      /\ DOMAIN g.line = 1..Len(g.line)
      /\ \A i \in DOMAIN g.line : g.line[i].node \in D /\ g.line[i].depth \in Nat
  <2>1. g.line \in Seq(Spots(D))
    BY <1>2 DEF Found
  <2>2. \A i \in DOMAIN g.line : g.line[i] \in Spots(D)
    BY <2>1
  <2> QED
    BY <2>1, <2>2 DEF Spots
<1>q. q.depth \in Nat /\ q.nodes \in Nat /\ D \subseteq C!Sources
  BY DEF Roams
<1> DEFINE r == [i \in 1..Len(g.line) |-> g.line[i].node]
<1>4. r \in Seq(D) /\ Len(r) = Len(g.line) /\ Distinct(r) /\ Elements(r) = w.nodes
  <2>1. r \in [1..Len(g.line) -> D]
    BY <1>3
  <2>2. r \in Seq(D) /\ Len(r) = Len(g.line) /\ DOMAIN r = 1..Len(g.line)
    BY <1>3, <2>1
  <2>3. Distinct(r)
    BY <1>2, <1>3 DEF Apart, Distinct
  <2>4. \A x : x \in Elements(r) <=> \E i \in DOMAIN g.line : x = g.line[i].node
    BY <1>3 DEF Elements
  <2>5. \A x : x \in C!NodesOf(g.line) <=> \E i \in DOMAIN g.line : x = g.line[i].node
    BY DEF C!NodesOf
  <2> HIDE DEF r
  <2>6. Elements(r) = C!NodesOf(g.line)
    <3> DEFINE a == Elements(r)
               b == C!NodesOf(g.line)
    <3>1. \A x : x \in a <=> x \in b
      BY <2>4, <2>5
    <3> HIDE DEF a, b
    <3>2. a = b
      BY <3>1
    <3> QED
      BY <3>2 DEF a, b
  <2> QED
    BY <1>1, <2>2, <2>3, <2>6
<1> HIDE DEF r
<1>5. w.nodes \subseteq D
  BY <1>4 DEF Elements
<1>6. Cardinality(w.nodes) <= q.nodes
  <2>1. IsFiniteSet(w.nodes) /\ Cardinality(w.nodes) <= Len(g.line)
    BY <1>4, HoldsNoMore
  <2>2. Len(g.line) <= q.nodes /\ Cardinality(w.nodes) \in Nat
    BY <1>2, <2>1, FS_CardinalityType DEF Bounded
  <2> QED
    BY <1>3, <1>q, <2>1, <2>2
<1>7. Len(g.line) <= Len(Shelf)
  <2>1. Shelf \in Seq(C!Sources) /\ C!Sources = Elements(Shelf)
    <3>1. C!Sources = Elements(Shelf)
      BY DEF C!Sources, Elements
    <3> QED
      BY <3>1, CatalogLists DEF C!Assumptions, IsList
  <2>2. Elements(r) \subseteq Elements(Shelf)
    BY <1>4, <1>5, <1>q, <2>1
  <2> QED
    BY <1>4, <2>1, <2>2, NoLonger
<1> DEFINE L == [d \in 0..q.depth |-> {g.line[i].node : i \in {i \in DOMAIN g.line : g.line[i].depth <= d}}]
<1>8. \A d \in 0..q.depth : \A m : m \in L[d] <=> Waiting(g, m, d)
  BY DEF Waiting
<1>9. w.nodes = L[q.depth]
  <2>1. q.depth \in 0..q.depth
    BY <1>q
  <2>2. \A x : x \in C!NodesOf(g.line) <=> \E i \in DOMAIN g.line : x = g.line[i].node
    BY DEF C!NodesOf
  <2>3. \A i \in DOMAIN g.line : g.line[i].depth <= q.depth
    BY <1>2 DEF Bounded
  <2> HIDE DEF L
  <2>4. \A m : m \in w.nodes <=> m \in L[q.depth]
    BY <1>1, <1>8, <2>1, <2>2, <2>3 DEF Waiting
  <2> QED
    BY <2>4
<1> HIDE DEF L
<1>a. 1 \in DOMAIN g.line /\ g.line[1].node = start /\ g.line[1].depth = 0
  BY <1>2, <1>3 DEF Begun
<1>10. ASSUME NEW E, Between(E, K, w.nodes) PROVE w.nodes \subseteq C!Ball(start, q.depth, E)
  <2>1. \A i \in DOMAIN g.line : g.line[i].depth <= 0 => i = 1
    <3> SUFFICES ASSUME NEW i \in DOMAIN g.line, g.line[i].depth <= 0, i # 1 PROVE FALSE
      OBVIOUS
    <3>1. PICK j \in DOMAIN g.line : g.line[j].depth + 1 = g.line[i].depth
      BY <1>2 DEF Led, FoundFrom
    <3>2. g.line[j].depth \in Nat
      BY <1>3
    <3> QED
      BY <3>1, <3>2
  <2>2. L[0] \subseteq {start}
    <3>1. 0 \in 0..q.depth
      BY <1>q
    <3> QED
      BY <1>8, <1>a, <2>1, <3>1 DEF Waiting
  <2>3. \A a, m \in w.nodes : m \in C!Neighbours(K, a) => m \in C!Neighbours(E, a)
    BY <1>10 DEF Between, C!Neighbours
  <2>4. \A i \in DOMAIN g.line : g.line[i].node \in w.nodes
    BY <1>1 DEF C!NodesOf
  <2>5. ASSUME NEW d \in 1..q.depth, NEW m \in L[d]
        PROVE  m \in L[d - 1] \/ \E a \in L[d - 1] : m \in C!Neighbours(E, a)
    <3>1. d \in 0..q.depth /\ d - 1 \in 0..q.depth /\ d \in Nat /\ d - 1 \in Nat
      BY <1>q
    <3>2. PICK i \in DOMAIN g.line : g.line[i].node = m /\ g.line[i].depth <= d
      BY <1>8, <2>5, <3>1 DEF Waiting
    <3>3. g.line[i].depth \in Nat
      BY <1>3
    <3>4. CASE g.line[i].depth <= d - 1
      BY <1>8, <3>1, <3>2, <3>4 DEF Waiting
    <3>5. CASE g.line[i].depth = d
      <4>1. i # 1
        BY <1>a, <3>1, <3>5
      <4>2. PICK j \in DOMAIN g.line : /\ g.line[j].depth + 1 = g.line[i].depth
                                       /\ g.line[i].node \in C!Neighbours(K, g.line[j].node)
        BY <1>2, <4>1 DEF Led, FoundFrom
      <4>3. g.line[j].depth <= d - 1
        <5>1. g.line[j].depth \in Nat
          BY <1>3
        <5> QED
          BY <3>1, <3>5, <4>2, <5>1
      <4>4. g.line[j].node \in L[d - 1]
        BY <1>8, <3>1, <4>3 DEF Waiting
      <4>5. m \in C!Neighbours(E, g.line[j].node)
        BY <2>3, <2>4, <3>2, <4>2
      <4> QED
        BY <4>4, <4>5
    <3> QED
      BY <3>1, <3>2, <3>3, <3>4, <3>5
  <2>6. L[q.depth] \subseteq C!Ball(start, q.depth, E)
    BY <1>q, <2>2, <2>5, BallHolds
  <2> QED
    BY <1>9, <2>6
<1>11. ASSUME ~w.truncated PROVE C!Ball(start, q.depth, K) \subseteq w.nodes
  <2>1. \A i \in DOMAIN g.line : Heeds(g, K, q, i)
    <3>1. \A i \in DOMAIN g.line : i <= Len(Shelf)
      <4>1. Len(Shelf) \in Nat
        BY CatalogLists DEF C!Assumptions, IsList
      <4> QED
        BY <1>3, <1>7, <4>1
    <3> QED
      BY <1>1, <1>2, <1>11, <3>1 DEF Heeded
  <2>2. start \in L[0]
    <3>1. 0 \in 0..q.depth /\ 0 <= 0
      BY <1>q
    <3> QED
      BY <1>8, <1>a, <3>1 DEF Waiting
  <2>3. ASSUME NEW d \in 1..q.depth
        PROVE  L[d - 1] \subseteq L[d] /\ \A a \in L[d - 1] : C!Neighbours(K, a) \subseteq L[d]
    <3>1. /\ d \in 0..q.depth /\ d - 1 \in 0..q.depth /\ d \in Nat /\ d - 1 \in Nat
          /\ (d - 1) + 1 = d /\ d - 1 < q.depth
      BY <1>q
    <3>2. ASSUME NEW m \in L[d - 1] PROVE m \in L[d]
      <4>1. PICK i \in DOMAIN g.line : g.line[i].node = m /\ g.line[i].depth <= d - 1
        BY <1>8, <3>1, <3>2 DEF Waiting
      <4>2. g.line[i].depth <= d
        <5>1. g.line[i].depth \in Nat
          BY <1>3
        <5> QED
          BY <3>1, <4>1, <5>1
      <4> QED
        BY <1>8, <3>1, <4>1, <4>2 DEF Waiting
    <3>3. ASSUME NEW a \in L[d - 1], NEW m \in C!Neighbours(K, a) PROVE m \in L[d]
      <4>1. PICK i \in DOMAIN g.line : g.line[i].node = a /\ g.line[i].depth <= d - 1
        BY <1>8, <3>1, <3>3 DEF Waiting
      <4>2. g.line[i].depth \in Nat
        BY <1>3
      <4>3. g.line[i].depth < q.depth
        BY <1>q, <3>1, <4>1, <4>2
      <4>4. Waiting(g, m, g.line[i].depth + 1)
        BY <2>1, <3>3, <4>1, <4>3 DEF Heeds
      <4>5. PICK j \in DOMAIN g.line : g.line[j].node = m /\ g.line[j].depth <= g.line[i].depth + 1
        BY <4>4 DEF Waiting
      <4>6. g.line[j].depth <= d
        <5>1. g.line[j].depth \in Nat
          BY <1>3
        <5> QED
          BY <3>1, <4>1, <4>2, <4>5, <5>1
      <4> QED
        BY <1>8, <3>1, <4>5, <4>6 DEF Waiting
    <3> QED
      BY <3>2, <3>3
  <2>4. C!Ball(start, q.depth, K) \subseteq L[q.depth]
    BY <1>q, <2>2, <2>3, BallWithin
  <2> QED
    BY <1>9, <2>4
<1> QED
  BY <1>5, <1>6, <1>10, <1>11 DEF w

LEMMA KeysWithin ==
  ASSUME NEW R, NEW rels, NEW Q, NEW p, C!Assumptions, NEW S, IsView(Q, S)
  PROVE  \A z \in AllKeys(R, rels, Q, p) : z[1] \in DOMAIN Q /\ z[2] \in DOMAIN Q
<1> SUFFICES ASSUME NEW z \in AllKeys(R, rels, Q, p) PROVE z[1] \in DOMAIN Q /\ z[2] \in DOMAIN Q
  OBVIOUS
<1>1. \/ \E e \in C!Related(R, rels, Q, p) : z = <<e[1], e[2], "manual">>
      \/ SomeLink(Q, z) \/ SomeCite(Q, z) \/ SomeShared(Q, z)
  BY EveryEdgeIs DEF AllKeys
<1>2. \A e \in C!Related(R, rels, Q, p) : e[1] \in DOMAIN Q /\ e[2] \in DOMAIN Q
  BY DEF C!Related
<1>3. CASE \E e \in C!Related(R, rels, Q, p) : z = <<e[1], e[2], "manual">>
  BY <1>2, <1>3
<1>4. CASE SomeLink(Q, z)
  BY <1>4 DEF SomeLink
<1>5. CASE SomeCite(Q, z)
  BY <1>5 DEF SomeCite
<1>6. CASE SomeShared(Q, z)
  BY <1>6 DEF SomeShared, PairOf
<1> QED
  BY <1>1, <1>3, <1>4, <1>5, <1>6

\* The sources of the library are a view, and their relations can be shown.
LEMMA LibraryView ==
  ASSUME C!Assumptions, CatalogInv, NEW p \in BOOLEAN
  PROVE  /\ IsView(C!View(entry, C!Sources, p), C!Sources \X Nat)
         /\ Shown(entry, relations, C!View(entry, C!Sources, p), p, C!Sources \X Nat, C!Levels)
<1> DEFINE Q == C!View(entry, C!Sources, p)
<1>1. /\ DOMAIN Q \subseteq C!Sources /\ \A s \in DOMAIN Q : Q[s] = entry[s]
  BY DEF C!View
<1> HIDE DEF Q
<1>2. \A s \in C!Sources : entry[s].text \in C!AllTexts /\ entry[s].rev \in Nat
  BY DEF CatalogInv, FilesInv, Lines
<1>3. IsView(Q, C!Sources \X Nat)
  BY <1>1, <1>2 DEF IsView
<1>4. ASSUME NEW e \in C!Related(entry, relations, Q, p)
      PROVE  Rests(C!Supports(entry, relations, e, p), relations[e].notes, C!Sources \X Nat, C!Levels)
  <2>1. relations[e] \in Accepted
    BY DEF C!Related, CatalogInv, RelationsInv
  <2>2. relations[e].supports \in SUBSET (C!Sources \X Nat) /\ relations[e].notes \in SUBSET C!Levels
    BY <2>1 DEF Accepted
  <2>3. C!Supports(entry, relations, e, p) \subseteq relations[e].supports
    BY DEF C!Supports
  <2> QED
    BY <2>2, <2>3 DEF Rests
<1> QED
  BY <1>3, <1>4 DEF Shown, Q

\* With no root, the first sources of the list.
LEMMA FirstIs ==
  ASSUME C!Assumptions, NEW S, NEW Q, IsView(Q, S), NEW limit \in Nat
  PROVE  LET w == C!First(Q, limit)
         IN  /\ w.nodes \subseteq DOMAIN Q /\ Cardinality(w.nodes) <= limit
             /\ ~w.truncated => w.nodes = DOMAIN Q
<1> DEFINE in == C!Listed(Q)
           kept == Take(in, limit)
<1>1. in \in Seq(DOMAIN Q) /\ Elements(in) = DOMAIN Q
  BY ListedIs
<1>2. /\ C!First(Q, limit).nodes = Elements(kept)
      /\ C!First(Q, limit).truncated = (Len(in) > limit)
  <2> DEFINE held == C!Take(in, limit)
  <2>1. held = kept
    <3> HIDE DEF in
    <3> QED
      BY ShelfLists
  <2>2. C!First(Q, limit) = [nodes |-> {held[i] : i \in DOMAIN held}, truncated |-> Len(in) > limit]
    BY DEF C!First
  <2> HIDE DEF held, kept, in
  <2> QED
    BY <2>1, <2>2 DEF Elements
<1> HIDE DEF in
<1>3. /\ kept \in Seq(DOMAIN Q) /\ Len(kept) <= limit /\ Elements(kept) \subseteq DOMAIN Q
      /\ (Len(in) <= limit => kept = in)
  BY <1>1, TakeIs
<1> HIDE DEF kept
<1>4. Cardinality(Elements(kept)) <= limit
  <2>1. IsFiniteSet(Elements(kept)) /\ Cardinality(Elements(kept)) <= Len(kept)
    BY <1>3, HoldsNoMore
  <2>2. Cardinality(Elements(kept)) \in Nat /\ Len(kept) \in Nat
    BY <1>3, <2>1, FS_CardinalityType
  <2> QED
    BY <1>3, <2>1, <2>2
<1>5. ~(Len(in) > limit) => Elements(kept) = DOMAIN Q
  <2>1. Len(in) \in Nat
    BY <1>1
  <2> QED
    BY <1>1, <1>3, <2>1
<1> QED
  BY <1>2, <1>3, <1>4, <1>5

\* The graph is no larger than asked, holds what is there, and says what it
\* leaves out.
LEMMA ShelfGraphExact ==
  ASSUME C!Assumptions, CatalogInv, NEW q \in Queries, NEW p \in BOOLEAN
  PROVE  C!GraphIsExact(q, p)
<1> DEFINE Q     == C!View(entry, C!Sources, p)
           g     == C!Graph(entry, relations, q, p)
           every == AllKeys(entry, relations, Q, p)
           coll  == C!Collect(entry, relations, Q, p, q.edges)
           start == C!Resolve(Q, DOMAIN Q, q.root)
           taken == IF q.root # None THEN C!Walk(start, C!Keys(coll.edges), q)
                    ELSE C!First(Q, q.nodes)
           kept  == {e \in coll.edges : {e.key[1], e.key[2]} \subseteq taken.nodes}
           Reach(keys) == IF q.root = None THEN DOMAIN Q ELSE C!Ball(start, q.depth, keys)
<1> SUFFICES ASSUME g # None PROVE C!GraphIsExact(q, p)
  BY DEF C!GraphIsExact
<1>1. /\ ~(q.root # None /\ start = None)
      /\ g = [nodes |-> DOMAIN Q \cap taken.nodes, edges |-> kept,
              truncated |-> coll.truncated \/ taken.truncated]
  BY DEF C!Graph
<1>2. IsView(Q, C!Sources \X Nat) /\ Shown(entry, relations, Q, p, C!Sources \X Nat, C!Levels)
  BY LibraryView
<1> HIDE DEF Q
<1>3. /\ coll \in Sets(C!Sources \X Nat, C!Levels) /\ C!Keys(coll.edges) \subseteq every
      /\ ~coll.truncated => C!Keys(coll.edges) = every
  <2> DEFINE S == C!Sources \X Nat
             M == C!Levels
             limit == q.edges
  <2>1. IsView(Q, S) /\ Shown(entry, relations, Q, p, S, M)
    BY <1>2
  <2>2. coll = C!Collect(entry, relations, Q, p, limit) /\ every = AllKeys(entry, relations, Q, p)
    OBVIOUS
  <2> HIDE DEF S, M, limit, coll, every
  <2>3. LET all == C!Collect(entry, relations, Q, p, limit)
        IN  /\ all \in Sets(S, M) /\ C!Keys(all.edges) \subseteq AllKeys(entry, relations, Q, p)
            /\ ~all.truncated => C!Keys(all.edges) = AllKeys(entry, relations, Q, p)
    BY <2>1, CollectIs
  <2> QED
    BY <2>2, <2>3 DEF S, M
<1>4. \A z \in every : z[1] \in DOMAIN Q /\ z[2] \in DOMAIN Q
  BY <1>2, KeysWithin
<1>5. q.depth \in Nat /\ q.neighbours \in Nat \ {0} /\ q.nodes \in Nat \ {0}
  BY DEF C!Assumptions
<1>6. q.root # None => start \in DOMAIN Q
  BY <1>1, <1>2, ViewLists, ResolveIs
<1>e. every = AllKeys(entry, relations, Q, p)
  OBVIOUS
<1> HIDE DEF coll, start, every
<1>7. /\ taken.nodes \subseteq DOMAIN Q /\ Cardinality(taken.nodes) <= q.nodes
      /\ \A E : Between(E, C!Keys(coll.edges), taken.nodes) => taken.nodes \subseteq Reach(E)
      /\ ~taken.truncated => Reach(C!Keys(coll.edges)) \subseteq taken.nodes
  <2>1. CASE q.root = None
    <3>1. taken = C!First(Q, q.nodes) /\ \A E : Reach(E) = DOMAIN Q
      BY <2>1
    <3>2. /\ taken.nodes \subseteq DOMAIN Q /\ Cardinality(taken.nodes) <= q.nodes
          /\ ~taken.truncated => taken.nodes = DOMAIN Q
      <4> HIDE DEF taken
      <4> QED
        BY <1>2, <1>5, <3>1, FirstIs
    <3> HIDE DEF taken, Reach
    <3> QED
      BY <3>1, <3>2
  <2>2. CASE q.root # None
    <3> DEFINE D == DOMAIN Q
               K == C!Keys(coll.edges)
    <3>1. taken = C!Walk(start, K, q) /\ \A E : Reach(E) = C!Ball(start, q.depth, E)
      BY <2>2
    <3>2. Roams(D, K, start, q)
      BY <1>2, <1>3, <1>4, <1>5, <1>6, <2>2 DEF Roams, IsView
    <3> HIDE DEF taken, Reach, D, K
    <3>3. /\ taken.nodes \subseteq D /\ Cardinality(taken.nodes) <= q.nodes
          /\ \A E : Between(E, K, taken.nodes) => taken.nodes \subseteq C!Ball(start, q.depth, E)
          /\ ~taken.truncated => C!Ball(start, q.depth, K) \subseteq taken.nodes
      BY <3>1, <3>2, WalkIs
    <3> QED
      BY <3>1, <3>3 DEF D, K
  <2> QED
    BY <2>1, <2>2
<1> HIDE DEF taken
<1>8. g.nodes = taken.nodes /\ g.edges = kept /\ g.truncated = (coll.truncated \/ taken.truncated)
  <2> HIDE DEF kept, g
  <2> QED
    BY <1>1, <1>7
<1> HIDE DEF Reach, g
<1>9. C!Keys(kept) \subseteq every
  BY <1>3 DEF C!Keys
<1>10. C!Keys(kept) = {z \in C!Keys(coll.edges) : {z[1], z[2]} \subseteq taken.nodes}
  BY DEF C!Keys
<1> HIDE DEF kept
<1>11. taken.nodes \subseteq Reach(C!Keys(kept))
  <2>1. Between(C!Keys(kept), C!Keys(coll.edges), taken.nodes)
    BY <1>10 DEF Between
  <2> QED
    BY <1>7, <2>1
<1>12. ASSUME ~g.truncated
       PROVE  /\ taken.nodes = Reach(every)
              /\ C!Keys(kept) = {z \in every : {z[1], z[2]} \subseteq taken.nodes}
  <2>1. C!Keys(coll.edges) = every /\ ~taken.truncated
    BY <1>3, <1>8, <1>12
  <2>2. Between(every, every, taken.nodes)
    BY DEF Between
  <2> QED
    BY <1>7, <1>10, <2>1, <2>2
<1>13. /\ C!Cardinality(g.nodes) <= q.nodes /\ C!Keys(g.edges) \subseteq every
       /\ g.nodes \subseteq Reach(C!Keys(g.edges))
       /\ ~g.truncated => /\ g.nodes = Reach(every)
                          /\ C!Keys(g.edges) = {z \in every : {z[1], z[2]} \subseteq g.nodes}
  BY <1>7, <1>8, <1>9, <1>11, <1>12, ShelfLists
<1> QED
  BY <1>13, <1>e DEF C!GraphIsExact, Reach, AllKeys, Q, start, g

-----------------------------------------------------------------------------
(* Catalog: where the taxonomy files an article.                           *)

LEMMA GreatestNumber ==
  ASSUME NEW n \in Nat, NEW H, H \subseteq 1..n, H # {}
  PROVE  \E x \in H : \A y \in H : y <= x
<1> DEFINE U == {z \in Nat : \E x \in H : z = n - x}
<1>1. U # {} /\ U \subseteq Nat
  <2>1. PICK x \in H : TRUE
    OBVIOUS
  <2>2. n - x \in U
    BY <2>1
  <2> QED
    BY <2>2
<1>2. \A x \in H : n - x \in U
  OBVIOUS
<1>3. \A z \in U : \E x \in H : z = n - x
  OBVIOUS
<1> HIDE DEF U
<1>4. PICK z \in U : \A y \in U : z <= y
  BY <1>1, LeastNumber
<1>5. PICK x \in H : z = n - x
  BY <1>3
<1>6. \A y \in H : y <= x
  <2> SUFFICES ASSUME NEW y \in H PROVE y <= x
    OBVIOUS
  <2>1. z <= n - y
    BY <1>2, <1>4
  <2> QED
    BY <1>5, <2>1
<1> QED
  BY <1>6

\* What is below a category below another is below that.
LEMMA BelowIs ==
  ASSUME NEW t, IsTree(t), NEW z \in DOMAIN t
  PROVE  /\ DOMAIN t = 1..Len(t) /\ Len(t) \in Nat
         /\ \A i \in C!Below(t, z) : i \in DOMAIN t /\ z < i
         /\ \A m \in C!Below(t, z) : C!Below(t, m) \subseteq C!Below(t, z)
         /\ \A m \in C!Below(t, z), i \in DOMAIN t : z < i /\ i <= m => i \in C!Below(t, z)
<1>1. /\ DOMAIN t = 1..Len(t) /\ Len(t) \in Nat /\ \A i \in DOMAIN t : t[i].depth \in Nat
  BY DEF IsTree
<1>2. \A i : \A a \in DOMAIN t : i \in C!Below(t, a) <=>
        i \in DOMAIN t /\ a < i /\ \A m \in a + 1..i : t[m].depth > t[a].depth
  BY DEF C!Below
<1>3. ASSUME NEW m \in C!Below(t, z), NEW i \in C!Below(t, m) PROVE i \in C!Below(t, z)
  <2>1. m \in DOMAIN t /\ z < m /\ \A x \in z + 1..m : t[x].depth > t[z].depth
    BY <1>2
  <2>2. i \in DOMAIN t /\ m < i /\ \A x \in m + 1..i : t[x].depth > t[m].depth
    BY <1>2, <2>1
  <2>3. z < i
    BY <1>1, <2>1, <2>2
  <2>4. ASSUME NEW x \in z + 1..i PROVE t[x].depth > t[z].depth
    <3>1. x \in DOMAIN t /\ t[x].depth \in Nat /\ t[m].depth \in Nat /\ t[z].depth \in Nat
      BY <1>1, <2>1, <2>2
    <3>2. CASE x <= m
      <4>1. x \in z + 1..m
        BY <1>1, <2>1, <3>2
      <4> QED
        BY <2>1, <4>1
    <3>3. CASE x > m
      <4>1. x \in m + 1..i /\ m \in z + 1..m
        BY <1>1, <2>1, <2>2, <3>3
      <4>2. t[x].depth > t[m].depth /\ t[m].depth > t[z].depth
        BY <2>1, <2>2, <4>1
      <4> QED
        BY <3>1, <4>2
    <3> QED
      BY <1>1, <2>1, <3>1, <3>2, <3>3
  <2> QED
    BY <1>2, <2>2, <2>3, <2>4
<1>4. ASSUME NEW m \in C!Below(t, z), NEW i \in DOMAIN t, z < i, i <= m PROVE i \in C!Below(t, z)
  <2>1. m \in DOMAIN t /\ \A x \in z + 1..m : t[x].depth > t[z].depth
    BY <1>2
  <2>2. \A x \in z + 1..i : x \in z + 1..m
    BY <1>1, <1>4, <2>1
  <2> QED
    BY <1>2, <1>4, <2>1, <2>2
<1> QED
  BY <1>1, <1>2, <1>3, <1>4

\* Of the places of an article one is before all others.
LEMMA FirstPlace ==
  ASSUME NEW t, IsTree(t), NEW S, S \subseteq DOMAIN t, S # {}
  PROVE  \E i \in S : \A z \in S : ~C!Earlier(t, z, i)
<1> DEFINE Last == {i \in S : C!Below(t, i) \cap S = {}}
<1>1. DOMAIN t = 1..Len(t) /\ Len(t) \in Nat
  BY DEF IsTree
<1>2. ASSUME NEW H, H \subseteq S, H # {}, \A i \in H : C!Below(t, i) \cap S \subseteq H
      PROVE  \E m \in H : m \in Last
  <2>1. PICK m \in H : \A y \in H : y <= m
    <3>1. H \subseteq 1..Len(t)
      BY <1>1, <1>2
    <3> QED
      BY <1>1, <1>2, <3>1, GreatestNumber
  <2>2. m \in DOMAIN t
    BY <1>2
  <2>3. C!Below(t, m) \cap S = {}
    <3> SUFFICES ASSUME NEW x \in C!Below(t, m), x \in S PROVE FALSE
      OBVIOUS
    <3>1. x \in H
      BY <1>2
    <3>2. x <= m /\ m < x /\ x \in Nat /\ m \in Nat
      BY <1>1, <2>1, <2>2, <3>1, BelowIs
    <3> QED
      BY <3>2
  <2> QED
    BY <1>2, <2>3
<1>3. Last # {} /\ Last \subseteq Nat
  <2>1. \E m \in S : m \in Last
    BY <1>2
  <2> QED
    BY <1>1, <2>1
<1>l. \A i \in Last : i \in S /\ C!Below(t, i) \cap S = {}
  OBVIOUS
<1> HIDE DEF Last
<1>4. PICK i \in Last : \A y \in Last : i <= y
  BY <1>3, LeastNumber
<1>5. ASSUME NEW z \in S, C!Earlier(t, z, i) PROVE FALSE
  <2>1. z \notin C!Below(t, i)
    BY <1>l
  <2>2. z < i /\ i \notin C!Below(t, z)
    BY <1>5, <2>1 DEF C!Earlier
  <2>3. z \in DOMAIN t /\ i \in DOMAIN t /\ z \in Nat /\ i \in Nat
    BY <1>1, <1>l
  <2>4. CASE C!Below(t, z) \cap S = {}
    <3>1. z \in Last
      BY <2>4 DEF Last
    <3>2. i <= z
      BY <1>4, <3>1
    <3> QED
      BY <2>2, <2>3, <3>2
  <2>5. CASE C!Below(t, z) \cap S # {}
    <3> DEFINE H == C!Below(t, z) \cap S
    <3>1. \A j \in H : C!Below(t, j) \cap S \subseteq H
      BY <2>3, BelowIs
    <3>2. PICK m \in H : m \in Last
      <4>1. H \subseteq S /\ H # {}
        BY <2>5
      <4> HIDE DEF H
      <4> QED
        BY <1>2, <3>1, <4>1
    <3>3. i <= m /\ m \in C!Below(t, z)
      BY <1>4, <3>2
    <3> QED
      BY <2>2, <2>3, <3>3, BelowIs
  <2> QED
    BY <2>4, <2>5
<1> QED
  BY <1>5, <1>l

LEMMA LocalizeIs ==
  ASSUME NEW t, NEW view, NEW p
  PROVE  LET shown == C!Localize(t, view, p)
         IN  /\ DOMAIN shown \subseteq {i \in DOMAIN t : ~C!Withheld(t, view, p, i)}
             /\ \A i \in DOMAIN shown : shown[i].filed = C!FiledAt(t, view, p, i)
             /\ p => DOMAIN shown = DOMAIN t
<1> DEFINE in == {i \in DOMAIN t : /\ ~C!Withheld(t, view, p, i)
                                   /\ \/ p
                                      \/ \E z \in {i} \cup C!Below(t, i) :
                                           C!FiledAt(t, view, p, z) # {}}
           shown == C!Localize(t, view, p)
<1>1. shown = [i \in in |-> [id |-> t[i].id, filed |-> C!FiledAt(t, view, p, i)]]
  BY DEF C!Localize
<1>2. in \subseteq {i \in DOMAIN t : ~C!Withheld(t, view, p, i)}
  OBVIOUS
<1>3. p => in = DOMAIN t
  <2>1. ASSUME p, NEW i PROVE ~C!Withheld(t, view, p, i)
    BY <2>1 DEF C!Withheld
  <2> QED
    BY <2>1
<1> HIDE DEF in, shown
<1>4. DOMAIN shown = in /\ \A i \in in : shown[i].filed = C!FiledAt(t, view, p, i)
  BY <1>1
<1> QED
  BY <1>2, <1>3, <1>4 DEF shown

\* No article is filed twice.
LEMMA FiledOnceIs ==
  ASSUME NEW t, DOMAIN t \subseteq Nat, NEW view, NEW p
  PROVE  LET shown == C!Localize(t, view, p)
         IN  \A i, j \in DOMAIN shown : i # j => shown[i].filed \cap shown[j].filed = {}
<1> DEFINE shown == C!Localize(t, view, p)
<1>1. /\ DOMAIN shown \subseteq {i \in DOMAIN t : ~C!Withheld(t, view, p, i)}
      /\ \A i \in DOMAIN shown : shown[i].filed = C!FiledAt(t, view, p, i)
  BY LocalizeIs
<1> HIDE DEF shown
<1>2. ASSUME NEW i \in DOMAIN shown, NEW j \in DOMAIN shown, i < j, NEW s,
             s \in shown[i].filed, s \in shown[j].filed
      PROVE  FALSE
  <2>1. i \in DOMAIN t /\ j \in DOMAIN t /\ ~C!Withheld(t, view, p, i) /\ ~C!Withheld(t, view, p, j)
    BY <1>1
  <2>2. s \in C!FiledAt(t, view, p, i) /\ s \in C!FiledAt(t, view, p, j)
    BY <1>1, <1>2
  <2>3. /\ s \in t[i].slugs /\ s \in t[j].slugs
        /\ \A z \in DOMAIN t : C!Earlier(t, z, i) /\ s \in t[z].slugs => C!Withheld(t, view, p, z)
        /\ \A z \in DOMAIN t : C!Earlier(t, z, j) /\ s \in t[z].slugs => C!Withheld(t, view, p, z)
    BY <2>1, <2>2 DEF C!FiledAt
  <2>4. ~C!Earlier(t, j, i) /\ ~C!Earlier(t, i, j)
    BY <2>1, <2>3
  <2> QED
    BY <1>2, <2>4 DEF C!Earlier
<1>3. ASSUME NEW i \in DOMAIN shown, NEW j \in DOMAIN shown, i # j
      PROVE  shown[i].filed \cap shown[j].filed = {}
  <2>1. i < j \/ j < i
    <3>1. i \in Nat /\ j \in Nat
      BY <1>1
    <3> QED
      BY <1>3, <3>1
  <2> QED
    BY <1>2, <2>1
<1> QED
  BY <1>3 DEF shown

\* The owner finds every article that is filed.
LEMMA OwnerFindsAll ==
  ASSUME NEW t, IsTree(t), NEW view
  PROVE  C!Filed(C!Localize(t, view, TRUE)) = C!Slugs(t) \cap view
<1> DEFINE shown == C!Localize(t, view, TRUE)
<1>1. DOMAIN shown = DOMAIN t /\ \A i \in DOMAIN t : shown[i].filed = C!FiledAt(t, view, TRUE, i)
  BY LocalizeIs
<1> HIDE DEF shown
<1>2. \A i : ~C!Withheld(t, view, TRUE, i)
  BY DEF C!Withheld
<1>3. \A i \in DOMAIN t : C!FiledAt(t, view, TRUE, i) =
        {s \in t[i].slugs \cap view : \A z \in DOMAIN t : ~(C!Earlier(t, z, i) /\ s \in t[z].slugs)}
  BY <1>2 DEF C!FiledAt
<1>4. ASSUME NEW s \in view, NEW j \in DOMAIN t, s \in t[j].slugs
      PROVE  \E i \in DOMAIN t : s \in C!FiledAt(t, view, TRUE, i)
  <2> DEFINE S == {i \in DOMAIN t : s \in t[i].slugs}
  <2>1. S \subseteq DOMAIN t /\ S # {}
    BY <1>4
  <2>2. PICK i \in S : \A z \in S : ~C!Earlier(t, z, i)
    <3> HIDE DEF S
    <3> QED
      BY <2>1, FirstPlace
  <2> QED
    BY <1>3, <2>2
<1>5. \A s : s \in C!Filed(shown) <=> \E i \in DOMAIN t : s \in C!FiledAt(t, view, TRUE, i)
  BY <1>1 DEF C!Filed
<1>6. \A s : s \in C!Slugs(t) <=> \E i \in DOMAIN t : s \in t[i].slugs
  BY DEF C!Slugs
<1>7. \A i \in DOMAIN t : C!FiledAt(t, view, TRUE, i) \subseteq t[i].slugs \cap view
  BY <1>3
<1>8. \A s : s \in C!Filed(shown) <=> s \in C!Slugs(t) /\ s \in view
  BY <1>4, <1>5, <1>6, <1>7
<1> QED
  BY <1>8 DEF shown

LEMMA ShelfViewsExact == ASSUME C!Assumptions, CatalogInv PROVE C!TypeOK /\ C!ViewsAreExact
<1>1. C!TypeOK
  <2>1. source \in [C!Sources -> C!AllTexts \cup {None}]
    BY DEF CatalogInv, FilesInv, Said
  <2>2. \A e \in C!EndSet : relations[e] # None => relations[e].visibility \in C!Levels
    BY DEF CatalogInv, RelationsInv, Accepted
  <2>3. /\ \A s \in C!Sources : entry[s].rev = Len(history[s])
        /\ by \in {"public", "owner", "other"} /\ writes \in 0..MaxWrites
    BY DEF CatalogInv, FilesInv
  <2> QED
    BY <2>1, <2>2, <2>3 DEF C!TypeOK
<1>2. \A q \in Queries, p \in BOOLEAN : C!GraphIsExact(q, p)
  BY ShelfGraphExact
<1>3. ASSUME NEW p \in BOOLEAN, C!Taxonomy(entry, p) # None
      PROVE  LET t == C!Taxonomy(entry, p)
             IN  /\ \A i, j \in DOMAIN t.shown : i # j => t.shown[i].filed \cap t.shown[j].filed = {}
                 /\ p /\ C!TaxonomyDocument # None =>
                      C!Filed(t.shown) = C!Slugs(C!TaxonomyDocument.categories)
                                           \cap DOMAIN C!View(entry, Compiled, TRUE)
  <2> DEFINE Q   == C!View(entry, Compiled, p)
             doc == IF C!TaxonomyDocument # None THEN C!TaxonomyDocument ELSE C!Fallback(Q)
             t   == C!Taxonomy(entry, p)
  <2>1. t = [shown |-> C!Localize(doc.categories, DOMAIN Q, p), made |-> doc.made,
             of |-> doc.consulted]
    BY <1>3 DEF C!Taxonomy
  <2>2. C!TaxonomyDocument # None => IsTree(C!TaxonomyDocument.categories)
    BY DEF C!TaxonomyDocument, CatalogInv, DocumentsInv, C!Caches
  <2>3. DOMAIN doc.categories \subseteq Nat
    <3>1. CASE C!TaxonomyDocument # None
      BY <2>2, <3>1 DEF IsTree
    <3>2. CASE C!TaxonomyDocument = None
      BY <3>2 DEF C!Fallback
    <3> QED
      BY <3>1, <3>2
  <2> HIDE DEF Q
  <2>4. t.shown = C!Localize(doc.categories, DOMAIN Q, p)
    BY <2>1
  <2> HIDE DEF t
  <2>5. \A i, j \in DOMAIN t.shown : i # j => t.shown[i].filed \cap t.shown[j].filed = {}
    <3> HIDE DEF doc
    <3> QED
      BY <2>3, <2>4, FiledOnceIs
  <2>6. ASSUME p, C!TaxonomyDocument # None
        PROVE  C!Filed(t.shown) = C!Slugs(C!TaxonomyDocument.categories)
                                    \cap DOMAIN C!View(entry, Compiled, TRUE)
    <3>1. p = TRUE /\ Q = C!View(entry, Compiled, TRUE) /\ doc = C!TaxonomyDocument
      BY <2>6 DEF Q
    <3> HIDE DEF doc
    <3> QED
      BY <2>2, <2>4, <2>6, <3>1, OwnerFindsAll
  <2> QED
    BY <2>5, <2>6 DEF t
<1> QED
  BY <1>1, <1>2, <1>3 DEF C!ViewsAreExact

-----------------------------------------------------------------------------
(* Catalog: what the public is shown.                                      *)

\* Every source of a public view that is not refused is public in its file.
LEMMA ViewIsOpen ==
  ASSUME NEW among, ~C!Refused(entry, C!View(entry, among, FALSE), FALSE)
  PROVE  \A s \in DOMAIN C!View(entry, among, FALSE) : C!OpenNow(s)
  BY DEF C!Refused, C!Readable, C!Validated, C!OpenNow

\* Cited revisions that are public, of sources that are.
OpenSupports == {x \in C!Sources \X Nat : C!OpenNow(x[1]) /\ ~history[x[1]][x[2]].private}

LEMMA PublicView ==
  ASSUME C!Assumptions, CatalogInv, ~C!Refused(entry, C!View(entry, C!Sources, FALSE), FALSE)
  PROVE  /\ IsView(C!View(entry, C!Sources, FALSE), OpenSupports)
         /\ Shown(entry, relations, C!View(entry, C!Sources, FALSE), FALSE, OpenSupports, {C!Public})
<1> DEFINE Q == C!View(entry, C!Sources, FALSE)
<1>1. /\ DOMAIN Q \subseteq C!Sources /\ \A s \in DOMAIN Q : Q[s] = entry[s] /\ ~entry[s].text.private
  BY DEF C!View
<1>2. \A s \in DOMAIN Q : C!OpenNow(s)
  BY ViewIsOpen
<1> HIDE DEF Q
<1>3. \A s \in C!Sources : /\ entry[s].text \in C!AllTexts /\ entry[s].rev \in Nat
                           /\ entry[s].rev = Len(history[s])
                           /\ entry[s].text = history[s][Len(history[s])]
  BY DEF CatalogInv, FilesInv, Lines
<1>4. ASSUME NEW s \in DOMAIN Q PROVE <<s, Q[s].rev>> \in OpenSupports
  <2>1. s \in C!Sources /\ Q[s] = entry[s] /\ Q[s].rev \in Nat /\ C!OpenNow(s)
    BY <1>1, <1>2, <1>3
  <2>2. history[s][Q[s].rev] = entry[s].text
    BY <1>3, <2>1
  <2> QED
    BY <1>1, <2>1, <2>2 DEF OpenSupports
<1>5. IsView(Q, OpenSupports)
  BY <1>1, <1>3, <1>4 DEF IsView
<1>6. ASSUME NEW e \in C!Related(entry, relations, Q, FALSE)
      PROVE  Rests(C!Supports(entry, relations, e, FALSE), relations[e].notes,
                   OpenSupports, {C!Public})
  <2>1. e \in C!EndSet /\ relations[e] # None /\ relations[e].visibility = C!Public
    BY DEF C!Related
  <2>2. relations[e] \in Accepted /\ relations[e].notes \subseteq {C!Public}
    BY <2>1 DEF CatalogInv, RelationsInv
  <2>3. relations[e].supports \in SUBSET (C!Sources \X Nat)
    BY <2>2 DEF Accepted
  <2>4. ASSUME NEW x \in C!Supports(entry, relations, e, FALSE) PROVE x \in OpenSupports
    <3>1. x \in C!Sources \X Nat /\ C!Resolves(entry, x, FALSE)
      BY <2>3 DEF C!Supports
    <3>2. C!OpenNow(x[1]) /\ ~history[x[1]][x[2]].private
      BY <3>1 DEF C!Resolves, C!Readable, C!Validated, C!OpenNow
    <3> QED
      BY <3>1, <3>2 DEF OpenSupports
  <2> QED
    BY <2>2, <2>4 DEF Rests
<1> QED
  BY <1>5, <1>6 DEF Shown, Q

LEMMA PublicGraph ==
  ASSUME C!Assumptions, CatalogInv, NEW q, C!Graph(entry, relations, q, FALSE) # None
  PROVE  LET g == C!Graph(entry, relations, q, FALSE)
         IN  /\ \A s \in g.nodes : C!OpenNow(s)
             /\ \A e \in g.edges :
                  /\ \A x \in e.supports : C!OpenNow(x[1]) /\ ~history[x[1]][x[2]].private
                  /\ e.notes \subseteq {C!Public}
<1> DEFINE Q     == C!View(entry, C!Sources, FALSE)
           g     == C!Graph(entry, relations, q, FALSE)
           coll  == C!Collect(entry, relations, Q, FALSE, q.edges)
           start == C!Resolve(Q, DOMAIN Q, q.root)
           taken == IF q.root # None THEN C!Walk(start, C!Keys(coll.edges), q)
                    ELSE C!First(Q, q.nodes)
           kept  == {e \in coll.edges : {e.key[1], e.key[2]} \subseteq taken.nodes}
<1>1. /\ ~C!Refused(entry, Q, FALSE)
      /\ g = [nodes |-> DOMAIN Q \cap taken.nodes, edges |-> kept,
              truncated |-> coll.truncated \/ taken.truncated]
  BY DEF C!Graph
<1>2. IsView(Q, OpenSupports) /\ Shown(entry, relations, Q, FALSE, OpenSupports, {C!Public})
  BY <1>1, PublicView
<1>3. \A s \in DOMAIN Q : C!OpenNow(s)
  BY <1>1, ViewIsOpen
<1> HIDE DEF Q, taken
<1>4. coll \in Sets(OpenSupports, {C!Public})
  <2> DEFINE M == {C!Public}
             limit == q.edges
             p == FALSE
  <2>1. IsView(Q, OpenSupports) /\ Shown(entry, relations, Q, p, OpenSupports, M)
    BY <1>2
  <2>2. coll = C!Collect(entry, relations, Q, p, limit)
    OBVIOUS
  <2> HIDE DEF M, limit, coll, p
  <2>3. LET all == C!Collect(entry, relations, Q, p, limit)
        IN  /\ all \in Sets(OpenSupports, M) /\ C!Keys(all.edges) \subseteq AllKeys(entry, relations, Q, p)
            /\ ~all.truncated => C!Keys(all.edges) = AllKeys(entry, relations, Q, p)
    BY <2>1, CollectIs
  <2> QED
    BY <2>2, <2>3 DEF M
<1> HIDE DEF coll
<1>5. g.nodes \subseteq DOMAIN Q /\ g.edges \subseteq coll.edges
  <2>1. kept \subseteq coll.edges
    OBVIOUS
  <2> HIDE DEF kept, g
  <2> QED
    BY <1>1, <2>1
<1> HIDE DEF g
<1>6. ASSUME NEW e \in g.edges
      PROVE  /\ \A x \in e.supports : C!OpenNow(x[1]) /\ ~history[x[1]][x[2]].private
             /\ e.notes \subseteq {C!Public}
  <2>1. e \in Edges(OpenSupports, {C!Public})
    BY <1>4, <1>5 DEF Sets
  <2>2. e.supports \subseteq OpenSupports /\ e.notes \subseteq {C!Public}
    BY <2>1 DEF Edges
  <2> QED
    BY <2>2 DEF OpenSupports
<1> QED
  BY <1>3, <1>5, <1>6 DEF g

\* All that is generated for the public was made of public texts.
LEMMA PublicDocuments ==
  ASSUME CatalogInv
  PROVE  /\ C!TaxonomyDocument # None => C!AllOpen(C!TaxonomyDocument.made)
         /\ generated["entities"] # None => C!AllOpen(generated["entities"].made)
         /\ generated["xici"] # None => C!AllOpen(generated["xici"].made)
<1>1. \A c \in C!Caches \ {"entities.private"} : generated[c] # None => C!AllOpen(generated[c].made)
  BY DEF CatalogInv, DocumentsInv, C!AllOpen
<1>2. {"entities", "xici", "taxonomy"} \subseteq C!Caches \ {"entities.private"}
  BY DEF C!Caches
<1>3. accepted # None => C!AllOpen(accepted.made)
  BY DEF CatalogInv, DocumentsInv, C!AllOpen
<1> QED
  BY <1>1, <1>2, <1>3 DEF C!TaxonomyDocument

LEMMA FiledWithin ==
  ASSUME NEW t, NEW view, NEW p PROVE C!Filed(C!Localize(t, view, p)) \subseteq view
<1>1. LET shown == C!Localize(t, view, p)
      IN  \A i \in DOMAIN shown : shown[i].filed = C!FiledAt(t, view, p, i)
  BY LocalizeIs
<1>2. \A i : C!FiledAt(t, view, p, i) \subseteq view
  BY DEF C!FiledAt
<1> QED
  BY <1>1, <1>2 DEF C!Filed

\* A document that is verified for the public is made of what is public still.
LEMMA VerifiedIsOpen ==
  ASSUME NEW doc, C!Verified(entry, doc), C!AllOpen(doc.made)
  PROVE  \A g : g.made = doc.made /\ g.of = doc.consulted => C!StillOpen(g)
<1>1. ASSUME NEW s \in doc.consulted PROVE source[s] # None /\ ~source[s].private
  BY DEF C!Verified, C!Readable, C!Validated
<1> QED
  BY <1>1 DEF C!StillOpen, C!AllOpen

LEMMA ShelfHidesPrivate == ASSUME C!Assumptions, CatalogInv PROVE C!NothingHiddenShown
<1> DEFINE Q        == C!View(entry, Compiled, FALSE)
           answers  == C!Aliases(entry, FALSE)
           taxonomy == C!Taxonomy(entry, FALSE)
           mentions == C!Entities(entry, FALSE)
<1>v. ~C!Refused(entry, Q, FALSE) => \A s \in DOMAIN Q : C!OpenNow(s)
  BY ViewIsOpen
<1>1. ASSUME answers # None
      PROVE  \A x \in answers : \A s \in x[2] : C!OpenNow(s)
  <2>1. /\ ~C!Refused(entry, Q, FALSE)
        /\ answers = {<<w, C!Named(Q, DOMAIN Q, w)>> : w \in C!Words(Q)}
    BY <1>1 DEF C!Aliases
  <2>2. \A w : C!Named(Q, DOMAIN Q, w) \subseteq DOMAIN Q
    BY DEF C!Named
  <2>3. \A s \in DOMAIN Q : C!OpenNow(s)
    BY <1>v, <2>1, Zenon
  <2> HIDE DEF Q, answers
  <2> QED
    BY <2>1, <2>2, <2>3
<1>2. ASSUME taxonomy # None
      PROVE  /\ \A s \in C!Filed(taxonomy.shown) : C!OpenNow(s)
             /\ C!StillOpen(taxonomy)
  <2> DEFINE doc == IF C!TaxonomyDocument # None THEN C!TaxonomyDocument ELSE C!Fallback(Q)
  <2>1. /\ ~C!Refused(entry, Q, FALSE) /\ C!Verified(entry, doc)
        /\ taxonomy
             = [shown |-> C!Localize(doc.categories, DOMAIN Q, FALSE), made |-> doc.made,
                of |-> doc.consulted]
    BY <1>2 DEF C!Taxonomy
  <2>2. C!AllOpen(doc.made)
    <3>1. C!AllOpen(C!Fallback(Q).made)
      BY DEF C!Fallback, C!AllOpen
    <3> QED
      BY <3>1, PublicDocuments
  <2>4. \A s \in DOMAIN Q : C!OpenNow(s)
    BY <1>v, <2>1, Zenon
  <2>5. /\ taxonomy.shown = C!Localize(doc.categories, DOMAIN Q, FALSE)
        /\ taxonomy.made = doc.made /\ taxonomy.of = doc.consulted
    <3> HIDE DEF doc, Q, taxonomy
    <3> QED
      BY <2>1
  <2> HIDE DEF doc, Q, taxonomy
  <2>6. C!StillOpen(taxonomy)
    BY <2>1, <2>2, <2>5, VerifiedIsOpen
  <2>3. C!Filed(C!Localize(doc.categories, DOMAIN Q, FALSE)) \subseteq DOMAIN Q
    BY FiledWithin
  <2> QED
    BY <2>3, <2>4, <2>5, <2>6
<1>3. ASSUME mentions # None
      PROVE  /\ \A s \in UNION mentions.entries : C!OpenNow(s)
             /\ C!StillOpen(mentions)
  <2> DEFINE doc == generated["entities"]
             told == {e \in doc.entries : e # {} /\ e \subseteq DOMAIN Q}
  <2>1. /\ ~C!Refused(entry, Q, FALSE) /\ doc # None /\ C!Verified(entry, doc)
        /\ mentions = [entries |-> told, made |-> doc.made, of |-> doc.consulted]
    BY <1>3 DEF C!Entities
  <2>2. C!AllOpen(doc.made)
    BY <2>1, PublicDocuments
  <2>3. UNION told \subseteq DOMAIN Q
    OBVIOUS
  <2>4. \A s \in DOMAIN Q : C!OpenNow(s)
    BY <1>v, <2>1, Zenon
  <2> HIDE DEF doc, Q, told, mentions
  <2>5. mentions.entries = told /\ mentions.made = doc.made /\ mentions.of = doc.consulted
    BY <2>1
  <2>6. C!StillOpen(mentions)
    BY <2>1, <2>2, <2>5, VerifiedIsOpen
  <2> QED
    BY <2>3, <2>4, <2>5, <2>6
<1>4. ASSUME C!Introduction(entry, FALSE) # None
      PROVE  C!StillOpen(C!Introduction(entry, FALSE))
  <2> DEFINE doc  == generated["xici"]
             told == C!Introduction(entry, FALSE)
  <2>1. /\ doc # None /\ C!Verified(entry, doc)
        /\ told = [made |-> doc.made, of |-> doc.consulted]
    BY <1>4, Zenon DEF C!Introduction
  <2>2. C!AllOpen(doc.made)
    BY <2>1, PublicDocuments
  <2> HIDE DEF doc, told
  <2>3. told.made = doc.made /\ told.of = doc.consulted
    BY <2>1
  <2>4. C!StillOpen(told)
    BY <2>1, <2>2, <2>3, VerifiedIsOpen
  <2> QED
    BY <2>4, Zenon DEF told
<1>5. C!Graph(entry, relations, C!AllEdges, FALSE) # None =>
        LET g == C!Graph(entry, relations, C!AllEdges, FALSE)
        IN  /\ \A s \in g.nodes : C!OpenNow(s)
            /\ \A e \in g.edges :
                 /\ \A x \in e.supports : C!OpenNow(x[1]) /\ ~history[x[1]][x[2]].private
                 /\ e.notes \subseteq {C!Public}
  <2> DEFINE q == C!AllEdges
  <2> HIDE DEF q
  <2>1. C!Graph(entry, relations, q, FALSE) # None =>
        LET g == C!Graph(entry, relations, q, FALSE)
        IN  /\ \A s \in g.nodes : C!OpenNow(s)
            /\ \A e \in g.edges :
                 /\ \A x \in e.supports : C!OpenNow(x[1]) /\ ~history[x[1]][x[2]].private
                 /\ e.notes \subseteq {C!Public}
    BY PublicGraph
  <2> QED
    BY <2>1 DEF q
<1> QED
  BY <1>1, <1>2, <1>3, <1>4, <1>5 DEF C!NothingHiddenShown

-----------------------------------------------------------------------------
(* Catalog: what is private does not shape what the public is shown.       *)

Stripped  == C!WithoutPrivate
PublicSet == C!PublicRelations

LEMMA StrippedIs ==
  ASSUME NEW s \in C!Sources
  PROVE  /\ C!Readable(Stripped, s, FALSE) <=> C!Readable(entry, s, FALSE)
         /\ C!Readable(entry, s, FALSE) => Stripped[s] = entry[s]
<1>1. Stripped[s] = IF entry[s].text.private THEN None ELSE entry[s]
  BY DEF C!WithoutPrivate, Stripped
<1> QED
  BY <1>1 DEF C!Readable

LEMMA SameView ==
  ASSUME NEW among, among \subseteq C!Sources
  PROVE  C!View(Stripped, among, FALSE) = C!View(entry, among, FALSE)
<1>1. \A s \in among : Stripped[s] = IF entry[s].text.private THEN None ELSE entry[s]
  BY DEF C!WithoutPrivate, Stripped
<1> DEFINE A == {s \in among : /\ Stripped[s] # None /\ ~Stripped[s].deleted
                               /\ FALSE \/ ~Stripped[s].text.private}
           B == {s \in among : /\ entry[s] # None /\ ~entry[s].deleted
                               /\ FALSE \/ ~entry[s].text.private}
<1>2. A = B
  BY <1>1
<1>3. \A s \in B : Stripped[s] = entry[s]
  BY <1>1
<1>4. /\ C!View(Stripped, among, FALSE) = [s \in A |-> Stripped[s]]
      /\ C!View(entry, among, FALSE) = [s \in B |-> entry[s]]
  BY DEF C!View
<1> HIDE DEF A, B
<1> QED
  BY <1>2, <1>3, <1>4

LEMMA SameRefused ==
  ASSUME NEW among, among \subseteq C!Sources
  PROVE  LET Q == C!View(entry, among, FALSE)
         IN  C!Refused(Stripped, Q, FALSE) <=> C!Refused(entry, Q, FALSE)
<1>1. DOMAIN C!View(entry, among, FALSE) \subseteq C!Sources
  BY DEF C!View
<1> QED
  BY <1>1, StrippedIs DEF C!Refused

LEMMA SameVerified ==
  ASSUME NEW doc, doc.consulted \subseteq C!Sources
  PROVE  C!Verified(Stripped, doc) <=> C!Verified(entry, doc)
  BY StrippedIs DEF C!Verified

LEMMA SameSupports ==
  ASSUME CatalogInv, NEW e \in C!EndSet, relations[e] # None, relations[e].visibility = C!Public
  PROVE  /\ PublicSet[e] = relations[e]
         /\ C!Supports(Stripped, PublicSet, e, FALSE) = C!Supports(entry, relations, e, FALSE)
         /\ \A x \in C!Supports(entry, relations, e, FALSE) : Stripped[x[1]] = entry[x[1]]
<1>1. PublicSet[e] = relations[e]
  BY DEF PublicSet, C!PublicRelations
<1>2. \A x \in relations[e].supports : x[1] \in C!Sources
  <2>1. relations[e] \in Accepted
    BY DEF CatalogInv, RelationsInv
  <2> QED
    BY <2>1 DEF Accepted
<1>3. \A x \in relations[e].supports : C!Resolves(Stripped, x, FALSE) <=> C!Resolves(entry, x, FALSE)
  BY <1>2, StrippedIs DEF C!Resolves
<1>4. C!Supports(Stripped, PublicSet, e, FALSE) = C!Supports(entry, relations, e, FALSE)
  BY <1>1, <1>3 DEF C!Supports
<1>5. \A x \in C!Supports(entry, relations, e, FALSE) : Stripped[x[1]] = entry[x[1]]
  BY <1>2, StrippedIs DEF C!Supports, C!Resolves
<1> QED
  BY <1>1, <1>4, <1>5

LEMMA SameRelated ==
  ASSUME CatalogInv, NEW Q
  PROVE  C!Related(Stripped, PublicSet, Q, FALSE) = C!Related(entry, relations, Q, FALSE)
<1>1. ASSUME NEW e \in C!EndSet
      PROVE  e \in C!Related(Stripped, PublicSet, Q, FALSE) <=> e \in C!Related(entry, relations, Q, FALSE)
  <2>1. CASE relations[e] # None /\ relations[e].visibility = C!Public
    <3>1. /\ PublicSet[e] = relations[e]
          /\ C!Supports(Stripped, PublicSet, e, FALSE) = C!Supports(entry, relations, e, FALSE)
          /\ \A x \in C!Supports(entry, relations, e, FALSE) : Stripped[x[1]] = entry[x[1]]
      BY <2>1, SameSupports
    <3> QED
      BY <3>1 DEF C!Related
  <2>2. CASE ~(relations[e] # None /\ relations[e].visibility = C!Public)
    <3>1. PublicSet[e] = None
      BY <2>2 DEF PublicSet, C!PublicRelations
    <3> QED
      BY <2>2, <3>1 DEF C!Related
  <2> QED
    BY <2>1, <2>2
<1>2. /\ C!Related(Stripped, PublicSet, Q, FALSE) \subseteq C!EndSet
      /\ C!Related(entry, relations, Q, FALSE) \subseteq C!EndSet
  BY DEF C!Related
<1> QED
  BY <1>1, <1>2

LEMMA SameManual ==
  ASSUME C!Assumptions, CatalogInv, NEW Q
  PROVE  C!Manual(Stripped, PublicSet, Q, FALSE) = C!Manual(entry, relations, Q, FALSE)
<1> DEFINE related == C!Related(entry, relations, Q, FALSE)
           met     == C!InOrder(Ends, related)
<1>1. C!Related(Stripped, PublicSet, Q, FALSE) = related
  BY SameRelated
<1>2. \A i \in DOMAIN met : met[i] \in related
  <2> DEFINE shown == InOrder(Ends, related)
  <2>1. Ends \in Seq(Elements(Ends))
    BY CatalogLists DEF C!Assumptions, IsList
  <2>2. met = shown
    BY ShelfLists
  <2>3. Elements(shown) = Elements(Ends) \cap related
    <3> HIDE DEF related
    <3> QED
      BY <2>1, InOrderIs
  <2> HIDE DEF shown, related, met
  <2> QED
    BY <2>2, <2>3 DEF Elements
<1>3. \A e \in related : /\ PublicSet[e] = relations[e]
                         /\ C!Supports(Stripped, PublicSet, e, FALSE) = C!Supports(entry, relations, e, FALSE)
  <2>1. \A e \in related : /\ e \in C!EndSet /\ relations[e] # None
                           /\ relations[e].visibility = C!Public
    BY DEF C!Related
  <2> HIDE DEF related
  <2> QED
    BY <2>1, SameSupports
<1> DEFINE One(R, rels, e) == C!Edge(e[1], e[2], "manual", C!Supports(R, rels, e, FALSE), rels[e].notes)
<1>4. C!Manual(entry, relations, Q, FALSE) = [i \in DOMAIN met |-> One(entry, relations, met[i])]
  BY DEF C!Manual
<1>5. C!Manual(Stripped, PublicSet, Q, FALSE) = [i \in DOMAIN met |-> One(Stripped, PublicSet, met[i])]
  <2> DEFINE met2 == C!InOrder(Ends, C!Related(Stripped, PublicSet, Q, FALSE))
  <2>1. C!Manual(Stripped, PublicSet, Q, FALSE) = [i \in DOMAIN met2 |-> One(Stripped, PublicSet, met2[i])]
    BY DEF C!Manual
  <2>2. met2 = met
    BY <1>1
  <2> HIDE DEF met2, met
  <2> QED
    BY <2>1, <2>2
<1>6. \A i \in DOMAIN met : One(Stripped, PublicSet, met[i]) = One(entry, relations, met[i])
  <2> HIDE DEF met, related
  <2> QED
    BY <1>2, <1>3
<1> HIDE DEF One, met
<1> QED
  BY <1>4, <1>5, <1>6

LEMMA SameGraph ==
  ASSUME C!Assumptions, CatalogInv, NEW q
  PROVE  C!Graph(Stripped, PublicSet, q, FALSE) = C!Graph(entry, relations, q, FALSE)
<1> DEFINE Q == C!View(entry, C!Sources, FALSE)
<1>1. C!View(Stripped, C!Sources, FALSE) = Q
  BY SameView
<1>2. C!Refused(Stripped, Q, FALSE) <=> C!Refused(entry, Q, FALSE)
  BY SameRefused
<1> HIDE DEF Q
<1>3. C!Collect(Stripped, PublicSet, Q, FALSE, q.edges) = C!Collect(entry, relations, Q, FALSE, q.edges)
  <2>1. C!Manual(Stripped, PublicSet, Q, FALSE) = C!Manual(entry, relations, Q, FALSE)
    BY SameManual
  <2> QED
    BY <2>1 DEF C!Collect
<1> DEFINE all   == C!Collect(entry, relations, Q, FALSE, q.edges)
           start == C!Resolve(Q, DOMAIN Q, q.root)
           taken == IF q.root # None THEN C!Walk(start, C!Keys(all.edges), q)
                    ELSE C!First(Q, q.nodes)
           g     == [nodes     |-> DOMAIN Q \cap taken.nodes,
                     edges     |-> {e \in all.edges : {e.key[1], e.key[2]} \subseteq taken.nodes},
                     truncated |-> all.truncated \/ taken.truncated]
<1>4. C!Graph(entry, relations, q, FALSE) =
        IF C!Refused(entry, Q, FALSE) \/ (q.root # None /\ start = None) THEN None ELSE g
  BY DEF C!Graph, Q
<1>5. C!Graph(Stripped, PublicSet, q, FALSE) =
        IF C!Refused(Stripped, Q, FALSE) \/ (q.root # None /\ start = None) THEN None ELSE g
  <2> DEFINE U == C!View(Stripped, C!Sources, FALSE)
             all2   == C!Collect(Stripped, PublicSet, U, FALSE, q.edges)
             start2 == C!Resolve(U, DOMAIN U, q.root)
             found2 == IF q.root # None THEN C!Walk(start2, C!Keys(all2.edges), q)
                       ELSE C!First(U, q.nodes)
             g2     == [nodes     |-> DOMAIN U \cap found2.nodes,
                        edges     |-> {e \in all2.edges : {e.key[1], e.key[2]} \subseteq found2.nodes},
                        truncated |-> all2.truncated \/ found2.truncated]
  <2>1. C!Graph(Stripped, PublicSet, q, FALSE) =
          IF C!Refused(Stripped, U, FALSE) \/ (q.root # None /\ start2 = None) THEN None ELSE g2
    BY DEF C!Graph
  <2>2. U = Q
    BY <1>1
  <2> HIDE DEF U
  <2>3. all2 = all /\ start2 = start
    BY <1>3, <2>2
  <2> HIDE DEF all2, start2, all, start
  <2>4. found2 = taken
    BY <2>2, <2>3
  <2> HIDE DEF found2, taken
  <2>5. g2 = g
    BY <2>2, <2>3, <2>4
  <2> HIDE DEF g2, g
  <2> QED
    BY <2>1, <2>2, <2>3, <2>5
<1> DEFINE one  == C!Graph(entry, relations, q, FALSE)
           two  == C!Graph(Stripped, PublicSet, q, FALSE)
           out  == C!Refused(entry, Q, FALSE)
           out2 == C!Refused(Stripped, Q, FALSE)
<1>6. /\ (out2 <=> out) /\ one = IF out \/ (q.root # None /\ start = None) THEN None ELSE g
      /\ two = IF out2 \/ (q.root # None /\ start = None) THEN None ELSE g
  BY <1>2, <1>4, <1>5
<1> HIDE DEF g, start, one, two, out, out2
<1>7. one = two
  BY <1>6
<1> QED
  BY <1>7 DEF one, two

LEMMA ShelfIgnoresPrivate == ASSUME C!Assumptions, CatalogInv PROVE C!PublicIgnoresPrivate
<1> DEFINE Q == C!View(entry, Compiled, FALSE)
<1>c. Compiled \subseteq C!Sources
  BY DEF C!Assumptions
<1>1. C!View(Stripped, Compiled, FALSE) = Q /\ Q = C!View(entry, Compiled, FALSE)
  BY <1>c, SameView
<1>2. C!Refused(Stripped, Q, FALSE) <=> C!Refused(entry, Q, FALSE)
  BY <1>c, SameRefused
<1> HIDE DEF Q
<1>3. C!Aliases(entry, FALSE) = C!Aliases(Stripped, FALSE)
  BY <1>1, <1>2 DEF C!Aliases
<1>4. ASSUME NEW s PROVE C!Backlinks(entry, s, FALSE) = C!Backlinks(Stripped, s, FALSE)
  BY <1>1, <1>2 DEF C!Backlinks
<1>5. C!Taxonomy(entry, FALSE) = C!Taxonomy(Stripped, FALSE)
  <2> DEFINE doc == IF C!TaxonomyDocument # None THEN C!TaxonomyDocument ELSE C!Fallback(Q)
  <2>1. doc.consulted \subseteq C!Sources
    <3>1. C!TaxonomyDocument # None => C!TaxonomyDocument.consulted \subseteq C!Sources
      BY DEF C!TaxonomyDocument, CatalogInv, DocumentsInv, C!Caches
    <3>2. C!Fallback(Q).consulted = {}
      BY DEF C!Fallback
    <3> QED
      BY <3>1, <3>2
  <2> HIDE DEF doc
  <2>2. C!Verified(Stripped, doc) <=> C!Verified(entry, doc)
    BY <2>1, SameVerified
  <2> DEFINE A == [shown |-> C!Localize(doc.categories, DOMAIN Q, FALSE), made |-> doc.made,
                   of |-> doc.consulted]
  <2>3. C!Taxonomy(entry, FALSE) = IF C!Refused(entry, Q, FALSE) \/ (~FALSE /\ ~C!Verified(entry, doc)) THEN None
          ELSE A
    BY <1>1 DEF C!Taxonomy, doc
  <2>4. C!Taxonomy(Stripped, FALSE) = IF C!Refused(Stripped, Q, FALSE) \/ (~FALSE /\ ~C!Verified(Stripped, doc)) THEN None
          ELSE A
    BY <1>1 DEF C!Taxonomy, doc
  <2> DEFINE one  == C!Taxonomy(entry, FALSE)
             two  == C!Taxonomy(Stripped, FALSE)
             out  == C!Refused(entry, Q, FALSE)
             out2 == C!Refused(Stripped, Q, FALSE)
  <2>5. /\ (out2 <=> out)
        /\ one = IF out \/ (~FALSE /\ ~C!Verified(entry, doc)) THEN None ELSE A
        /\ two = IF out2 \/ (~FALSE /\ ~C!Verified(Stripped, doc)) THEN None ELSE A
    BY <1>2, <2>3, <2>4
  <2> HIDE DEF A, one, two, out, out2
  <2>6. one = two
    BY <2>2, <2>5
  <2> QED
    BY <2>6 DEF one, two
<1>6. C!Entities(entry, FALSE) = C!Entities(Stripped, FALSE)
  <2> DEFINE doc == generated["entities"]
  <2>1. doc # None => (C!Verified(Stripped, doc) <=> C!Verified(entry, doc))
    <3>1. doc # None => doc.consulted \subseteq C!Sources
      BY DEF CatalogInv, DocumentsInv, C!Caches
    <3> HIDE DEF doc
    <3> QED
      BY <3>1, SameVerified
  <2> DEFINE A == [entries |-> {e \in doc.entries : e # {} /\ e \subseteq DOMAIN Q},
                   made |-> doc.made, of |-> doc.consulted]
  <2>2. C!Entities(entry, FALSE) =
          IF C!Refused(entry, Q, FALSE) \/ doc = None \/ ~doc.open \/ ~C!Verified(entry, doc)
          THEN None ELSE A
    BY <1>1 DEF C!Entities
  <2>3. C!Entities(Stripped, FALSE) =
          IF C!Refused(Stripped, Q, FALSE) \/ doc = None \/ ~doc.open \/ ~C!Verified(Stripped, doc)
          THEN None ELSE A
    BY <1>1 DEF C!Entities
  <2> DEFINE one  == C!Entities(entry, FALSE)
             two  == C!Entities(Stripped, FALSE)
             out  == C!Refused(entry, Q, FALSE)
             out2 == C!Refused(Stripped, Q, FALSE)
  <2>4. /\ (out2 <=> out)
        /\ one = IF out \/ doc = None \/ ~doc.open \/ ~C!Verified(entry, doc) THEN None ELSE A
        /\ two = IF out2 \/ doc = None \/ ~doc.open \/ ~C!Verified(Stripped, doc) THEN None ELSE A
    BY <1>2, <2>2, <2>3
  <2> HIDE DEF doc, A, one, two, out, out2
  <2>5. one = two
    BY <2>1, <2>4
  <2> QED
    BY <2>5 DEF one, two
<1> QED
  BY <1>3, <1>4, <1>5, <1>6, SameGraph DEF C!PublicIgnoresPrivate, Stripped, PublicSet
-----------------------------------------------------------------------------
(* Drafts: what becomes of a model's answer.                               *)

LEMMA DraftLists ==
  ASSUME NEW q, NEW S
  PROVE  /\ T!Select(q, S) = Select(q, S) /\ T!InOrder(q, S) = InOrder(q, S)
         /\ T!Firsts(q) = Firsts(q) /\ T!Elements(q) = Elements(q) /\ T!IsList(q) = IsList(q)
<1>1. T!Select(q, S) = Select(q, S)
  BY DEF T!Select, Select
<1>2. T!InOrder(q, S) = InOrder(q, S)
  BY DEF T!InOrder, InOrder, T!Select, Select
<1>3. T!Firsts(q) = Firsts(q)
  BY DEF T!Firsts, Firsts
<1>4. T!Elements(q) = Elements(q)
  BY DEF T!Elements, Elements
<1>5. T!IsList(q) = IsList(q)
  BY <1>4 DEF T!IsList, IsList
<1> QED
  BY <1>1, <1>2, <1>3, <1>4, <1>5

\* A sequence is a list.
LEMMA Listed == ASSUME NEW A, NEW q \in Seq(A) PROVE IsList(q)
<1>1. /\ Len(q) \in Nat /\ q = [i \in 1..Len(q) |-> q[i]]
      /\ \A i \in 1..Len(q) : q[i] \in Elements(q)
  BY DEF Elements
<1> QED
  BY <1>1 DEF IsList

\* Two lists in a row have what either has.
LEMMA InARow ==
  ASSUME NEW a, IsList(a), NEW b, IsList(b)
  PROVE  /\ IsList(a \o b) /\ Elements(a \o b) = Elements(a) \cup Elements(b)
         /\ Len(a \o b) = Len(a) + Len(b) /\ Len(a) \in Nat /\ Len(b) \in Nat
         /\ DOMAIN a = 1..Len(a) /\ DOMAIN b = 1..Len(b)
         /\ \A i \in 1..Len(a) : (a \o b)[i] = a[i]
         /\ \A i \in 1..Len(b) : (a \o b)[Len(a) + i] = b[i]
<1> DEFINE A == Elements(a) \cup Elements(b)
           y == a \o b
<1>1. a \in Seq(A) /\ b \in Seq(A)
  <2>1. a \in Seq(Elements(a)) /\ b \in Seq(Elements(b))
    BY DEF IsList
  <2>2. /\ Len(a) \in Nat /\ a = [i \in 1..Len(a) |-> a[i]] /\ \A i \in 1..Len(a) : a[i] \in A
        /\ Len(b) \in Nat /\ b = [i \in 1..Len(b) |-> b[i]] /\ \A i \in 1..Len(b) : b[i] \in A
    BY <2>1
  <2> QED
    BY <2>2
<1>2. \A x : x \in Elements(a) \/ x \in Elements(b) => x \in A
  OBVIOUS
<1> HIDE DEF A
<1>3. /\ y \in Seq(A) /\ Len(y) = Len(a) + Len(b) /\ Len(a) \in Nat /\ Len(b) \in Nat
      /\ DOMAIN a = 1..Len(a) /\ DOMAIN b = 1..Len(b) /\ DOMAIN y = 1..Len(y)
      /\ \A i \in 1..Len(a) : y[i] = a[i]
      /\ \A i \in 1..Len(b) : y[Len(a) + i] = b[i]
  BY <1>1
<1> HIDE DEF y
<1>4. \A i \in DOMAIN a : i \in DOMAIN y /\ y[i] = a[i]
  BY <1>3
<1>5. \A i \in DOMAIN b : Len(a) + i \in DOMAIN y /\ y[Len(a) + i] = b[i]
  BY <1>3
<1>6. ASSUME NEW i \in DOMAIN y PROVE y[i] \in Elements(a) \cup Elements(b)
  <2>1. CASE i <= Len(a)
    BY <1>3, <2>1 DEF Elements
  <2>2. CASE i > Len(a)
    <3>1. i - Len(a) \in 1..Len(b) /\ Len(a) + (i - Len(a)) = i
      BY <1>3, <2>2
    <3> QED
      BY <1>3, <3>1 DEF Elements
  <2> QED
    BY <1>3, <2>1, <2>2
<1>7. Elements(a) \cup Elements(b) \subseteq Elements(y)
  BY <1>4, <1>5 DEF Elements
<1>8. Elements(y) = Elements(a) \cup Elements(b)
  BY <1>6, <1>7 DEF Elements
<1> QED
  BY <1>3, <1>8, Listed DEF y

\* Of two lists in a row, one kept and one not, the one that is kept remains.
LEMMA OneKept ==
  ASSUME NEW a, IsList(a), NEW b, IsList(b), NEW S,
         \A i \in DOMAIN a : a[i] \in S, \A i \in DOMAIN b : b[i] \notin S
  PROVE  InOrder(a \o b, S) = a
<1> DEFINE y == a \o b
           A == Elements(y)
           P == {i \in DOMAIN y : y[i] \in S}
<1>1. /\ y \in Seq(A) /\ Len(y) = Len(a) + Len(b) /\ Len(a) \in Nat /\ Len(b) \in Nat
      /\ DOMAIN a = 1..Len(a) /\ DOMAIN b = 1..Len(b)
      /\ \A i \in 1..Len(a) : y[i] = a[i]
      /\ \A i \in 1..Len(b) : y[Len(a) + i] = b[i]
  BY InARow DEF IsList
<1>2. InOrder(y, S) = Select(y, P)
  BY DEF InOrder
<1> HIDE DEF y, A
<1>l. Len(y) = Len(a) + Len(b) /\ Len(a) \in Nat /\ Len(b) \in Nat
  BY <1>1
<1>3. PICK u : Selects(u, y, P, A)
  BY <1>1, SelectLoop
<1>4. /\ u \in [0..Len(y) -> Seq(A)] /\ u[0] = <<>>
      /\ \A n \in 1..Len(y) : u[n] = (IF n \in P THEN Append(u[n - 1], y[n]) ELSE u[n - 1])
      /\ Select(y, P) = u[Len(y)]
  BY <1>3 DEF Selects
<1>5. \A n \in 1..Len(y) : n \in P <=> n <= Len(a)
  <2> SUFFICES ASSUME NEW n \in 1..Len(y) PROVE n \in P <=> n <= Len(a)
    OBVIOUS
  <2>1. n \in DOMAIN y
    BY <1>1
  <2>2. CASE n <= Len(a)
    <3>1. n \in 1..Len(a)
      BY <1>1, <2>2
    <3> QED
      BY <1>1, <2>1, <2>2, <3>1
  <2>3. CASE ~(n <= Len(a))
    <3>1. n - Len(a) \in 1..Len(b) /\ Len(a) + (n - Len(a)) = n
      BY <1>1, <2>3
    <3>2. y[n] = b[n - Len(a)]
      BY <1>1, <3>1
    <3> QED
      BY <1>1, <2>3, <3>1, <3>2
  <2> QED
    BY <2>2, <2>3
<1> HIDE DEF P
<1> DEFINE U == {n \in Nat : n <= Len(y) => /\ Len(u[n]) = (IF n <= Len(a) THEN n ELSE Len(a))
                                           /\ \A i \in 1..Len(u[n]) : u[n][i] = a[i]}
<1>6. 0 \in U
  BY <1>1, <1>4
<1>7. ASSUME NEW n \in Nat, n \in U, n + 1 <= Len(y) PROVE n + 1 \in U
  <2>1. n + 1 \in 1..Len(y) /\ (n + 1) - 1 = n /\ n <= Len(y) /\ n \in 0..Len(y)
    BY <1>1, <1>7
  <2>2. u[n] \in Seq(A) /\ u[n + 1] = IF n + 1 \in P THEN Append(u[n], y[n + 1]) ELSE u[n]
    BY <1>4, <2>1
  <2>3. CASE n + 1 <= Len(a)
    <3>1. n + 1 \in 1..Len(a) /\ y[n + 1] = a[n + 1] /\ n <= Len(a) /\ y[n + 1] \in A
      BY <1>1, <2>1, <2>3
    <3>2. u[n + 1] = Append(u[n], a[n + 1]) /\ a[n + 1] \in A
      BY <1>5, <2>1, <2>2, <2>3, <3>1
    <3>3. Len(u[n]) = n /\ \A i \in 1..n : u[n][i] = a[i]
      BY <1>7, <2>1, <3>1
    <3> DEFINE v == u[n]
    <3>4. /\ v \in Seq(A) /\ Len(v) = n /\ \A i \in 1..n : v[i] = a[i]
          /\ u[n + 1] = Append(v, a[n + 1])
      BY <2>2, <3>2, <3>3
    <3> HIDE DEF v
    <3>6. /\ Len(u[n + 1]) = n + 1 /\ u[n + 1][n + 1] = a[n + 1]
          /\ \A i \in 1..n : u[n + 1][i] = v[i]
      BY <3>2, <3>4
    <3>7. \A i \in 1..n+1 : i \in 1..n \/ i = n + 1
      OBVIOUS
    <3>5. Len(u[n + 1]) = n + 1 /\ \A i \in 1..n+1 : u[n + 1][i] = a[i]
      BY <3>4, <3>6, <3>7
    <3> QED
      BY <2>3, <3>5
  <2>4. CASE ~(n + 1 <= Len(a))
    <3>1. u[n + 1] = u[n]
      BY <1>5, <2>1, <2>2, <2>4
    <3>2. (IF n <= Len(a) THEN n ELSE Len(a)) = Len(a)
      BY <1>l, <2>4
    <3>3. Len(u[n]) = (IF n <= Len(a) THEN n ELSE Len(a)) /\ \A i \in 1..Len(u[n]) : u[n][i] = a[i]
      BY <1>7, <2>1
    <3> QED
      BY <2>4, <3>1, <3>2, <3>3
  <2> QED
    BY <2>3, <2>4
<1>8. \A n \in Nat : n \in U => n + 1 \in U
  <2> SUFFICES ASSUME NEW n \in Nat, n \in U PROVE n + 1 \in U
    OBVIOUS
  <2>1. CASE n + 1 <= Len(y)
    BY <1>7, <2>1
  <2>2. CASE ~(n + 1 <= Len(y))
    BY <2>2
  <2> QED
    BY <2>1, <2>2
<1>9. \A n \in U : n <= Len(y) => /\ Len(u[n]) = (IF n <= Len(a) THEN n ELSE Len(a))
                                 /\ \A i \in 1..Len(u[n]) : u[n][i] = a[i]
  OBVIOUS
<1> HIDE DEF U
<1>10. Len(y) \in U /\ Len(y) \in Nat
  BY <1>1, <1>6, <1>8, Induction
<1> DEFINE r == u[Len(y)]
<1>11. r \in Seq(A) /\ Len(r) = Len(a) /\ \A i \in 1..Len(a) : r[i] = a[i]
  <2>1. r \in Seq(A)
    BY <1>4, <1>10
  <2>2. Len(r) = (IF Len(y) <= Len(a) THEN Len(y) ELSE Len(a)) /\ \A i \in 1..Len(r) : r[i] = a[i]
    BY <1>9, <1>10
  <2>3. Len(r) = Len(a)
    BY <1>l, <2>2
  <2> QED
    BY <2>1, <2>2, <2>3
<1> HIDE DEF r
<1>12. r = [i \in 1..Len(a) |-> r[i]] /\ a = [i \in 1..Len(a) |-> a[i]]
  <2>1. a \in Seq(Elements(a))
    BY DEF IsList
  <2> QED
    BY <1>11, <2>1
<1>13. r = a
  BY <1>11, <1>12
<1> QED
  BY <1>2, <1>4, <1>13 DEF y, r

\* Own tags are what is left of a list with the tags of categories behind them.
LEMMA OwnIs ==
  ASSUME NEW tags, IsList(tags)
  PROVE  /\ IsList(T!Own(tags)) /\ \A i \in DOMAIN T!Own(tags) : ~T!Own(tags)[i].category
<1> DEFINE S == {t \in Elements(tags) : ~t.category}
           r == InOrder(tags, S)
<1>1. T!Own(tags) = r
  BY DraftLists DEF T!Own
<1>2. tags \in Seq(Elements(tags))
  BY DEF IsList
<1>3. \A t \in S : ~t.category
  OBVIOUS
<1> HIDE DEF S
<1>4. r \in Seq(Elements(tags)) /\ Elements(r) = Elements(tags) \cap S
  BY <1>2, InOrderIs
<1> HIDE DEF r
<1>5. \A i \in DOMAIN r : r[i] \in S
  BY <1>4 DEF Elements
<1> QED
  BY <1>1, <1>3, <1>4, <1>5, Listed

LEMMA TaggingKeepsOwn ==
  ASSUME NEW tags, IsList(tags), NEW path, IsList(path)
  PROVE  IsList(T!Tagged(tags, path)) /\ T!Own(T!Tagged(tags, path)) = T!Own(tags)
<1> DEFINE a == T!Own(tags)
           b == [d \in DOMAIN path |-> [category |-> TRUE, name |-> SubSeq(path, 1, d)]]
           y == a \o b
           S == {t \in Elements(y) : ~t.category}
<1>1. IsList(a) /\ \A i \in DOMAIN a : ~a[i].category
  BY OwnIs
<1>2. IsList(b) /\ \A i \in DOMAIN b : b[i].category = TRUE
  <2>1. path \in Seq(Elements(path))
    BY DEF IsList
  <2>2. DOMAIN path = 1..Len(path) /\ Len(path) \in Nat
    BY <2>1
  <2>3. b \in Seq({b[i] : i \in DOMAIN path})
    <3> DEFINE N == Len(path)
               B == {b[i] : i \in DOMAIN path}
    <3>1. N \in Nat /\ b = [i \in 1..N |-> b[i]] /\ \A i \in 1..N : b[i] \in B
      BY <2>2
    <3> HIDE DEF b, N, B
    <3>2. b \in Seq(B)
      BY <3>1
    <3> QED
      BY <3>2 DEF B
  <2>4. \A i \in DOMAIN b : b[i].category = TRUE
    OBVIOUS
  <2> HIDE DEF b
  <2> QED
    BY <2>3, <2>4, Listed
<1>3. T!Tagged(tags, path) = y
  BY DEF T!Tagged
<1>4. T!Own(y) = InOrder(y, S)
  BY DraftLists DEF T!Own
<1>5. \A t : t \in S <=> t \in Elements(y) /\ ~t.category
  OBVIOUS
<1> HIDE DEF a, b, S
<1>6. IsList(y) /\ Elements(y) = Elements(a) \cup Elements(b)
  BY <1>1, <1>2, InARow
<1>7. \A i \in DOMAIN a : a[i] \in S
  BY <1>1, <1>5, <1>6 DEF Elements
<1>8. \A i \in DOMAIN b : b[i] \notin S
  BY <1>2, <1>5
<1>9. InOrder(y, S) = a
  BY <1>1, <1>2, <1>7, <1>8, OneKept
<1> QED
  BY <1>3, <1>4, <1>6, <1>9 DEF a

\* A path is a list, whatever it is read from.
LEMMA PathIs ==
  ASSUME NEW tree, IsList(tree), NEW s PROVE IsList(T!Path(tree, s))
<1> DEFINE i == CHOOSE i \in DOMAIN tree : s \in T!Elements(tree[i].slugs)
           ids == [j \in DOMAIN tree |-> tree[j].id]
           P == {j \in 1..i : \A m \in j + 1..i : tree[m].depth > tree[j].depth}
<1>1. T!Path(tree, s) = Select(ids, P)
  BY DraftLists DEF T!Path
<1>2. tree \in Seq(Elements(tree))
  BY DEF IsList
<1>3. DOMAIN tree = 1..Len(tree) /\ Len(tree) \in Nat
  BY <1>2
<1>4. ids \in Seq({ids[j] : j \in DOMAIN tree})
  BY <1>3
<1> HIDE DEF ids, P
<1>5. Select(ids, P) \in Seq({ids[j] : j \in DOMAIN tree})
  BY <1>4, SelectIs
<1> QED
  BY <1>1, <1>5, Listed

-----------------------------------------------------------------------------
(* Trees.                                                                  *)

\* Where an article is named first, and that it is named nowhere.
NamedAt(tree, s, i) == /\ i \in DOMAIN tree /\ s \in Elements(tree[i].slugs)
                       /\ \A j \in 1..i - 1 : s \notin Elements(tree[j].slugs)
Missing(tree, s)    == s \in T!Articles /\ \A j \in DOMAIN tree : s \notin Elements(tree[j].slugs)

\* What is kept of the elements at some places is distinct when they are.
LEMMA SelectDistinct ==
  ASSUME NEW q, IsList(q), NEW P, \A i, j \in DOMAIN q : i \in P /\ j \in P /\ q[i] = q[j] => i = j
  PROVE  /\ IsList(Select(q, P)) /\ Distinct(Select(q, P))
         /\ \A s : s \in Elements(Select(q, P)) <=> \E i \in DOMAIN q : i \in P /\ q[i] = s
<1> DEFINE r == Select(q, P)
           A == Elements(q)
<1>1. q \in Seq(A)
  BY DEF IsList
<1> HIDE DEF A
<1>2. r \in Seq(A) /\ Picked(r, q, P, Len(q))
  BY <1>1, SelectIs
<1> HIDE DEF r
<1>3. PICK m : Picks(m, r, q, P, Len(q))
  BY <1>2 DEF Picked
<1>4. DOMAIN r = 1..Len(r) /\ Len(r) \in Nat /\ DOMAIN q = 1..Len(q) /\ Len(q) \in Nat
  BY <1>1, <1>2
<1>5. /\ \A i \in 1..Len(r) : m[i] \in 1..Len(q) /\ m[i] \in P /\ r[i] = q[m[i]]
      /\ \A i, j \in 1..Len(r) : i < j => m[i] < m[j]
      /\ \A p \in 1..Len(q) : p \in P => \E i \in 1..Len(r) : m[i] = p
  BY <1>3 DEF Picks
<1>6. ASSUME NEW i \in 1..Len(r), NEW j \in 1..Len(r), r[i] = r[j] PROVE i = j
  <2>1. m[i] = m[j] /\ m[i] \in Nat
    BY <1>4, <1>5, <1>6
  <2> QED
    BY <1>4, <1>5, <2>1
<1>7. Distinct(r)
  BY <1>4, <1>6 DEF Distinct
<1>8. \A s : s \in Elements(r) <=> \E i \in DOMAIN q : i \in P /\ q[i] = s
  <2> SUFFICES ASSUME NEW s PROVE s \in Elements(r) <=> \E i \in DOMAIN q : i \in P /\ q[i] = s
    OBVIOUS
  <2>1. ASSUME s \in Elements(r) PROVE \E i \in DOMAIN q : i \in P /\ q[i] = s
    <3>1. PICK j \in 1..Len(r) : r[j] = s
      BY <1>4, <2>1 DEF Elements
    <3> QED
      BY <1>4, <1>5, <3>1
  <2>2. ASSUME NEW i \in DOMAIN q, i \in P, q[i] = s PROVE s \in Elements(r)
    <3>1. PICK j \in 1..Len(r) : m[j] = i
      BY <1>4, <1>5, <2>2
    <3>2. r[j] = s /\ j \in DOMAIN r
      BY <1>4, <1>5, <2>2, <3>1
    <3> QED
      BY <3>2 DEF Elements
  <2> QED
    BY <2>1, <2>2
<1> QED
  BY <1>2, <1>7, <1>8, Listed DEF r

LEMMA FiledInIs ==
  ASSUME NEW tree, NEW n
  PROVE  \A s : s \in T!FiledIn(tree, n) <=> \E i \in 1..n : s \in Elements(tree[i].slugs)
<1>1. \A i : T!Elements(tree[i].slugs) = Elements(tree[i].slugs)
  BY DraftLists
<1> QED
  BY <1>1 DEF T!FiledIn

\* FirstNamed keeps what is named first here, once.
LEMMA FirstNamedIs ==
  ASSUME NEW tree, T!IsTree(tree), NEW i \in DOMAIN tree
  PROVE  /\ IsList(T!FirstNamed(tree, i)) /\ Distinct(T!FirstNamed(tree, i))
         /\ \A s : s \in Elements(T!FirstNamed(tree, i)) <=> NamedAt(tree, s, i)
<1> DEFINE q == tree[i].slugs
           P == {p \in Firsts(q) : q[p] \notin T!FiledIn(tree, i - 1)}
<1>1. T!FirstNamed(tree, i) = Select(q, P)
  BY DraftLists DEF T!FirstNamed
<1>2. IsList(q)
  BY DraftLists DEF T!IsTree
<1>3. q \in Seq(Elements(q))
  BY <1>2 DEF IsList
<1>4. DOMAIN q = 1..Len(q) /\ Len(q) \in Nat
  BY <1>3
<1>5. \A s : s \in Elements(q) <=> s \in Elements(tree[i].slugs)
  OBVIOUS
<1>6. \A p : p \in P <=> /\ p \in DOMAIN q /\ \A j \in 1..p - 1 : q[j] # q[p]
                         /\ \A j \in 1..i - 1 : q[p] \notin Elements(tree[j].slugs)
  BY FiledInIs DEF Firsts
<1> HIDE DEF q, P
<1>7. \A a, b \in DOMAIN q : a \in P /\ b \in P /\ q[a] = q[b] => a = b
  <2> SUFFICES ASSUME NEW a \in DOMAIN q, NEW b \in DOMAIN q, a \in P, b \in P, q[a] = q[b]
               PROVE  a = b
    OBVIOUS
  <2>1. a \in Nat /\ b \in Nat /\ 1 <= a /\ 1 <= b
    BY <1>4
  <2>2. ~(a < b)
    <3> SUFFICES ASSUME a < b PROVE FALSE
      OBVIOUS
    <3>1. a \in 1..b - 1
      BY <2>1
    <3> QED
      BY <1>6, <3>1
  <2>3. ~(b < a)
    <3> SUFFICES ASSUME b < a PROVE FALSE
      OBVIOUS
    <3>1. b \in 1..a - 1
      BY <2>1
    <3> QED
      BY <1>6, <3>1
  <2> QED
    BY <2>1, <2>2, <2>3
<1>8. /\ IsList(Select(q, P)) /\ Distinct(Select(q, P))
      /\ \A s : s \in Elements(Select(q, P)) <=> \E p \in DOMAIN q : p \in P /\ q[p] = s
  BY <1>2, <1>7, SelectDistinct
<1>9. ASSUME NEW s, s \in Elements(q) PROVE \E p \in DOMAIN q : q[p] = s /\ \A j \in 1..p - 1 : q[j] # s
  <2> DEFINE M == {p \in DOMAIN q : q[p] = s}
  <2>1. M # {} /\ M \subseteq Nat
    BY <1>4, <1>9 DEF Elements
  <2>2. \A p : p \in M <=> p \in DOMAIN q /\ q[p] = s
    OBVIOUS
  <2> HIDE DEF M
  <2>3. PICK p \in M : \A r \in M : p <= r
    BY <2>1, LeastNumber
  <2>4. p \in 1..Len(q) /\ q[p] = s
    BY <1>4, <2>2, <2>3
  <2>5. ASSUME NEW j \in 1..p - 1, q[j] = s PROVE FALSE
    <3>1. j \in 1..Len(q) /\ j < p
      BY <1>4, <2>4
    <3>2. j \in M
      BY <1>4, <2>2, <2>5, <3>1
    <3> QED
      BY <2>3, <2>4, <3>1, <3>2
  <2> QED
    BY <1>4, <2>4, <2>5
<1>10. ASSUME NEW s PROVE (\E p \in DOMAIN q : p \in P /\ q[p] = s) <=> NamedAt(tree, s, i)
  <2>1. ASSUME NEW p \in DOMAIN q, p \in P, q[p] = s PROVE NamedAt(tree, s, i)
    <3>1. s \in Elements(q)
      BY <2>1 DEF Elements
    <3> QED
      BY <1>5, <1>6, <2>1, <3>1 DEF NamedAt
  <2>2. ASSUME NamedAt(tree, s, i) PROVE \E p \in DOMAIN q : p \in P /\ q[p] = s
    <3>1. PICK p \in DOMAIN q : q[p] = s /\ \A j \in 1..p - 1 : q[j] # s
      BY <1>5, <1>9, <2>2 DEF NamedAt
    <3> QED
      BY <1>6, <2>2, <3>1 DEF NamedAt
  <2> QED
    BY <2>1, <2>2
<1> QED
  BY <1>1, <1>8, <1>10

\* A tree with what is missing of it at one place, and an article's place in it.
Mended(R, o, tree) ==
    /\ \A i \in DOMAIN tree : i \in DOMAIN R
    /\ \A i \in DOMAIN R :
         /\ Distinct(R[i].slugs)
         /\ \A s : s \in Elements(R[i].slugs) <=> NamedAt(tree, s, i) \/ (i = o /\ Missing(tree, s))
    /\ \A s : Missing(tree, s) => o \in DOMAIN R
    /\ \A i, j \in DOMAIN R : R[i].id = R[j].id => i = j

Shelved(R, tree) ==
    /\ \A s \in T!Articles :
         \E i \in DOMAIN R : \E p \in DOMAIN R[i].slugs :
           /\ R[i].slugs[p] = s
           /\ \A j \in DOMAIN R : \A r \in DOMAIN R[j].slugs :
                R[j].slugs[r] = s => j = i /\ r = p
           /\ \A j \in DOMAIN tree : s \in Elements(tree[j].slugs) =>
                i \in DOMAIN tree /\ s \in Elements(tree[i].slugs) /\ i <= j
    /\ \A i \in DOMAIN R :
         /\ Elements(R[i].slugs) \subseteq T!Articles
         /\ \A j \in DOMAIN R : R[i].id = R[j].id => i = j

LEMMA MendedShelves ==
  ASSUME NEW tree, T!IsTree(tree), T!Valid(tree), NEW R, NEW o, Mended(R, o, tree)
  PROVE  Shelved(R, tree)
<1>1. DOMAIN tree = 1..Len(tree) /\ Len(tree) \in Nat
  <2>1. tree \in Seq(Elements(tree))
    BY DraftLists DEF T!IsTree, IsList
  <2> QED
    BY <2>1
<1>2. \A i \in DOMAIN tree : Elements(tree[i].slugs) \subseteq T!Articles
  BY DraftLists DEF T!Valid
<1>3. ASSUME NEW s \in T!Articles, ~Missing(tree, s) PROVE \E i \in DOMAIN tree : NamedAt(tree, s, i)
  <2> DEFINE M == {j \in DOMAIN tree : s \in Elements(tree[j].slugs)}
  <2>1. M # {} /\ M \subseteq Nat
    BY <1>1, <1>3 DEF Missing
  <2>2. \A p : p \in M <=> p \in DOMAIN tree /\ s \in Elements(tree[p].slugs)
    OBVIOUS
  <2> HIDE DEF M
  <2>3. PICK i \in M : \A r \in M : i <= r
    BY <2>1, LeastNumber
  <2>4. i \in 1..Len(tree) /\ s \in Elements(tree[i].slugs)
    BY <1>1, <2>2, <2>3
  <2>5. ASSUME NEW j \in 1..i - 1, s \in Elements(tree[j].slugs) PROVE FALSE
    <3>1. j \in 1..Len(tree) /\ j < i
      BY <1>1, <2>4
    <3>2. j \in M
      BY <1>1, <2>2, <2>5, <3>1
    <3> QED
      BY <2>3, <2>4, <3>1, <3>2
  <2> QED
    BY <1>1, <2>4, <2>5 DEF NamedAt
<1>4. ASSUME NEW s, NEW i, NEW j, NamedAt(tree, s, i), NamedAt(tree, s, j) PROVE i = j
  <2>1. i \in 1..Len(tree) /\ j \in 1..Len(tree)
    BY <1>1, <1>4 DEF NamedAt
  <2>2. ~(i < j)
    <3> SUFFICES ASSUME i < j PROVE FALSE
      OBVIOUS
    <3>1. i \in 1..j - 1
      BY <1>1, <2>1
    <3> QED
      BY <1>4, <3>1 DEF NamedAt
  <2>3. ~(j < i)
    <3> SUFFICES ASSUME j < i PROVE FALSE
      OBVIOUS
    <3>1. j \in 1..i - 1
      BY <1>1, <2>1
    <3> QED
      BY <1>4, <3>1 DEF NamedAt
  <2> QED
    BY <1>1, <2>1, <2>2, <2>3
<1>5. ASSUME NEW i \in DOMAIN R, NEW j \in DOMAIN R, NEW s,
             s \in Elements(R[i].slugs), s \in Elements(R[j].slugs)
      PROVE  i = j
  BY <1>4, <1>5 DEF Mended, NamedAt, Missing
<1>6. ASSUME NEW s \in T!Articles
      PROVE  \E i \in DOMAIN R : /\ s \in Elements(R[i].slugs)
                                 /\ \A j \in DOMAIN tree : s \in Elements(tree[j].slugs) =>
                                      i \in DOMAIN tree /\ s \in Elements(tree[i].slugs) /\ i <= j
  <2>1. CASE Missing(tree, s)
    BY <2>1 DEF Mended, Missing
  <2>2. CASE ~Missing(tree, s)
    <3>1. PICK i \in DOMAIN tree : NamedAt(tree, s, i)
      BY <1>3, <2>2
    <3>2. ASSUME NEW j \in DOMAIN tree, s \in Elements(tree[j].slugs) PROVE i <= j
      <4> SUFFICES ASSUME ~(i <= j) PROVE FALSE
        OBVIOUS
      <4>1. j \in 1..i - 1
        BY <1>1
      <4> QED
        BY <3>1, <3>2, <4>1 DEF NamedAt
    <3> QED
      BY <3>1, <3>2 DEF Mended, NamedAt
  <2> QED
    BY <2>1, <2>2
<1>7. ASSUME NEW s \in T!Articles
      PROVE  \E i \in DOMAIN R : \E p \in DOMAIN R[i].slugs :
               /\ R[i].slugs[p] = s
               /\ \A j \in DOMAIN R : \A r \in DOMAIN R[j].slugs :
                    R[j].slugs[r] = s => j = i /\ r = p
               /\ \A j \in DOMAIN tree : s \in Elements(tree[j].slugs) =>
                    i \in DOMAIN tree /\ s \in Elements(tree[i].slugs) /\ i <= j
  <2>1. PICK i \in DOMAIN R :
               /\ s \in Elements(R[i].slugs)
               /\ \A j \in DOMAIN tree : s \in Elements(tree[j].slugs) =>
                    i \in DOMAIN tree /\ s \in Elements(tree[i].slugs) /\ i <= j
    BY <1>6
  <2>2. PICK p \in DOMAIN R[i].slugs : R[i].slugs[p] = s
    BY <2>1 DEF Elements
  <2>3. ASSUME NEW j \in DOMAIN R, NEW r \in DOMAIN R[j].slugs, R[j].slugs[r] = s
        PROVE  j = i /\ r = p
    <3>1. s \in Elements(R[j].slugs)
      BY <2>3 DEF Elements
    <3>2. j = i
      BY <1>5, <2>1, <3>1
    <3>3. Distinct(R[i].slugs)
      BY DEF Mended
    <3> QED
      BY <2>2, <2>3, <3>2, <3>3 DEF Distinct
  <2> QED
    BY <2>1, <2>2, <2>3
<1>8. \A i \in DOMAIN R : Elements(R[i].slugs) \subseteq T!Articles
  BY <1>2 DEF Mended, NamedAt, Missing
<1> QED
  BY <1>7, <1>8 DEF Shelved, Mended

\* What normalize_tree returns is the tree with what it left out.
LEMMA NormalizedIs ==
  ASSUME T!Assumptions, NEW tree, T!IsTree(tree), T!Normalized(tree) # None
  PROVE  Shelved(T!Normalized(tree), tree)
<1> DEFINE visited == [i \in DOMAIN tree |-> [tree[i] EXCEPT !.slugs = T!FirstNamed(tree, i)]]
           missing == T!InOrder(Filing, T!Articles \ T!FiledIn(tree, Len(tree)))
           others  == {i \in DOMAIN tree : tree[i].id = Other}
           i0      == CHOOSE i \in others : TRUE
           R       == T!Normalized(tree)
<1>1. tree \in Seq(Elements(tree)) /\ IsList(tree)
  BY DraftLists DEF T!IsTree, IsList
<1>2. DOMAIN tree = 1..Len(tree) /\ Len(tree) \in Nat
  BY <1>1
<1>3. R = IF ~T!Valid(tree) THEN None
          ELSE IF missing = <<>> THEN visited
          ELSE IF others = {} THEN Append(visited, [id |-> Other, depth |-> 0, slugs |-> missing])
          ELSE IF visited[i0].depth = 0 THEN [visited EXCEPT ![i0].slugs = @ \o missing] ELSE None
  BY DEF T!Normalized
<1>4. /\ DOMAIN visited = DOMAIN tree
      /\ \A i \in DOMAIN tree : /\ visited[i].slugs = T!FirstNamed(tree, i)
                                /\ visited[i].id = tree[i].id
                                /\ DOMAIN visited[i] = {"id", "depth", "slugs"}
  BY DEF T!IsTree
<1>5. visited \in Seq({visited[i] : i \in DOMAIN tree})
  BY <1>2
<1>6. i0 \in others <=> others # {}
  OBVIOUS
<1>7. \A i : i \in others <=> i \in DOMAIN tree /\ tree[i].id = Other
  OBVIOUS
<1>8. /\ IsList(missing) /\ Distinct(missing)
      /\ \A s : s \in Elements(missing) <=> Missing(tree, s)
  <2> DEFINE gone == T!Articles \ T!FiledIn(tree, Len(tree))
  <2>1. Filing \in Seq(Elements(Filing)) /\ Firsts(Filing) = DOMAIN Filing
    BY DraftLists DEF T!Assumptions, IsList
  <2>2. Distinct(Filing)
    <3>1. DOMAIN Filing = 1..Len(Filing) /\ Len(Filing) \in Nat
      BY <2>1
    <3>2. \A i \in DOMAIN Filing : \A j \in 1..i - 1 : Filing[j] # Filing[i]
      BY <2>1 DEF Firsts
    <3>3. ASSUME NEW i \in DOMAIN Filing, NEW j \in DOMAIN Filing, i < j PROVE Filing[i] # Filing[j]
      <4>1. i \in 1..j - 1
        BY <3>1, <3>3
      <4> QED
        BY <3>2, <4>1
    <3>4. \A i, j \in DOMAIN Filing : i = j \/ i < j \/ j < i
      BY <3>1
    <3> QED
      BY <3>3, <3>4 DEF Distinct
  <2>3. missing = InOrder(Filing, gone)
    BY DraftLists
  <2>4. \A s : s \in gone <=> Missing(tree, s)
    BY <1>2, FiledInIs DEF Missing
  <2>5. T!Articles = Elements(Filing)
    BY DraftLists DEF T!Articles
  <2> HIDE DEF gone, missing
  <2>6. missing \in Seq(Elements(Filing)) /\ Elements(missing) = Elements(Filing) \cap gone
    BY <2>1, <2>3, InOrderIs
  <2>7. Distinct(missing)
    BY <2>1, <2>2, <2>3, InOrderDistinct
  <2> QED
    BY <2>4, <2>5, <2>6, <2>7, Listed DEF Missing
<1> HIDE DEF visited, missing, others, i0, R
<1>9. R # None /\ T!Valid(tree)
  BY <1>3 DEF R
<1>10. \A i \in DOMAIN tree : /\ IsList(visited[i].slugs) /\ Distinct(visited[i].slugs)
                              /\ \A s : s \in Elements(visited[i].slugs) <=> NamedAt(tree, s, i)
  BY <1>4, FirstNamedIs
<1>11. \A i, j \in DOMAIN tree : tree[i].id = tree[j].id => i = j
  <2>1. \A i \in DOMAIN tree : \A j \in 1..i - 1 : tree[j].id # tree[i].id
    BY <1>9 DEF T!Valid
  <2>2. ASSUME NEW i \in DOMAIN tree, NEW j \in DOMAIN tree, i < j PROVE tree[i].id # tree[j].id
    <3>1. i \in 1..j - 1
      BY <1>2, <2>2
    <3> QED
      BY <2>1, <3>1
  <2>3. \A i, j \in DOMAIN tree : i = j \/ i < j \/ j < i
    BY <1>2
  <2> QED
    BY <2>2, <2>3
<1>12. \A i, s : NamedAt(tree, s, i) => i \in DOMAIN tree
  BY DEF NamedAt
<1>13. ASSUME NEW i \in DOMAIN tree
       PROVE  /\ IsList(visited[i].slugs \o missing) /\ Distinct(visited[i].slugs \o missing)
              /\ \A s : s \in Elements(visited[i].slugs \o missing)
                          <=> NamedAt(tree, s, i) \/ Missing(tree, s)
  <2> DEFINE a == visited[i].slugs
             y == a \o missing
  <2>1. /\ IsList(y) /\ Elements(y) = Elements(a) \cup Elements(missing)
        /\ Len(y) = Len(a) + Len(missing) /\ Len(a) \in Nat /\ Len(missing) \in Nat
        /\ DOMAIN a = 1..Len(a) /\ DOMAIN missing = 1..Len(missing)
        /\ \A k1 \in 1..Len(a) : y[k1] = a[k1]
        /\ \A k1 \in 1..Len(missing) : y[Len(a) + k1] = missing[k1]
    <3>1. IsList(a) /\ IsList(missing)
      BY <1>8, <1>10
    <3> HIDE DEF a
    <3> QED
      BY <3>1, InARow
  <2>2. Distinct(a) /\ \A s : s \in Elements(a) <=> NamedAt(tree, s, i)
    BY <1>10
  <2> HIDE DEF a, y
  <2>3. DOMAIN y = 1..Len(y)
    BY <2>1 DEF IsList
  <2>4. \A s : ~(s \in Elements(a) /\ s \in Elements(missing))
    BY <1>8, <2>2 DEF NamedAt, Missing
  <2>5. \A k1 \in DOMAIN y : \/ k1 \in 1..Len(a) /\ y[k1] = a[k1]
                             \/ \E m \in 1..Len(missing) : k1 = Len(a) + m /\ y[k1] = missing[m]
    <3> SUFFICES ASSUME NEW k1 \in DOMAIN y, k1 \notin 1..Len(a)
                 PROVE  \E m \in 1..Len(missing) : k1 = Len(a) + m /\ y[k1] = missing[m]
      BY <2>1
    <3>1. k1 - Len(a) \in 1..Len(missing) /\ k1 = Len(a) + (k1 - Len(a))
      BY <2>1, <2>3
    <3> QED
      BY <2>1, <3>1
  <2>6. ASSUME NEW k1 \in DOMAIN y, NEW k2 \in DOMAIN y, y[k1] = y[k2] PROVE k1 = k2
    <3>1. CASE k1 \in 1..Len(a) /\ y[k1] = a[k1] /\ k2 \in 1..Len(a) /\ y[k2] = a[k2]
      BY <2>1, <2>2, <2>6, <3>1 DEF Distinct
    <3>2. CASE \E m1, m2 \in 1..Len(missing) : /\ k1 = Len(a) + m1 /\ y[k1] = missing[m1]
                                              /\ k2 = Len(a) + m2 /\ y[k2] = missing[m2]
      BY <1>8, <2>1, <2>6, <3>2 DEF Distinct
    <3>3. CASE /\ k1 \in 1..Len(a) /\ y[k1] = a[k1]
               /\ \E m \in 1..Len(missing) : k2 = Len(a) + m /\ y[k2] = missing[m]
      BY <2>1, <2>4, <2>6, <3>3 DEF Elements
    <3>4. CASE /\ k2 \in 1..Len(a) /\ y[k2] = a[k2]
               /\ \E m \in 1..Len(missing) : k1 = Len(a) + m /\ y[k1] = missing[m]
      BY <2>1, <2>4, <2>6, <3>4 DEF Elements
    <3> QED
      BY <2>5, <3>1, <3>2, <3>3, <3>4
  <2>7. Distinct(y)
    BY <2>6 DEF Distinct
  <2>8. \A s : s \in Elements(y) <=> NamedAt(tree, s, i) \/ Missing(tree, s)
    BY <1>8, <2>1, <2>2
  <2> QED
    BY <2>1, <2>7, <2>8 DEF y, a
<1>14. CASE missing = <<>>
  <2>1. R = visited
    BY <1>3, <1>9, <1>14
  <2>2. \A s : ~Missing(tree, s)
    BY <1>8, <1>14 DEF Elements
  <2>3. Mended(R, 0, tree)
    BY <1>4, <1>10, <1>11, <2>1, <2>2 DEF Mended
  <2> QED
    BY <1>9, <2>3, MendedShelves DEF R
<1>15. CASE missing # <<>> /\ others = {}
  <2> DEFINE o    == Len(tree) + 1
             last == [id |-> Other, depth |-> 0, slugs |-> missing]
  <2>1. R = Append(visited, last)
    BY <1>3, <1>9, <1>15
  <2>2. /\ DOMAIN R = 1..o /\ R[o] = last /\ \A i \in DOMAIN tree : R[i] = visited[i]
    <3>1. Len(visited) = Len(tree)
      BY <1>2, <1>4, <1>5
    <3>2. R = [i \in 1..(Len(visited) + 1) |-> IF i = Len(visited) + 1 THEN last ELSE visited[i]]
      BY <1>5, <2>1
    <3> HIDE DEF last
    <3> QED
      BY <1>2, <3>1, <3>2
  <2>3. last.id = Other /\ last.slugs = missing /\ o \notin DOMAIN tree
    BY <1>2
  <2>4. \A i : i \in DOMAIN R <=> i \in DOMAIN tree \/ i = o
    BY <1>2, <2>2
  <2> HIDE DEF o, last
  <2>5. \A i \in DOMAIN tree : R[i].id # Other
    BY <1>4, <1>7, <1>15, <2>2
  <2>6. \A i, j \in DOMAIN R : R[i].id = R[j].id => i = j
    BY <1>4, <1>11, <2>2, <2>3, <2>4, <2>5
  <2>7. ASSUME NEW i \in DOMAIN R
        PROVE  /\ Distinct(R[i].slugs)
               /\ \A s : s \in Elements(R[i].slugs) <=> NamedAt(tree, s, i) \/ (i = o /\ Missing(tree, s))
    <3>1. CASE i = o
      BY <1>8, <1>12, <2>2, <2>3, <3>1
    <3>2. CASE i \in DOMAIN tree
      BY <1>10, <2>2, <2>3, <3>2
    <3> QED
      BY <2>4, <3>1, <3>2
  <2>8. Mended(R, o, tree)
    BY <2>4, <2>6, <2>7 DEF Mended
  <2> QED
    BY <1>9, <2>8, MendedShelves DEF R
<1>16. CASE missing # <<>> /\ others # {}
  <2>1. R = [visited EXCEPT ![i0].slugs = @ \o missing] /\ i0 \in DOMAIN tree
    BY <1>3, <1>6, <1>7, <1>9, <1>16
  <2>2. /\ DOMAIN R = DOMAIN tree /\ R[i0].slugs = visited[i0].slugs \o missing
        /\ R[i0].id = visited[i0].id /\ \A i \in DOMAIN tree : i # i0 => R[i] = visited[i]
    BY <1>4, <2>1
  <2>3. \A i, j \in DOMAIN R : R[i].id = R[j].id => i = j
    BY <1>4, <1>11, <2>1, <2>2
  <2>4. ASSUME NEW i \in DOMAIN R
        PROVE  /\ Distinct(R[i].slugs)
               /\ \A s : s \in Elements(R[i].slugs) <=> NamedAt(tree, s, i) \/ (i = i0 /\ Missing(tree, s))
    <3>1. CASE i = i0
      BY <1>13, <2>1, <2>2, <3>1
    <3>2. CASE i # i0
      BY <1>10, <2>2, <3>2
    <3> QED
      BY <3>1, <3>2
  <2>5. Mended(R, i0, tree)
    BY <2>1, <2>2, <2>3, <2>4 DEF Mended
  <2> QED
    BY <1>9, <2>5, MendedShelves DEF R
<1> QED
  BY <1>14, <1>15, <1>16

\* The tree made of the tags is a tree.
LEMMA FallbackIs ==
  ASSUME T!Assumptions, NEW texts PROVE T!IsTree(T!Fallback(texts))
<1> DEFINE firsts == [i \in DOMAIN Filing |-> T!FirstTag(texts[Filing[i]].tags)]
           groups == Select(firsts, Firsts(firsts))
           slugs(i) == Select(Filing, {p \in DOMAIN Filing : firsts[p] = groups[i]})
           r == [i \in DOMAIN groups |-> [id |-> TagIds[i], depth |-> 0, slugs |-> slugs(i)]]
<1>1. T!Fallback(texts) = r
  <2>1. groups = T!Select(firsts, T!Firsts(firsts))
    BY DraftLists
  <2>2. \A i : slugs(i) = T!Select(Filing, {p \in DOMAIN Filing : firsts[p] = groups[i]})
    BY DraftLists
  <2> QED
    BY <2>1, <2>2 DEF T!Fallback
<1>2. Filing \in Seq(Elements(Filing))
  BY DraftLists DEF T!Assumptions, IsList
<1>3. DOMAIN Filing = 1..Len(Filing) /\ Len(Filing) \in Nat
  BY <1>2
<1>4. firsts \in Seq({firsts[i] : i \in DOMAIN Filing})
  BY <1>3
<1>5. \A i : IsList(slugs(i))
  BY <1>2, SelectIs, Listed
<1> HIDE DEF firsts, slugs
<1>6. groups \in Seq({firsts[i] : i \in DOMAIN Filing})
  BY <1>4, SelectIs
<1> HIDE DEF groups
<1>7. DOMAIN groups = 1..Len(groups) /\ Len(groups) \in Nat
  BY <1>6
<1>8. r \in Seq({r[i] : i \in DOMAIN groups})
  BY <1>7
<1>9. \A i \in DOMAIN r : DOMAIN r[i] = {"id", "depth", "slugs"} /\ r[i].slugs = slugs(i)
  OBVIOUS
<1> HIDE DEF r
<1> QED
  BY <1>1, <1>5, <1>8, <1>9, Listed, DraftLists DEF T!IsTree

-----------------------------------------------------------------------------
(* Batches.                                                                *)

LEMMA LeastIs ==
  ASSUME NEW S, S \subseteq Nat, S # {}
  PROVE  T!Least(S) \in S /\ \A m \in S : T!Least(S) <= m
<1>1. \E n \in S : \A m \in S : n <= m
  BY LeastNumber
<1> QED
  BY <1>1 DEF T!Least

LEMMA GreatestIs ==
  ASSUME NEW n \in Nat, NEW S, S \subseteq 1..n, S # {}
  PROVE  T!Greatest(S) \in S /\ \A m \in S : m <= T!Greatest(S)
<1>1. \E x \in S : \A m \in S : m <= x
  BY GreatestNumber
<1> QED
  BY <1>1 DEF T!Greatest

LEMMA LastOfIs ==
  ASSUME T!Assumptions, NEW size, NEW first \in 1..Len(Filing), Len(Filing) \in Nat
  PROVE  /\ T!LastOf(size, first) \in first..Len(Filing)
         /\ T!LastOf(size, first) - first < BatchSize
<1> DEFINE pair == {first + BatchSize - 1, Len(Filing)}
           most == T!Least(pair)
           S    == {e \in first..most : e = first \/ T!Prompt(size, first, e) <= MaxPrompt}
<1>1. BatchSize \in Nat /\ BatchSize >= 1
  BY DEF T!Assumptions
<1>2. pair \subseteq Nat /\ pair # {} /\ \A x \in pair : x >= first
  BY <1>1
<1>3. most \in pair /\ \A x \in pair : most <= x
  BY <1>2, LeastIs
<1>4. first + BatchSize - 1 \in pair /\ Len(Filing) \in pair
  OBVIOUS
<1> HIDE DEF pair, most
<1>5. most \in Nat /\ first <= most /\ most <= Len(Filing) /\ most <= first + BatchSize - 1
  BY <1>2, <1>3, <1>4
<1>6. first \in S /\ S \subseteq first..most
  BY <1>5
<1>7. T!LastOf(size, first) = T!Greatest(S)
  BY DEF T!LastOf, most, pair
<1> HIDE DEF S
<1>8. S \subseteq 1..most /\ S # {}
  BY <1>5, <1>6
<1>9. T!Greatest(S) \in S
  BY <1>5, <1>8, GreatestIs
<1>10. T!Greatest(S) \in first..most
  BY <1>6, <1>9
<1> QED
  BY <1>1, <1>5, <1>7, <1>10

NextOf(b) == IF b = <<>> THEN 1 ELSE b[Len(b)][2] + 1

\* Batches that follow each other and go beyond the n-th article.
Follow(b) ==
    /\ b # <<>> => b[1][1] = 1
    /\ \A i \in 1..Len(b) : /\ b[i][1] <= b[i][2] /\ b[i][2] - b[i][1] < BatchSize
                            /\ i > 1 => b[i][1] = b[i - 1][2] + 1
Laid(b, n) == Follow(b) /\ NextOf(b) \in 1..Len(Filing) + 1 /\ n < NextOf(b)

LEMMA LaidNext ==
  ASSUME NEW b \in Seq(Nat \X Nat), NEW n \in 1..Len(Filing), Len(Filing) \in Nat, Laid(b, n - 1),
         NextOf(b) <= Len(Filing), NEW e \in NextOf(b)..Len(Filing), e - NextOf(b) < BatchSize
  PROVE  Append(b, <<NextOf(b), e>>) \in Seq(Nat \X Nat) /\ Laid(Append(b, <<NextOf(b), e>>), n)
<1> DEFINE s == NextOf(b)
           x == <<s, e>>
           c == Append(b, x)
           m == Len(b)
<1>1. s \in 1..Len(Filing) /\ n - 1 < s /\ Follow(b)
  BY DEF Laid
<1>2. x \in Nat \X Nat /\ x[1] = s /\ x[2] = e /\ e \in Nat
  BY <1>1
<1>s. b # <<>> => s = b[m][2] + 1
  BY DEF NextOf
<1>e. b = <<>> => s = 1
  BY DEF NextOf
<1>h. s <= e /\ e <= Len(Filing) /\ e - s < BatchSize /\ s \in Nat
  BY <1>1, <1>2
<1> HIDE DEF s, x
<1>3. /\ m \in Nat /\ c \in Seq(Nat \X Nat) /\ Len(c) = m + 1 /\ c[m + 1] = x
      /\ \A i \in 1..m : c[i] = b[i]
  BY <1>2
<1>4. b = <<>> <=> m = 0
  OBVIOUS
<1> HIDE DEF c, m
<1>5. ASSUME NEW i \in 1..m+1
      PROVE  /\ c[i][1] <= c[i][2] /\ c[i][2] - c[i][1] < BatchSize
             /\ i > 1 => c[i][1] = c[i - 1][2] + 1
  <2>1. CASE i = m + 1
    <3>1. c[i][1] = s /\ c[i][2] = e
      BY <1>2, <1>3, <2>1
    <3>2. i > 1 => b # <<>> /\ m \in 1..m /\ i - 1 = m
      BY <1>3, <1>4, <2>1
    <3> QED
      BY <1>3, <1>h, <1>s, <3>1, <3>2
  <2>2. CASE i \in 1..m
    <3>1. i > 1 => i - 1 \in 1..m
      BY <1>3, <2>2
    <3>2. /\ b[i][1] <= b[i][2] /\ b[i][2] - b[i][1] < BatchSize
          /\ i > 1 => b[i][1] = b[i - 1][2] + 1
      BY <1>1, <2>2 DEF Follow, m
    <3> QED
      BY <1>3, <2>2, <3>1, <3>2
  <2> QED
    BY <1>3, <2>1, <2>2
<1>6. c[1][1] = 1
  <2>1. CASE m = 0
    BY <1>2, <1>3, <1>4, <1>e, <2>1
  <2>2. CASE m # 0
    <3>1. b[1][1] = 1
      BY <1>1, <1>4, <2>2 DEF Follow
    <3>2. c[1] = b[1]
      BY <1>3, <2>2
    <3> QED
      BY <3>1, <3>2
  <2> QED
    BY <2>1, <2>2
<1>7. Follow(c)
  BY <1>3, <1>5, <1>6 DEF Follow
<1>8. NextOf(c) = e + 1
  <2>1. c # <<>>
    BY <1>3
  <2> QED
    BY <1>2, <1>3, <2>1 DEF NextOf
<1>9. Laid(c, n)
  BY <1>1, <1>2, <1>7, <1>8, <1>h DEF Laid
<1> QED
  BY <1>3, <1>9 DEF c, x, s

LEMMA BatchesAre ==
  ASSUME T!Assumptions, NEW size, T!Batches(size) # None
  PROVE  T!Batches(size) \in Seq(Nat \X Nat) /\ Laid(T!Batches(size), Len(Filing))
<1> DEFINE N == Len(Filing)
           X == Seq(Nat \X Nat)
           P == [n \in 0..N |-> {b \in X : Laid(b, n)}]
           nil == <<>>
           step(n, b) == IF NextOf(b) > N THEN b
                         ELSE Append(b, <<NextOf(b), T!LastOf(size, NextOf(b))>>)
           g == [n \in 1..N |-> [b \in X |-> step(n, b)]]
<1>1. N \in Nat
  <2>1. Filing \in Seq(Elements(Filing))
    BY DraftLists DEF T!Assumptions, IsList
  <2> QED
    BY <2>1
<1>2. nil \in P[0]
  <2>1. nil \in X /\ NextOf(nil) = 1 /\ Len(nil) = 0
    BY DEF NextOf
  <2>2. Laid(nil, 0)
    BY <1>1, <2>1 DEF Laid, Follow
  <2> QED
    BY <1>1, <2>1, <2>2
<1>3. \A n \in 1..N : \A b \in P[n - 1] : g[n][b] = step(n, b) /\ step(n, b) \in P[n]
  <2> SUFFICES ASSUME NEW n \in 1..N, NEW b \in P[n - 1]
               PROVE  g[n][b] = step(n, b) /\ step(n, b) \in P[n]
    OBVIOUS
  <2>1. n - 1 \in 0..N /\ n \in 0..N /\ n \in 1..Len(Filing)
    BY <1>1
  <2>2. b \in X /\ Laid(b, n - 1)
    BY <2>1
  <2>3. step(n, b) \in X /\ Laid(step(n, b), n)
    <3>1. CASE NextOf(b) > N
      <4>1. Laid(b, n)
        BY <1>1, <2>1, <2>2, <3>1 DEF Laid
      <4> QED
        BY <2>2, <3>1, <4>1
    <3>2. CASE ~(NextOf(b) > N)
      <4>1. NextOf(b) \in 1..Len(Filing) /\ NextOf(b) <= Len(Filing)
        BY <1>1, <2>2, <3>2 DEF Laid
      <4>2. /\ T!LastOf(size, NextOf(b)) \in NextOf(b)..Len(Filing)
            /\ T!LastOf(size, NextOf(b)) - NextOf(b) < BatchSize
        BY <1>1, <4>1, LastOfIs
      <4>3. /\ Append(b, <<NextOf(b), T!LastOf(size, NextOf(b))>>) \in Seq(Nat \X Nat)
            /\ Laid(Append(b, <<NextOf(b), T!LastOf(size, NextOf(b))>>), n)
        BY <1>1, <2>1, <2>2, <4>1, <4>2, LaidNext
      <4> QED
        BY <3>2, <4>3
    <3> QED
      BY <3>1, <3>2
  <2> QED
    BY <2>1, <2>2, <2>3
<1> HIDE DEF N, X, P, nil, step, g
<1>k. \A n \in 1..N : \A b \in P[n - 1] : g[n][b] \in P[n]
  BY <1>3
<1>4. PICK f : Keeps(f, P, nil, N, g)
  BY <1>1, <1>2, <1>k, LoopKept
<1>5. \A n \in 0..N : f[n] = (IF n = 0 THEN nil ELSE step(n, f[n - 1]))
  <2>1. \A n \in 1..N : n - 1 \in 0..N
    BY <1>1
  <2>2. \A n \in 0..N : n # 0 => n \in 1..N
    BY <1>1
  <2> QED
    BY <1>3, <1>4, <2>1, <2>2 DEF Keeps
<1>6. f = [n \in 0..N |-> IF n = 0 THEN nil ELSE step(n, f[n - 1])]
  BY <1>4, <1>5 DEF Keeps
<1> DEFINE start(b) == IF b = <<>> THEN 1 ELSE b[Len(b)][2] + 1
<1>7. f = [n \in 0..Len(Filing) |->
             IF n = 0 THEN <<>>
             ELSE IF start(f[n - 1]) > Len(Filing) THEN f[n - 1]
             ELSE Append(f[n - 1], <<start(f[n - 1]), T!LastOf(size, start(f[n - 1]))>>)]
  BY <1>6 DEF nil, step, N, NextOf
<1> DEFINE upto[n \in 0..Len(Filing)] ==
             IF n = 0 THEN <<>>
             ELSE IF start(upto[n - 1]) > Len(Filing) THEN upto[n - 1]
             ELSE Append(upto[n - 1], <<start(upto[n - 1]), T!LastOf(size, start(upto[n - 1]))>>)
<1>8. upto = [n \in 0..Len(Filing) |->
             IF n = 0 THEN <<>>
             ELSE IF start(upto[n - 1]) > Len(Filing) THEN upto[n - 1]
             ELSE Append(upto[n - 1], <<start(upto[n - 1]), T!LastOf(size, start(upto[n - 1]))>>)]
  BY <1>7
<1> DEFINE all == upto[Len(Filing)]
<1>9. T!Batches(size) = IF \A i \in DOMAIN all : T!Prompt(size, all[i][1], all[i][2]) <= MaxPrompt
                          THEN all ELSE None
  BY DEF T!Batches
<1> HIDE DEF upto
<1>10. T!Batches(size) = upto[N]
  BY <1>9 DEF N
<1>11. upto = [n \in 0..N |-> IF n = 0 THEN nil ELSE step(n, upto[n - 1])]
  BY <1>8 DEF nil, step, N, NextOf
<1>12. upto[0] = nil /\ \A n \in 1..N : upto[n] = step(n, upto[n - 1])
  BY <1>11, <1>1
<1> DEFINE U == {n \in Nat : n <= N => upto[n] \in P[n]}
<1>13. 0 \in U
  BY <1>1, <1>2, <1>12
<1>14. ASSUME NEW n \in Nat, n \in U, n + 1 <= N PROVE upto[n + 1] \in P[n + 1]
  <2>1. n + 1 \in 1..N /\ (n + 1) - 1 = n /\ n <= N
    BY <1>1, <1>14
  <2>2. upto[n] \in P[n]
    BY <1>14, <2>1
  <2> QED
    BY <1>3, <1>12, <2>1, <2>2
<1>15. \A n \in Nat : n \in U => n + 1 \in U
  BY <1>14
<1> HIDE DEF U
<1>16. N \in U
  BY <1>1, <1>13, <1>15, Induction
<1>17. upto[N] \in P[N]
  BY <1>1, <1>16 DEF U
<1> QED
  BY <1>1, <1>10, <1>17 DEF P, N, X

\* What batches lays out covers the articles.
LEMMA BatchesCovered ==
  ASSUME T!Assumptions, NEW size, T!Batches(size) # None, batches' = T!Batches(size)
  PROVE  T!BatchesCover'
<1> DEFINE b == T!Batches(size)
<1>1. b \in Seq(Nat \X Nat) /\ Laid(b, Len(Filing)) /\ b = batches'
  BY BatchesAre
<1>2. Filing \in Seq(Elements(Filing))
  BY DraftLists DEF T!Assumptions, IsList
<1> HIDE DEF b
<1>3. /\ Follow(b) /\ NextOf(b) \in 1..Len(Filing) + 1 /\ Len(Filing) < NextOf(b)
      /\ Len(Filing) \in Nat /\ DOMAIN b = 1..Len(b)
  BY <1>1, <1>2 DEF Laid
<1>4. ASSUME b # <<>> PROVE b[1][1] = 1 /\ b[Len(b)][2] = Len(Filing)
  <2>1. NextOf(b) = b[Len(b)][2] + 1
    BY <1>4 DEF NextOf
  <2>2. Len(b) \in 1..Len(b)
    BY <1>1, <1>4
  <2>3. b[Len(b)][2] \in Nat
    <3>1. b[Len(b)] \in Nat \X Nat
      BY <1>1, <2>2
    <3> QED
      BY <3>1
  <2> QED
    BY <1>3, <1>4, <2>1, <2>3 DEF Follow
<1> QED
  BY <1>1, <1>3, <1>4 DEF T!BatchesCover, Follow

-----------------------------------------------------------------------------
(* Entities that are one: a forest that leads down to the roots.           *)

Forest(p, N) == p \in [1..N -> 1..N] /\ \A i \in 1..N : p[i] <= i

\* The way from i up to its root.
Climbs(u, p, i) == /\ u[0] = i /\ T!Root(p, i) = u[i]
                   /\ \A n \in 1..i : u[n] = p[u[n - 1]]
                   /\ \A n \in 0..i : u[n] \in 1..i

LEMMA Climb ==
  ASSUME NEW N \in Nat, NEW p, Forest(p, N), NEW i \in 1..N PROVE \E u : Climbs(u, p, i)
<1> DEFINE X == 1..i
           step(x) == p[x]
           g == [n \in 1..i |-> [x \in X |-> step(x)]]
<1>1. i \in Nat /\ i \in X
  OBVIOUS
<1>2. \A x \in X : step(x) \in X
  <2> SUFFICES ASSUME NEW x \in X PROVE step(x) \in X
    OBVIOUS
  <2>1. x \in 1..N /\ p[x] \in 1..N /\ p[x] <= x
    BY DEF Forest
  <2> QED
    BY <2>1
<1>3. g \in [1..i -> [X -> X]] /\ \A n \in 1..i : \A x \in X : g[n][x] = step(x)
  BY <1>2
<1> HIDE DEF X, step, g
<1>4. PICK f : Loops(f, X, i, i, g)
  BY <1>1, <1>3, Loop
<1>5. /\ f = [n \in 0..i |-> f[n]] /\ f[0] = i
      /\ \A n \in 1..i : f[n - 1] \in X /\ f[n] = step(f[n - 1])
      /\ \A n \in 0..i : f[n] \in X
  BY <1>3, <1>4 DEF Loops
<1>6. \A n \in 0..i : n # 0 => n \in 1..i
  BY <1>1
<1>7. f = [n \in 0..i |-> IF n = 0 THEN i ELSE p[f[n - 1]]]
  BY <1>5, <1>6 DEF step
<1> DEFINE up[n \in 0..i] == IF n = 0 THEN i ELSE p[up[n - 1]]
<1>8. up = [n \in 0..i |-> IF n = 0 THEN i ELSE p[up[n - 1]]]
  BY <1>7
<1>9. T!Root(p, i) = up[i]
  BY DEF T!Root
<1> HIDE DEF up
<1>10. up[0] = i /\ \A n \in 1..i : up[n] = p[up[n - 1]]
  BY <1>8, <1>1
<1> DEFINE U == {n \in Nat : n <= i => up[n] \in X}
<1>11. 0 \in U
  BY <1>1, <1>10
<1>12. ASSUME NEW n \in Nat, n \in U, n + 1 <= i PROVE up[n + 1] \in X
  <2>1. n + 1 \in 1..i /\ (n + 1) - 1 = n /\ n <= i
    BY <1>1, <1>12
  <2> QED
    BY <1>2, <1>10, <1>12, <2>1 DEF step
<1>13. \A n \in Nat : n \in U => n + 1 \in U
  BY <1>12
<1> HIDE DEF U
<1>14. Nat \subseteq U
  BY <1>11, <1>13, Induction
<1>15. \A n \in 0..i : up[n] \in X
  BY <1>1, <1>14 DEF U
<1>16. Climbs(up, p, i)
  BY <1>9, <1>10, <1>15 DEF Climbs, X
<1> QED
  BY <1>16

\* What the way comes to is a root, the root of all it passes.
LEMMA RootIs ==
  ASSUME NEW N \in Nat, NEW p, Forest(p, N), NEW i \in 1..N
  PROVE  /\ T!Root(p, i) \in 1..N /\ T!Root(p, i) <= i
         /\ p[T!Root(p, i)] = T!Root(p, i)
         /\ p[i] = i => T!Root(p, i) = i
<1>1. PICK u : Climbs(u, p, i)
  BY Climb
<1>2. /\ u[0] = i /\ T!Root(p, i) = u[i]
      /\ \A n \in 1..i : u[n] = p[u[n - 1]]
      /\ \A n \in 0..i : u[n] \in 1..i /\ p[u[n]] <= u[n]
  <2>1. \A n \in 0..i : u[n] \in 1..i
    BY <1>1 DEF Climbs
  <2>2. \A n \in 0..i : u[n] \in 1..N
    BY <2>1
  <2>3. \A n \in 0..i : p[u[n]] <= u[n]
    BY <2>2 DEF Forest
  <2> QED
    BY <1>1, <2>1, <2>3 DEF Climbs
<1> DEFINE U == {n \in Nat : n <= i => /\ p[u[n]] = u[n] \/ u[n] <= i - n
                                       /\ p[i] = i => u[n] = i}
<1>3. 0 \in U
  BY <1>2
<1>4. ASSUME NEW n \in Nat, n \in U, n + 1 <= i
      PROVE  /\ p[u[n + 1]] = u[n + 1] \/ u[n + 1] <= i - (n + 1)
             /\ p[i] = i => u[n + 1] = i
  <2>1. n + 1 \in 1..i /\ (n + 1) - 1 = n /\ n <= i /\ n \in 0..i /\ n + 1 \in 0..i
    BY <1>4
  <2>2. /\ u[n + 1] = p[u[n]] /\ u[n] \in 1..i /\ u[n + 1] \in 1..i /\ p[u[n]] <= u[n]
        /\ p[u[n]] = u[n] \/ u[n] <= i - n
        /\ p[i] = i => u[n] = i
    BY <1>2, <1>4, <2>1
  <2>3. CASE p[u[n]] = u[n]
    BY <2>2, <2>3
  <2>4. CASE p[u[n]] # u[n]
    BY <2>2, <2>4
  <2> QED
    BY <2>3, <2>4
<1>5. \A n \in Nat : n \in U => n + 1 \in U
  BY <1>4
<1>6. \A n \in U : n <= i => /\ p[u[n]] = u[n] \/ u[n] <= i - n
                             /\ p[i] = i => u[n] = i
  OBVIOUS
<1> HIDE DEF U
<1>7. i \in U /\ i \in 0..i
  BY <1>3, <1>5, Induction
<1>8. /\ p[u[i]] = u[i] \/ u[i] <= i - i
      /\ p[i] = i => u[i] = i
      /\ u[i] \in 1..i
  BY <1>2, <1>6, <1>7
<1> QED
  BY <1>2, <1>8

LEMMA RootOfParent ==
  ASSUME NEW N \in Nat, NEW p, Forest(p, N), NEW i \in 1..N
  PROVE  T!Root(p, p[i]) = T!Root(p, i)
<1>1. CASE p[i] = i
  BY <1>1
<1>2. CASE p[i] # i
  <2> DEFINE j == p[i]
  <2>1. j \in 1..N /\ j < i
    BY <1>2 DEF Forest
  <2>d. j = p[i]
    OBVIOUS
  <2> HIDE DEF j
  <2>2. PICK u : Climbs(u, p, i)
    BY Climb
  <2>3. PICK v : Climbs(v, p, j)
    BY <2>1, Climb
  <2>4. /\ u[0] = i /\ T!Root(p, i) = u[i] /\ \A n \in 1..i : u[n] = p[u[n - 1]]
        /\ v[0] = j /\ T!Root(p, j) = v[j] /\ \A n \in 1..j : v[n] = p[v[n - 1]]
    BY <2>2, <2>3 DEF Climbs
  <2> DEFINE U == {n \in Nat : n <= j => v[n] = u[n + 1]}
  <2>5. 0 \in U
    <3>1. 1 \in 1..i /\ 1 - 1 = 0
      OBVIOUS
    <3>2. u[1] = p[u[0]]
      BY <2>4, <3>1
    <3> QED
      BY <2>4, <2>d, <3>2
  <2>6. ASSUME NEW n \in Nat, n \in U, n + 1 <= j PROVE v[n + 1] = u[(n + 1) + 1]
    <3>1. n + 1 \in 1..j /\ (n + 1) - 1 = n /\ n <= j /\ (n + 1) + 1 \in 1..i /\ ((n + 1) + 1) - 1 = n + 1
      BY <2>1, <2>6
    <3> QED
      BY <2>4, <2>6, <3>1
  <2>7. \A n \in Nat : n \in U => n + 1 \in U
    BY <2>6
  <2>8. \A n \in U : n <= j => v[n] = u[n + 1]
    OBVIOUS
  <2> HIDE DEF U
  <2>9. j \in Nat /\ j \in U
    BY <2>1, <2>5, <2>7, Induction
  <2>10. v[j] = u[j + 1]
    BY <2>8, <2>9
  <2>11. p[v[j]] = v[j]
    BY <2>1, <2>4, RootIs
  <2> DEFINE Y == {n \in Nat : (j + 1) + n <= i => u[(j + 1) + n] = v[j]}
  <2>12. 0 \in Y
    BY <2>9, <2>10
  <2>13. ASSUME NEW n \in Nat, n \in Y, (j + 1) + (n + 1) <= i PROVE u[(j + 1) + (n + 1)] = v[j]
    <3>1. /\ (j + 1) + (n + 1) \in 1..i /\ ((j + 1) + (n + 1)) - 1 = (j + 1) + n
          /\ (j + 1) + n <= i
      BY <2>9, <2>13
    <3> QED
      BY <2>4, <2>11, <2>13, <3>1
  <2>14. \A n \in Nat : n \in Y => n + 1 \in Y
    BY <2>13
  <2>15. \A n \in Y : (j + 1) + n <= i => u[(j + 1) + n] = v[j]
    OBVIOUS
  <2> HIDE DEF Y
  <2>16. Nat \subseteq Y
    BY <2>12, <2>14, Induction
  <2>17. i - (j + 1) \in Nat /\ (j + 1) + (i - (j + 1)) = i
    BY <2>1
  <2>18. u[i] = v[j]
    BY <2>15, <2>16, <2>17
  <2> QED
    BY <2>4, <2>18, <2>d
<1> QED
  BY <1>1, <1>2

\* A root put below another takes all it is the root of with it.
Lowers(r, p, hi, lo) == r = [p EXCEPT ![hi] = lo] /\ p[hi] = hi /\ p[lo] = lo /\ lo <= hi
Lowered(r, p, hi, lo, N) ==
    /\ Forest(r, N)
    /\ \A j \in 1..N : T!Root(r, j) = IF T!Root(p, j) = hi THEN lo ELSE T!Root(p, j)

LEMMA PutBelow ==
  ASSUME NEW N \in Nat, NEW p, Forest(p, N), NEW hi \in 1..N, NEW lo \in 1..N,
         NEW r, Lowers(r, p, hi, lo)
  PROVE  Lowered(r, p, hi, lo, N)
<1>0. r = [p EXCEPT ![hi] = lo] /\ p[hi] = hi /\ p[lo] = lo /\ lo <= hi
  BY DEF Lowers
<1>1. r \in [1..N -> 1..N] /\ r[hi] = lo /\ \A j \in 1..N : j # hi => r[j] = p[j]
  BY <1>0 DEF Forest
<1>2. Forest(r, N)
  BY <1>0, <1>1 DEF Forest
<1> DEFINE Right(j) == T!Root(r, j) = IF T!Root(p, j) = hi THEN lo ELSE T!Root(p, j)
           B == {j \in 1..N : ~Right(j)}
<1>3. \A j \in 1..N : j \notin B => Right(j)
  OBVIOUS
<1>4. \A j \in B : j \in 1..N /\ ~Right(j)
  OBVIOUS
<1> HIDE DEF B, Right
<1>5. SUFFICES B = {}
  BY <1>2, <1>3 DEF Right, Lowered
<1>6. SUFFICES ASSUME B # {} PROVE FALSE
  OBVIOUS
<1>7. PICK j \in B : \A m \in B : j <= m
  <2>1. B \subseteq Nat
    BY <1>4
  <2> QED
    BY <1>6, <2>1, LeastNumber
<1>8. j \in 1..N /\ ~Right(j)
  BY <1>4, <1>7
<1>9. \A m \in 1..N : m < j => Right(m)
  <2> SUFFICES ASSUME NEW m \in 1..N, m < j PROVE m \notin B
    BY <1>3
  <2> QED
    BY <1>7, <1>8
<1>10. /\ T!Root(r, r[j]) = T!Root(r, j) /\ r[j] = j => T!Root(r, j) = j
       /\ T!Root(p, p[j]) = T!Root(p, j) /\ p[j] = j => T!Root(p, j) = j
       /\ p[j] \in 1..N /\ p[j] <= j
  <2>1. p[j] \in 1..N /\ p[j] <= j
    BY <1>8 DEF Forest
  <2>2. T!Root(r, r[j]) = T!Root(r, j) /\ T!Root(p, p[j]) = T!Root(p, j)
    BY <1>2, <1>8, RootOfParent
  <2>3. r[j] = j => T!Root(r, j) = j
    BY <1>2, <1>8, RootIs
  <2>4. p[j] = j => T!Root(p, j) = j
    BY <1>8, RootIs
  <2> QED
    BY <2>1, <2>2, <2>3, <2>4
<1>11. CASE j = hi
  <2>1. T!Root(p, j) = hi
    BY <1>0, <1>10, <1>11
  <2>2. T!Root(r, lo) = lo
    <3>1. r[lo] = lo
      BY <1>0, <1>1
    <3> QED
      BY <1>2, <3>1, RootIs
  <2>3. T!Root(r, j) = lo
    <3>1. r[j] = lo
      BY <1>1, <1>11
    <3>2. T!Root(r, r[j]) = T!Root(r, j)
      BY <1>2, <1>8, RootOfParent
    <3> QED
      BY <2>2, <3>1, <3>2
  <2> QED
    BY <1>8, <2>1, <2>3 DEF Right
<1>12. CASE j # hi
  <2>1. r[j] = p[j]
    BY <1>1, <1>8, <1>12
  <2>2. CASE p[j] = j
    <3>1. T!Root(r, j) = j /\ T!Root(p, j) = j
      BY <1>10, <2>1, <2>2
    <3> QED
      BY <1>8, <1>12, <3>1 DEF Right
  <2>3. CASE p[j] # j
    <3>1. p[j] \in 1..N /\ p[j] < j
      BY <1>8, <1>10, <2>3
    <3>2. Right(p[j])
      BY <1>9, <3>1
    <3>3. T!Root(r, p[j]) = T!Root(r, j) /\ T!Root(p, p[j]) = T!Root(p, j)
      BY <1>2, <1>8, <2>1, RootOfParent
    <3> QED
      BY <1>8, <3>2, <3>3 DEF Right
  <2> QED
    BY <2>2, <2>3
<1> QED
  BY <1>11, <1>12

Alike(p, keys, n) == \A a, b \in 1..n : keys[a] # "" /\ keys[a] = keys[b] => T!Root(p, a) = T!Root(p, b)
Blind(G, keys, N) == \A a, b \in 1..N : keys[a] # "" /\ keys[a] = keys[b] => (a \in G <=> b \in G)
Saturated(p, G, N) == \A a \in 1..N : a \in G <=> T!Root(p, a) \in G
Coarser(r, p, N) == \A a, b \in 1..N : T!Root(p, a) = T!Root(p, b) => T!Root(r, a) = T!Root(r, b)

\* One join: what has the key of n has the root of n, and nothing else changes.
LEMMA JoinIs ==
  ASSUME NEW N \in Nat, NEW p, Forest(p, N), NEW keys, NEW n \in 1..N, Alike(p, keys, n - 1)
  PROVE  /\ Forest(T!Join(p, keys, n), N) /\ Alike(T!Join(p, keys, n), keys, n)
         /\ Coarser(T!Join(p, keys, n), p, N)
         /\ \A G : Blind(G, keys, N) /\ Saturated(p, G, N) => Saturated(T!Join(p, keys, n), G, N)
<1> DEFINE before == {j \in 1..n - 1 : keys[j] = keys[n]}
           e      == T!Greatest(before)
           two    == {T!Root(p, n), T!Root(p, e)}
           hi     == T!Greatest(two)
           lo     == T!Least(two)
           r      == T!Join(p, keys, n)
<1>1. r = IF keys[n] = "" \/ before = {} THEN p ELSE [p EXCEPT ![hi] = lo]
  BY DEF T!Join
<1>2. \A j : j \in before <=> j \in 1..n - 1 /\ keys[j] = keys[n]
  OBVIOUS
<1>3. \A j \in 1..n : j = n \/ j \in 1..n - 1
  OBVIOUS
<1>4. \A j \in 1..n - 1 : j \in 1..N
  OBVIOUS
<1> HIDE DEF before, r
<1>5. CASE keys[n] = "" \/ before = {}
  <2>1. r = p
    BY <1>1, <1>5
  <2>2. ASSUME NEW a \in 1..n, NEW b \in 1..n, keys[a] # "", keys[a] = keys[b]
        PROVE  T!Root(p, a) = T!Root(p, b)
    <3>1. CASE a \in 1..n - 1 /\ b \in 1..n - 1
      BY <2>2, <3>1 DEF Alike
    <3>2. CASE a = n /\ b = n
      BY <3>2
    <3>3. CASE a = n /\ b \in 1..n - 1
      BY <1>2, <1>5, <2>2, <3>3
    <3>4. CASE b = n /\ a \in 1..n - 1
      BY <1>2, <1>5, <2>2, <3>4
    <3> QED
      BY <1>3, <3>1, <3>2, <3>3, <3>4
  <2>3. Alike(r, keys, n)
    BY <2>1, <2>2 DEF Alike
  <2> QED
    BY <2>1, <2>3 DEF Coarser, r
<1>6. CASE keys[n] # "" /\ before # {}
  <2>1. e \in before
    <3>1. before \subseteq 1..n - 1 /\ n - 1 \in Nat
      BY <1>2
    <3> QED
      BY <1>6, <3>1, GreatestIs
  <2>2. e \in 1..N /\ e \in 1..n - 1 /\ keys[e] = keys[n]
    BY <1>2, <1>4, <2>1
  <2> HIDE DEF e
  <2>3. /\ T!Root(p, n) \in 1..N /\ p[T!Root(p, n)] = T!Root(p, n)
        /\ T!Root(p, e) \in 1..N /\ p[T!Root(p, e)] = T!Root(p, e)
    BY <2>2, RootIs
  <2>4. /\ hi \in two /\ lo \in two /\ \A m \in two : m <= hi /\ lo <= m
    <3>1. two \subseteq 1..N /\ two # {}
      BY <2>3
    <3>2. two \subseteq Nat
      BY <3>1
    <3> HIDE DEF two
    <3> QED
      BY <3>1, <3>2, GreatestIs, LeastIs
  <2> HIDE DEF hi, lo
  <2>5. /\ hi \in 1..N /\ lo \in 1..N /\ p[hi] = hi /\ p[lo] = lo /\ lo <= hi
        /\ T!Root(p, n) = hi \/ T!Root(p, n) = lo
        /\ T!Root(p, e) = hi \/ T!Root(p, e) = lo
        /\ hi = T!Root(p, n) \/ hi = T!Root(p, e)
        /\ lo = T!Root(p, n) \/ lo = T!Root(p, e)
    BY <2>3, <2>4
  <2>6. r = [p EXCEPT ![hi] = lo]
    BY <1>1, <1>6
  <2>7. /\ Forest(r, N)
        /\ \A j \in 1..N : T!Root(r, j) = IF T!Root(p, j) = hi THEN lo ELSE T!Root(p, j)
    <3>1. hi \in 1..N /\ lo \in 1..N /\ Lowers(r, p, hi, lo)
      BY <2>5, <2>6 DEF Lowers
    <3>2. Lowered(r, p, hi, lo, N)
      BY <3>1, PutBelow
    <3> QED
      BY <3>2 DEF Lowered
  <2>8. T!Root(r, n) = lo /\ T!Root(r, e) = lo
    BY <2>2, <2>5, <2>7
  <2>9. Coarser(r, p, N)
    BY <2>7 DEF Coarser
  <2>10. ASSUME NEW a \in 1..n - 1, keys[a] = keys[n] PROVE T!Root(r, a) = lo
    <3>1. T!Root(p, a) = T!Root(p, e)
      BY <1>6, <2>2, <2>10 DEF Alike
    <3> QED
      BY <1>4, <2>2, <2>8, <2>9, <3>1 DEF Coarser
  <2>11. ASSUME NEW a \in 1..n, NEW b \in 1..n, keys[a] # "", keys[a] = keys[b]
         PROVE  T!Root(r, a) = T!Root(r, b)
    <3>1. CASE a \in 1..n - 1 /\ b \in 1..n - 1
      <4>1. T!Root(p, a) = T!Root(p, b)
        BY <2>11, <3>1 DEF Alike
      <4> QED
        BY <1>4, <2>9, <3>1, <4>1 DEF Coarser
    <3>2. CASE a = n /\ b = n
      BY <3>2
    <3>3. CASE a = n /\ b \in 1..n - 1
      BY <2>8, <2>10, <2>11, <3>3
    <3>4. CASE b = n /\ a \in 1..n - 1
      BY <2>8, <2>10, <2>11, <3>4
    <3> QED
      BY <1>3, <3>1, <3>2, <3>3, <3>4
  <2>12. Alike(r, keys, n)
    BY <2>11 DEF Alike
  <2>13. ASSUME NEW G, Blind(G, keys, N), Saturated(p, G, N) PROVE Saturated(r, G, N)
    <3>1. n \in G <=> e \in G
      BY <1>6, <2>2, <2>13 DEF Blind
    <3>2. hi \in G <=> lo \in G
      BY <2>2, <2>5, <2>13, <3>1 DEF Saturated
    <3> QED
      BY <2>7, <2>13, <3>2 DEF Saturated
  <2> QED
    BY <2>7, <2>9, <2>12, <2>13 DEF r
<1> QED
  BY <1>5, <1>6

\* A forest in which the first n entities are joined, and none that need not be.
Merges(p, names, locals, n, N) ==
    /\ Forest(p, N) /\ Alike(p, names, n) /\ Alike(p, locals, n)
    /\ \A G : Blind(G, names, N) /\ Blind(G, locals, N) => Saturated(p, G, N)

LEMMA MergesNext ==
  ASSUME NEW N \in Nat, NEW p, NEW names, NEW locals, NEW n \in 1..N,
         Merges(p, names, locals, n - 1, N)
  PROVE  Merges(T!Join(T!Join(p, names, n), locals, n), names, locals, n, N)
<1> DEFINE r == T!Join(p, names, n)
           s == T!Join(r, locals, n)
<1>1. /\ Forest(p, N) /\ Alike(p, names, n - 1) /\ Alike(p, locals, n - 1)
      /\ \A G : Blind(G, names, N) /\ Blind(G, locals, N) => Saturated(p, G, N)
  BY DEF Merges
<1>2. /\ Forest(r, N) /\ Alike(r, names, n) /\ Coarser(r, p, N)
      /\ \A G : Blind(G, names, N) /\ Saturated(p, G, N) => Saturated(r, G, N)
  BY <1>1, JoinIs
<1> HIDE DEF r
<1>i. (\A a \in 1..n - 1 : a \in 1..N) /\ \A a \in 1..n : a \in 1..N
  OBVIOUS
<1>3. Alike(r, locals, n - 1)
  BY <1>1, <1>2, <1>i DEF Alike, Coarser
<1>4. /\ Forest(s, N) /\ Alike(s, locals, n) /\ Coarser(s, r, N)
      /\ \A G : Blind(G, locals, N) /\ Saturated(r, G, N) => Saturated(s, G, N)
  BY <1>2, <1>3, JoinIs
<1> HIDE DEF s
<1>5. Alike(s, names, n)
  BY <1>2, <1>4, <1>i DEF Alike, Coarser
<1>6. \A G : Blind(G, names, N) /\ Blind(G, locals, N) => Saturated(s, G, N)
  BY <1>1, <1>2, <1>4
<1>7. Merges(s, names, locals, n, N)
  BY <1>4, <1>5, <1>6 DEF Merges
<1> QED
  BY <1>7 DEF s, r

LEMMA JoinedIs ==
  ASSUME NEW found0, IsList(found0)
  PROVE  LET names  == [i \in DOMAIN found0 |-> found0[i].name]
             locals == [i \in DOMAIN found0 |-> found0[i].local]
         IN  Merges(T!Joined(found0), names, locals, Len(found0), Len(found0))
<1> DEFINE names  == [i \in DOMAIN found0 |-> found0[i].name]
           locals == [i \in DOMAIN found0 |-> found0[i].local]
           N == Len(found0)
           X == [1..N -> 1..N]
           P == [n \in 0..N |-> {p \in X : Merges(p, names, locals, n, N)}]
           nil == [i \in DOMAIN found0 |-> i]
           step(n, p) == T!Join(T!Join(p, names, n), locals, n)
           g == [n \in 1..N |-> [p \in X |-> step(n, p)]]
<1> HIDE DEF names, locals
<1>1. N \in Nat /\ DOMAIN found0 = 1..N
  <2>1. found0 \in Seq(Elements(found0))
    BY DEF IsList
  <2> QED
    BY <2>1
<1>2. nil \in P[0]
  <2>1. nil \in X /\ \A i \in 1..N : nil[i] = i
    BY <1>1
  <2> HIDE DEF nil, X
  <2>2. Forest(nil, N)
    <3>1. \A i \in 1..N : nil[i] <= i
      BY <1>1, <2>1
    <3> QED
      BY <2>1, <3>1 DEF Forest, X
  <2>3. \A i \in 1..N : T!Root(nil, i) = i
    BY <1>1, <2>1, <2>2, RootIs
  <2>4. Merges(nil, names, locals, 0, N)
    <3>1. Alike(nil, names, 0) /\ Alike(nil, locals, 0)
      BY DEF Alike
    <3>2. \A G : Saturated(nil, G, N)
      BY <2>3 DEF Saturated
    <3> QED
      BY <2>2, <3>1, <3>2 DEF Merges
  <2> QED
    BY <1>1, <2>1, <2>4
<1>3. \A n \in 1..N : \A p \in P[n - 1] : g[n][p] = step(n, p) /\ step(n, p) \in P[n]
  <2> SUFFICES ASSUME NEW n \in 1..N, NEW p \in P[n - 1]
               PROVE  g[n][p] = step(n, p) /\ step(n, p) \in P[n]
    OBVIOUS
  <2>1. n - 1 \in 0..N /\ n \in 0..N
    BY <1>1
  <2>2. p \in X /\ Merges(p, names, locals, n - 1, N)
    BY <2>1
  <2>3. Merges(step(n, p), names, locals, n, N)
    BY <1>1, <2>2, MergesNext
  <2>4. step(n, p) \in X
    BY <2>3 DEF Merges, Forest
  <2> HIDE DEF step
  <2> QED
    BY <2>1, <2>2, <2>3, <2>4
<1> HIDE DEF N, X, P, nil, step, g
<1>k. \A n \in 1..N : \A p \in P[n - 1] : g[n][p] \in P[n]
  BY <1>3
<1>4. PICK f : Keeps(f, P, nil, N, g)
  BY <1>1, <1>2, <1>k, LoopKept
<1>5. \A n \in 0..N : f[n] = (IF n = 0 THEN nil ELSE step(n, f[n - 1]))
  <2>1. \A n \in 1..N : n - 1 \in 0..N
    BY <1>1
  <2>2. \A n \in 0..N : n # 0 => n \in 1..N
    BY <1>1
  <2> QED
    BY <1>3, <1>4, <2>1, <2>2 DEF Keeps
<1>6. f = [n \in 0..N |-> IF n = 0 THEN nil ELSE step(n, f[n - 1])]
  BY <1>4, <1>5 DEF Keeps
<1>7. f = [n \in 0..Len(found0) |->
             IF n = 0 THEN [i \in DOMAIN found0 |-> i]
             ELSE T!Join(T!Join(f[n - 1], names, n), locals, n)]
  BY <1>6 DEF nil, step, N
<1> DEFINE upto[n \in 0..Len(found0)] ==
             IF n = 0 THEN [i \in DOMAIN found0 |-> i]
             ELSE T!Join(T!Join(upto[n - 1], names, n), locals, n)
<1>8. upto = [n \in 0..Len(found0) |->
             IF n = 0 THEN [i \in DOMAIN found0 |-> i]
             ELSE T!Join(T!Join(upto[n - 1], names, n), locals, n)]
  BY <1>7
<1>9. T!Joined(found0) = upto[Len(found0)]
  BY DEF T!Joined, names, locals
<1> HIDE DEF upto
<1>10. T!Joined(found0) = upto[N]
  BY <1>9 DEF N
<1>11. upto = [n \in 0..N |-> IF n = 0 THEN nil ELSE step(n, upto[n - 1])]
  BY <1>8 DEF nil, step, N
<1>12. upto[0] = nil /\ \A n \in 1..N : upto[n] = step(n, upto[n - 1])
  BY <1>11, <1>1
<1> DEFINE U == {n \in Nat : n <= N => upto[n] \in P[n]}
<1>13. 0 \in U
  BY <1>1, <1>2, <1>12
<1>14. ASSUME NEW n \in Nat, n \in U, n + 1 <= N PROVE upto[n + 1] \in P[n + 1]
  <2>1. n + 1 \in 1..N /\ (n + 1) - 1 = n /\ n <= N
    BY <1>1, <1>14
  <2>2. upto[n] \in P[n]
    BY <1>14, <2>1
  <2> QED
    BY <1>3, <1>12, <2>1, <2>2
<1>15. \A n \in Nat : n \in U => n + 1 \in U
  BY <1>14
<1> HIDE DEF U
<1>16. N \in U
  BY <1>1, <1>13, <1>15, Induction
<1>17. upto[N] \in P[N]
  BY <1>1, <1>16 DEF U
<1>18. Merges(upto[N], names, locals, N, N)
  <2>1. N \in 0..N
    BY <1>1
  <2> QED
    BY <1>17, <2>1 DEF P
<1> QED
  BY <1>10, <1>18 DEF N, names, locals

\* The entities that have one root are those that are joined.
LEMMA MergeIs ==
  ASSUME IsList(entities), published = T!Merge(entities) PROVE T!MergedExactly
<1> DEFINE D == DOMAIN entities
           N == Len(entities)
           names  == [i \in D |-> entities[i].name]
           locals == [i \in D |-> entities[i].local]
           alike(i, j) == \/ entities[i].name # "" /\ entities[i].name = entities[j].name
                          \/ entities[i].local # "" /\ entities[i].local = entities[j].local
           closed   == {G \in SUBSET D : \A i \in G, j \in D : alike(i, j) => j \in G}
           class(i) == {j \in D : \A G \in closed : i \in G => j \in G}
           J == T!Joined(entities)
           root(i) == {j \in D : T!Root(J, j) = T!Root(J, i)}
<1>1. N \in Nat /\ D = 1..N
  <2>1. entities \in Seq(Elements(entities))
    BY DEF IsList
  <2> QED
    BY <2>1
<1>2. Merges(J, names, locals, N, N)
  BY JoinedIs
<1>3. \A i \in D : names[i] = entities[i].name /\ locals[i] = entities[i].local
  OBVIOUS
<1> HIDE DEF names, locals, J
<1>4. /\ Alike(J, names, N) /\ Alike(J, locals, N)
      /\ \A G : Blind(G, names, N) /\ Blind(G, locals, N) => Saturated(J, G, N)
  BY <1>2 DEF Merges
<1>5. \A i, j \in D : alike(i, j) => T!Root(J, i) = T!Root(J, j)
  BY <1>1, <1>3, <1>4 DEF Alike
<1>6. \A i, j \in D : alike(i, j) <=> alike(j, i)
  OBVIOUS
<1>7. ASSUME NEW G \in closed PROVE Saturated(J, G, N)
  <2>1. \A i \in G, j \in D : alike(i, j) => j \in G
    OBVIOUS
  <2>2. G \subseteq D
    OBVIOUS
  <2> HIDE DEF closed
  <2>3. Blind(G, names, N)
    BY <1>1, <1>3, <2>1 DEF Blind
  <2>4. Blind(G, locals, N)
    BY <1>1, <1>3, <2>1 DEF Blind
  <2> QED
    BY <1>4, <2>3, <2>4
<1>8. ASSUME NEW i \in D PROVE root(i) = class(i)
  <2>1. ASSUME NEW j \in D, T!Root(J, j) = T!Root(J, i) PROVE j \in class(i)
    <3> SUFFICES ASSUME NEW G \in closed, i \in G PROVE j \in G
      OBVIOUS
    <3>1. Saturated(J, G, N)
      BY <1>7
    <3> HIDE DEF closed
    <3> QED
      BY <1>1, <2>1, <3>1 DEF Saturated
  <2>2. root(i) \in closed /\ i \in root(i)
    <3>1. \A a \in root(i), b \in D : alike(a, b) => b \in root(i)
      <4> SUFFICES ASSUME NEW a \in root(i), NEW b \in D, alike(a, b) PROVE b \in root(i)
        OBVIOUS
      <4>1. a \in D /\ T!Root(J, a) = T!Root(J, i)
        OBVIOUS
      <4>2. T!Root(J, a) = T!Root(J, b)
        BY <1>5, <4>1
      <4> QED
        BY <4>1, <4>2
    <3>2. root(i) \in SUBSET D /\ i \in root(i)
      OBVIOUS
    <3> HIDE DEF root
    <3> QED
      BY <3>1, <3>2
  <2>3. ASSUME NEW j \in class(i) PROVE j \in root(i)
    <3>1. \A G \in closed : i \in G => j \in G
      OBVIOUS
    <3> HIDE DEF closed, root, class
    <3> QED
      BY <2>2, <3>1
  <2>4. \A j : j \in root(i) <=> j \in D /\ T!Root(J, j) = T!Root(J, i)
    OBVIOUS
  <2>5. \A j : j \in root(i) => j \in class(i)
    BY <2>1, <2>4
  <2> HIDE DEF root, class
  <2> QED
    BY <2>3, <2>5
<1>9. T!Merge(entities) = {T!AsOne(entities, root(i)) : i \in D}
  BY DEF T!Merge, J
<1>10. published = {T!AsOne(entities, class(i)) : i \in D}
  <2> HIDE DEF root, class
  <2> QED
    BY <1>8, <1>9
<1> QED
  BY <1>10 DEF T!MergedExactly

-----------------------------------------------------------------------------
(* The calls: what was answered and published, and what is tagged so far.  *)

Written(a) == /\ DOMAIN a = {"tags", "own"} /\ IsList(a.tags)
              /\ T!Own(a.tags) = a.own

\* While the articles are tagged, those ahead are as captured, those behind tagged.
TaggedSoFar ==
    /\ answer # None /\ k \in Nat \ {0}
    /\ \A i \in DOMAIN Filing : Filing[i] \notin touched =>
         /\ k <= i => text[Filing[i]] = seen[Filing[i]]
         /\ tagging /\ ~amiss /\ i < k =>
              text[Filing[i]].tags = T!Tagged(seen[Filing[i]].tags, T!Path(published, Filing[i]))

AsCaptured == \A s \in T!Articles \ touched : text[s] = seen[s]

DraftInv ==
    /\ DOMAIN text = T!Articles /\ \A s \in T!Articles : Written(text[s])
    /\ IsList(entities)
    /\ T!BatchesCover
    /\ answer # None => /\ T!IsTree(answer) /\ published # None
                        /\ published = T!Normalized(answer)
    /\ answer = None /\ published # None => stage = "over" /\ published = T!Merge(entities)
    /\ stage # "over" => status = None
    /\ stage \in {"idle", "taxonomy"} => k = 1
    /\ stage \in {"idle", "taxonomy", "entities"} => answer = None
    /\ stage \in {"idle", "entities"} => tagging = FALSE
    /\ stage \in {"taxonomy", "entities"} => AsCaptured
    /\ stage = "tags" => TaggedSoFar
    /\ T!StatusIsHonest

LEMMA FilingIs ==
  ASSUME T!Assumptions
  PROVE  /\ Filing \in Seq(T!Articles) /\ DOMAIN Filing = 1..Len(Filing) /\ Len(Filing) \in Nat
         /\ \A s \in T!Articles : \E i \in DOMAIN Filing : Filing[i] = s
         /\ \A i \in DOMAIN Filing : Filing[i] \in T!Articles
         /\ \A i, j \in DOMAIN Filing : Filing[i] = Filing[j] => i = j
<1>1. T!Articles = Elements(Filing)
  BY DraftLists DEF T!Articles
<1>2. Filing \in Seq(Elements(Filing)) /\ Firsts(Filing) = DOMAIN Filing
  BY DraftLists DEF T!Assumptions, IsList
<1>3. DOMAIN Filing = 1..Len(Filing) /\ Len(Filing) \in Nat
  BY <1>2
<1>4. \A i \in DOMAIN Filing : \A j \in 1..i - 1 : Filing[j] # Filing[i]
  BY <1>2 DEF Firsts
<1>5. ASSUME NEW i \in DOMAIN Filing, NEW j \in DOMAIN Filing, i < j PROVE Filing[i] # Filing[j]
  <2>1. i \in 1..j - 1
    BY <1>3, <1>5
  <2> QED
    BY <1>4, <2>1
<1>6. \A i, j \in DOMAIN Filing : i = j \/ i < j \/ j < i
  BY <1>3
<1>7. /\ \A s \in T!Articles : \E i \in DOMAIN Filing : Filing[i] = s
      /\ \A i \in DOMAIN Filing : Filing[i] \in T!Articles
  BY <1>1 DEF Elements
<1> QED
  BY <1>1, <1>2, <1>3, <1>5, <1>6, <1>7

\* No status yet is an honest one.
LEMMA NoStatus == ASSUME T!Assumptions, status = None PROVE T!StatusIsHonest
  BY DEF T!Assumptions, T!StatusIsHonest

LEMMA DraftBegins == ASSUME T!Assumptions, T!Init PROVE DraftInv
<1>1. DOMAIN text = T!Articles
  BY DEF T!Init
<1>2. ASSUME NEW s \in T!Articles PROVE Written(text[s])
  <2>1. PICK t \in Tags : text[s] = [tags |-> t, own |-> T!Own(t)]
    BY DEF T!Init
  <2>2. IsList(t)
    BY DraftLists DEF T!Assumptions
  <2> QED
    BY <2>1, <2>2 DEF Written
<1>3. IsList(<<>>)
  BY DEF IsList
<1>4. T!BatchesCover
  BY DEF T!Init, T!BatchesCover
<1>5. T!StatusIsHonest
  BY NoStatus DEF T!Init
<1> QED
  BY <1>1, <1>2, <1>3, <1>4, <1>5 DEF T!Init, DraftInv

LEMMA StartTaxonomyKeeps == ASSUME T!Assumptions, DraftInv, T!StartTaxonomy PROVE DraftInv'
<1>1. /\ stage = "idle" /\ stage' = "taxonomy" /\ seen' = text
      /\ UNCHANGED <<text, touched, batches, k, entities, answer, published, degraded,
                     amiss, cancel, status, incidents>>
  BY DEF T!StartTaxonomy
<1>2. status' = None
  BY <1>1 DEF DraftInv
<1>3. T!StatusIsHonest'
  BY <1>2 DEF T!Assumptions, T!StatusIsHonest
<1>4. AsCaptured'
  BY <1>1 DEF AsCaptured
<1>5. T!BatchesCover'
  BY <1>1 DEF DraftInv, T!BatchesCover
<1> QED
  BY <1>1, <1>2, <1>3, <1>4, <1>5 DEF DraftInv

\* A call that fails or is cancelled before it publishes.
LEMMA GivesUp ==
  ASSUME T!Assumptions, DraftInv, stage \in {"idle", "taxonomy", "entities"},
         stage = "idle" => seen' = text /\ touched' = touched,
         stage # "idle" => seen' = seen /\ touched' = touched,
         stage' = "over", status' \in {"failed", "cancelled"},
         UNCHANGED <<text, batches, entities, answer, published>>
  PROVE  DraftInv'
<1>1. published' = None /\ answer' = None
  BY DEF DraftInv
<1>2. AsCaptured'
  BY DEF DraftInv, AsCaptured
<1>3. T!StatusIsHonest'
  BY <1>1, <1>2 DEF T!StatusIsHonest, AsCaptured
<1>5. T!BatchesCover'
  BY DEF DraftInv, T!BatchesCover
<1> QED
  BY <1>1, <1>3, <1>5 DEF DraftInv

LEMMA DraftAnswerKeeps == ASSUME T!Assumptions, DraftInv, T!Answer PROVE DraftInv'
<1>1. /\ stage = "taxonomy"
      /\ UNCHANGED <<text, seen, touched, batches, k, entities, tagging, amiss, cancel,
                     incidents>>
  BY DEF T!Answer
<1>2. CASE /\ stage' = "over" /\ status' \in {"failed", "cancelled"}
           /\ UNCHANGED <<answer, published>>
  BY <1>1, <1>2, GivesUp
<1>3. ASSUME NEW tree \in Trees \cup {None}, NEW used,
             used = tree \/ used = T!Fallback(seen), used # None, T!Normalized(used) # None,
             answer' = used, published' = T!Normalized(used), stage' = "tags",
             UNCHANGED status
      PROVE  DraftInv'
  <2>1. T!IsTree(used)
    BY <1>3, FallbackIs DEF T!Assumptions
  <2>2. status' = None
    BY <1>1, <1>3 DEF DraftInv
  <2>3. T!StatusIsHonest'
    BY <2>2 DEF T!Assumptions, T!StatusIsHonest
  <2>4. TaggedSoFar'
    <3>1. k' = 1 /\ AsCaptured
      BY <1>1 DEF DraftInv
    <3>2. answer' # None
      BY <1>3
    <3>3. ASSUME NEW i \in DOMAIN Filing, Filing[i] \notin touched'
          PROVE  /\ k' <= i => text'[Filing[i]] = seen'[Filing[i]]
                 /\ ~(i < k')
      <4>1. Filing[i] \in T!Articles /\ i \in Nat /\ i >= 1
        BY FilingIs
      <4> QED
        BY <1>1, <3>1, <3>3, <4>1 DEF AsCaptured
    <3> QED
      BY <3>1, <3>2, <3>3 DEF TaggedSoFar
  <2>5. T!BatchesCover'
    BY <1>1 DEF DraftInv, T!BatchesCover
  <2> QED
    BY <1>1, <1>3, <2>1, <2>2, <2>3, <2>4, <2>5 DEF DraftInv
<1>4. PICK tree \in Trees \cup {None}, fallback \in BOOLEAN :
        LET used   == IF tree = None /\ fallback THEN T!Fallback(seen) ELSE tree
            normal == IF used = None THEN None ELSE T!Normalized(used)
            stale  == text # seen
        IN  \/ /\ cancel /\ T!End("cancelled")
               /\ UNCHANGED <<answer, published, degraded>>
            \/ /\ normal = None \/ stale
               /\ T!End("failed") /\ UNCHANGED <<answer, published, degraded>>
            \/ /\ ~cancel /\ normal # None /\ ~stale
               /\ answer' = used /\ published' = normal /\ degraded' = (tree = None)
               /\ stage' = "tags" /\ UNCHANGED status
  BY DEF T!Answer
<1> DEFINE used == IF tree = None /\ fallback THEN T!Fallback(seen) ELSE tree
<1>5. \/ /\ stage' = "over" /\ status' \in {"failed", "cancelled"}
         /\ UNCHANGED <<answer, published>>
      \/ /\ used # None /\ T!Normalized(used) # None
         /\ answer' = used /\ published' = T!Normalized(used)
         /\ stage' = "tags" /\ UNCHANGED status
  BY <1>4 DEF T!End
<1>6. used = tree \/ used = T!Fallback(seen)
  OBVIOUS
<1> HIDE DEF used
<1> QED
  BY <1>2, <1>3, <1>5, <1>6

\* A tree that is published is a list.
LEMMA PublishedIs ==
  ASSUME NEW tree, T!IsTree(tree), T!Normalized(tree) # None PROVE IsList(T!Normalized(tree))
<1> DEFINE visited == [i \in DOMAIN tree |-> [tree[i] EXCEPT !.slugs = T!FirstNamed(tree, i)]]
           missing == T!InOrder(Filing, T!Articles \ T!FiledIn(tree, Len(tree)))
           others  == {i \in DOMAIN tree : tree[i].id = Other}
           i0      == CHOOSE i \in others : TRUE
           last    == [id |-> Other, depth |-> 0, slugs |-> missing]
           changed0 == [visited EXCEPT ![i0].slugs = @ \o missing]
           R       == T!Normalized(tree)
<1>1. tree \in Seq(Elements(tree))
  BY DraftLists DEF T!IsTree, IsList
<1>2. DOMAIN tree = 1..Len(tree) /\ Len(tree) \in Nat
  BY <1>1
<1>3. R = visited \/ R = Append(visited, last) \/ R = changed0
  BY DEF T!Normalized
<1>4. visited \in Seq({visited[i] : i \in DOMAIN tree})
  BY <1>2
<1>d. DOMAIN visited = DOMAIN tree
  OBVIOUS
<1> HIDE DEF visited, last, R, i0, missing
<1>5. DOMAIN changed0 = DOMAIN tree /\ changed0 = [i \in DOMAIN tree |-> changed0[i]]
  BY <1>d
<1> HIDE DEF changed0
<1>6. IsList(visited)
  BY <1>4, Listed
<1>7. IsList(changed0)
  <2>1. changed0 \in Seq({changed0[i] : i \in DOMAIN tree})
    BY <1>2, <1>5
  <2> QED
    BY <2>1, Listed
<1>8. IsList(Append(visited, last))
  <2> DEFINE A == {visited[i] : i \in DOMAIN tree} \cup {last}
  <2>1. last \in A /\ visited \in Seq(A)
    BY <1>4
  <2> HIDE DEF A
  <2>2. Append(visited, last) \in Seq(A)
    BY <2>1
  <2> QED
    BY <2>2, Listed
<1> QED
  BY <1>3, <1>6, <1>7, <1>8 DEF R

LEMMA TagKeeps == ASSUME T!Assumptions, DraftInv, T!Tag PROVE DraftInv'
<1> DEFINE s    == Filing[k]
           tags == T!Tagged(seen[s].tags, T!Path(published, s))
<1>1. /\ stage = "tags" /\ tagging /\ k <= Len(Filing)
      /\ \/ /\ cancel \/ tags = seen[s].tags
            /\ amiss' = (amiss \/ cancel)
            /\ k' = IF cancel THEN Len(Filing) + 1 ELSE k + 1
            /\ UNCHANGED text
         \/ /\ T!WriteTags(s, tags)
            /\ amiss' = (amiss \/ text[s] # seen[s]) /\ k' = k + 1
      /\ UNCHANGED <<seen, touched, stage, batches, entities, answer, published, tagging,
                     degraded, cancel, status, incidents>>
  BY DEF T!Tag
<1>2. /\ answer # None /\ k \in Nat \ {0}
      /\ \A i \in DOMAIN Filing : Filing[i] \notin touched =>
           /\ k <= i => text[Filing[i]] = seen[Filing[i]]
           /\ tagging /\ ~amiss /\ i < k =>
                text[Filing[i]].tags = T!Tagged(seen[Filing[i]].tags, T!Path(published, Filing[i]))
  BY <1>1 DEF DraftInv, TaggedSoFar
<1>3. DOMAIN text = T!Articles /\ \A a \in T!Articles : Written(text[a])
  BY DEF DraftInv
<1>4. status' = None /\ stage' = "tags"
  BY <1>1 DEF DraftInv
<1>5. T!StatusIsHonest'
  BY <1>4 DEF T!Assumptions, T!StatusIsHonest
<1>6. T!BatchesCover'
  BY <1>1 DEF DraftInv, T!BatchesCover
<1>7. SUFFICES /\ DOMAIN text' = T!Articles /\ \A a \in T!Articles : Written(text'[a])
               /\ TaggedSoFar'
  BY <1>1, <1>4, <1>5, <1>6 DEF DraftInv
<1>8. /\ k' \in Nat \ {0} /\ \A i \in DOMAIN Filing : k' <= i => k <= i /\ i # k
      /\ Len(Filing) \in Nat /\ \A i \in DOMAIN Filing : i \in Nat /\ i <= Len(Filing)
  <2>1. DOMAIN Filing = 1..Len(Filing) /\ Len(Filing) \in Nat
    BY FilingIs
  <2> QED
    BY <1>1, <1>2, <2>1
<1>9. CASE UNCHANGED text
  <2>1. ASSUME NEW i \in DOMAIN Filing, Filing[i] \notin touched'
        PROVE  /\ k' <= i => text'[Filing[i]] = seen'[Filing[i]]
               /\ tagging' /\ ~amiss' /\ i < k' =>
                    text'[Filing[i]].tags =
                      T!Tagged(seen'[Filing[i]].tags, T!Path(published', Filing[i]))
    <3>1. k' <= i => text'[Filing[i]] = seen'[Filing[i]]
      BY <1>1, <1>2, <1>8, <1>9, <2>1
    <3>2. ASSUME ~amiss', i < k'
          PROVE  text[Filing[i]].tags = T!Tagged(seen[Filing[i]].tags, T!Path(published, Filing[i]))
      <4>1. ~amiss
        <5>1. amiss' = (amiss \/ cancel) \/ amiss' = (amiss \/ text[s] # seen[s])
          BY <1>1
        <5> QED
          BY <3>2, <5>1, Zenon
      <4>2. CASE i < k
        BY <1>1, <1>2, <2>1, <4>1, <4>2
      <4>3. CASE ~(i < k)
        <5> HIDE DEF s, tags
        <5>1. \/ k' = k + 1 /\ tags = seen[s].tags
              \/ T!WriteTags(s, tags) /\ text[s] = seen[s] /\ k' = k + 1
          <6>1. CASE /\ cancel \/ tags = seen[s].tags
                     /\ amiss' = (amiss \/ cancel)
                     /\ k' = IF cancel THEN Len(Filing) + 1 ELSE k + 1
            <7>1. ~cancel
              BY <3>2, <6>1, Zenon
            <7> QED
              BY <6>1, <7>1
          <6>2. CASE /\ T!WriteTags(s, tags)
                     /\ amiss' = (amiss \/ text[s] # seen[s]) /\ k' = k + 1
            <7>1. text[s] = seen[s]
              BY <3>2, <6>2, Zenon
            <7> QED
              BY <6>2, <7>1
          <6> QED
            BY <1>1, <6>1, <6>2
        <5> USE DEF s, tags
        <5>2. i = k
          BY <1>2, <1>8, <3>2, <4>3, <5>1
        <5>3. text[s] = seen[s]
          BY <1>1, <1>2, <2>1, <5>2
        <5>4. text[s].tags = tags
          <6>1. CASE tags = seen[s].tags
            BY <5>3, <6>1
          <6>2. CASE T!WriteTags(s, tags)
            <7>1. text' = [text EXCEPT ![s].tags = tags]
              BY <5>3, <6>2 DEF T!WriteTags
            <7>2. s \in T!Articles
              BY <5>2, FilingIs
            <7>3. DOMAIN text[s] = {"tags", "own"}
              BY <1>3, <7>2 DEF Written
            <7> HIDE DEF s, tags
            <7>4. text'[s].tags = tags
              BY <1>3, <7>1, <7>2, <7>3
            <7> QED
              BY <1>9, <7>4
          <6> QED
            BY <5>1, <6>1, <6>2
        <5> QED
          BY <5>2, <5>4
      <4> QED
        BY <4>2, <4>3
    <3> QED
      BY <1>1, <1>9, <3>1, <3>2
  <2>2. TaggedSoFar'
    BY <1>1, <1>2, <1>8, <2>1 DEF TaggedSoFar
  <2> QED
    BY <1>3, <1>9, <2>2
<1>10. CASE /\ text[s] = seen[s] /\ text' = [text EXCEPT ![s].tags = tags]
            /\ amiss' = (amiss \/ text[s] # seen[s]) /\ k' = k + 1
  <2>1. k \in DOMAIN Filing /\ s \in T!Articles
    <3>1. k \in 1..Len(Filing)
      BY <1>1, <1>2, <1>8
    <3> QED
      BY <3>1, FilingIs
  <2>2. Written(text[s])
    BY <1>3, <2>1
  <2>3. IsList(T!Path(published, s))
    <3>1. IsList(published)
      BY <1>2, PublishedIs DEF DraftInv
    <3> QED
      BY <3>1, PathIs
  <2>4. IsList(tags) /\ T!Own(tags) = T!Own(text[s].tags)
    <3>1. IsList(seen[s].tags) /\ seen[s].tags = text[s].tags
      BY <1>10, <2>2 DEF Written
    <3> QED
      BY <2>3, <3>1, TaggingKeepsOwn
  <2>5. \A i \in DOMAIN Filing : Filing[i] = s => i = k
    BY <2>1, FilingIs
  <2>t. tags = T!Tagged(seen[s].tags, T!Path(published, s)) /\ s = Filing[k]
    OBVIOUS
  <2> HIDE DEF s, tags
  <2>6. /\ DOMAIN text' = T!Articles /\ \A a \in T!Articles : a # s => text'[a] = text[a]
        /\ text'[s] = [text[s] EXCEPT !.tags = tags]
    BY <1>3, <1>10, <2>1
  <2>7. DOMAIN text'[s] = {"tags", "own"} /\ text'[s].tags = tags /\ text'[s].own = text[s].own
    BY <2>2, <2>6 DEF Written
  <2>8. Written(text'[s])
    BY <2>2, <2>4, <2>7 DEF Written
  <2>9. \A a \in T!Articles : Written(text'[a])
    BY <1>3, <2>6, <2>8
  <2>10. ASSUME NEW i \in DOMAIN Filing, Filing[i] \notin touched'
         PROVE  /\ k' <= i => text'[Filing[i]] = seen'[Filing[i]]
                /\ tagging' /\ ~amiss' /\ i < k' =>
                     text'[Filing[i]].tags =
                       T!Tagged(seen'[Filing[i]].tags, T!Path(published', Filing[i]))
    <3>1. CASE i = k
      <4>1. ~(k' <= i)
        BY <1>2, <1>10, <3>1
      <4>2. text'[Filing[i]].tags = T!Tagged(seen[Filing[i]].tags, T!Path(published, Filing[i]))
        BY <2>7, <2>t, <3>1
      <4> QED
        BY <1>1, <4>1, <4>2
    <3>2. CASE i # k
      <4>1. Filing[i] \in T!Articles /\ Filing[i] # s
        BY <2>5, <3>2, FilingIs
      <4>2. text'[Filing[i]] = text[Filing[i]]
        BY <2>6, <4>1
      <4>3. /\ k' <= i => k <= i
            /\ i < k' => i < k
        BY <1>2, <1>8, <1>10, <3>2
      <4>4. ~amiss' => ~amiss
        BY <1>10
      <4> QED
        BY <1>1, <1>2, <2>10, <4>2, <4>3, <4>4
    <3> QED
      BY <3>1, <3>2
  <2>11. TaggedSoFar'
    BY <1>1, <1>2, <1>8, <2>10 DEF TaggedSoFar
  <2> QED
    BY <2>6, <2>9, <2>11
<1> QED
  BY <1>1, <1>9, <1>10 DEF T!WriteTags

LEMMA DraftFinishKeeps == ASSUME T!Assumptions, DraftInv, T!Finish PROVE DraftInv'
<1>1. /\ stage = "tags" /\ (tagging => k > Len(Filing)) /\ stage' = "over"
      /\ status' = (IF degraded \/ amiss THEN "partial" ELSE "succeeded")
      /\ UNCHANGED <<text, seen, touched, batches, k, entities, answer, published, tagging,
                     degraded, amiss, cancel, incidents>>
  BY DEF T!Finish, T!End
<1>2. TaggedSoFar
  BY <1>1 DEF DraftInv
<1>3. ASSUME tagging, status' = "succeeded", NEW s \in T!Articles \ touched
      PROVE  text[s].tags = T!Tagged(seen[s].tags, T!Path(published, s))
  <2>1. ~amiss
    BY <1>1, <1>3
  <2>2. PICK i \in DOMAIN Filing : Filing[i] = s
    BY FilingIs
  <2>3. i < k
    <3>1. i \in 1..Len(Filing) /\ Len(Filing) \in Nat /\ k \in Nat /\ k > Len(Filing)
      BY <1>1, <1>2, <1>3, FilingIs DEF TaggedSoFar
    <3> QED
      BY <3>1
  <2> QED
    BY <1>2, <1>3, <2>1, <2>2, <2>3 DEF TaggedSoFar
<1>4. status' \notin {"failed", "cancelled"}
  BY <1>1
<1>5. T!StatusIsHonest'
  BY <1>1, <1>3, <1>4 DEF T!StatusIsHonest
<1>6. T!BatchesCover'
  BY <1>1 DEF DraftInv, T!BatchesCover
<1>7. answer' # None
  BY <1>1, <1>2 DEF TaggedSoFar
<1> QED
  BY <1>1, <1>5, <1>6, <1>7 DEF DraftInv

LEMMA StartEntitiesKeeps == ASSUME T!Assumptions, DraftInv, T!StartEntities PROVE DraftInv'
<1>1. /\ stage = "idle" /\ seen' = text
      /\ UNCHANGED <<text, touched, k, entities, answer, published, tagging, degraded,
                     amiss, cancel, incidents>>
  BY DEF T!StartEntities
<1>2. PICK size \in Sizes :
        IF T!Batches(size) = None THEN T!End("failed") /\ UNCHANGED batches
        ELSE batches' = T!Batches(size) /\ stage' = "entities" /\ UNCHANGED status
  BY DEF T!StartEntities
<1>3. CASE T!Batches(size) = None
  <2>1. stage' = "over" /\ status' = "failed" /\ UNCHANGED batches
    BY <1>2, <1>3 DEF T!End
  <2> QED
    BY <1>1, <2>1, GivesUp
<1>4. CASE T!Batches(size) # None
  <2>1. batches' = T!Batches(size) /\ stage' = "entities" /\ UNCHANGED status
    BY <1>2, <1>4
  <2>2. T!BatchesCover'
    BY <1>4, <2>1, BatchesCovered
  <2>3. status' = None
    BY <1>1, <2>1 DEF DraftInv
  <2>4. T!StatusIsHonest'
    BY <2>3 DEF T!Assumptions, T!StatusIsHonest
  <2>5. AsCaptured'
    BY <1>1 DEF AsCaptured
  <2> QED
    BY <1>1, <2>1, <2>2, <2>3, <2>4, <2>5 DEF DraftInv
<1> QED
  BY <1>3, <1>4

LEMMA ExtractKeeps == ASSUME T!Assumptions, DraftInv, T!Extract PROVE DraftInv'
<1>1. /\ stage = "entities"
      /\ UNCHANGED <<text, seen, touched, batches, answer, published, tagging, degraded,
                     amiss, cancel, incidents>>
  BY DEF T!Extract
<1>2. PICK mentions \in Mentions \cup {None} :
        \/ stage' = "over" /\ status' \in {"failed", "cancelled"} /\ UNCHANGED <<k, entities>>
        \/ /\ T!Parses(mentions, batches[k])
           /\ entities' = entities \o mentions /\ UNCHANGED <<stage, status>>
  BY DEF T!Extract, T!End
<1>3. CASE stage' = "over" /\ status' \in {"failed", "cancelled"} /\ UNCHANGED <<k, entities>>
  BY <1>1, <1>3, GivesUp
<1>4. CASE /\ T!Parses(mentions, batches[k])
           /\ entities' = entities \o mentions /\ UNCHANGED <<stage, status>>
  <2>1. IsList(mentions)
    BY <1>4, DraftLists DEF T!Parses, T!Assumptions
  <2>2. IsList(entities')
    BY <1>4, <2>1, InARow DEF DraftInv
  <2>3. status' = None
    BY <1>1, <1>4 DEF DraftInv
  <2>4. T!StatusIsHonest'
    BY <2>3 DEF T!Assumptions, T!StatusIsHonest
  <2>5. AsCaptured'
    BY <1>1 DEF DraftInv, AsCaptured
  <2>6. T!BatchesCover'
    BY <1>1 DEF DraftInv, T!BatchesCover
  <2> QED
    BY <1>1, <1>4, <2>2, <2>3, <2>4, <2>5, <2>6 DEF DraftInv
<1> QED
  BY <1>2, <1>3, <1>4

LEMMA PublishEntitiesKeeps == ASSUME T!Assumptions, DraftInv, T!PublishEntities PROVE DraftInv'
<1>1. /\ stage = "entities"
      /\ UNCHANGED <<text, seen, touched, batches, k, entities, answer, tagging, degraded,
                     amiss, cancel, incidents>>
      /\ \/ stage' = "over" /\ status' \in {"failed", "cancelled"} /\ UNCHANGED published
         \/ published' = T!Merge(entities) /\ stage' = "over" /\ status' = "succeeded"
  BY DEF T!PublishEntities, T!End
<1>2. CASE stage' = "over" /\ status' \in {"failed", "cancelled"} /\ UNCHANGED published
  BY <1>1, <1>2, GivesUp
<1>3. CASE published' = T!Merge(entities) /\ stage' = "over" /\ status' = "succeeded"
  <2>1. answer' = None
    BY <1>1 DEF DraftInv
  <2>2. T!BatchesCover'
    BY <1>1 DEF DraftInv, T!BatchesCover
  <2>3. T!StatusIsHonest'
    <3>1. tagging' = FALSE
      BY <1>1 DEF DraftInv
    <3> QED
      BY <1>3, <3>1 DEF T!StatusIsHonest
  <2> QED
    BY <1>1, <1>3, <2>1, <2>2, <2>3 DEF DraftInv
<1> QED
  BY <1>1, <1>2, <1>3

LEMMA PersonKeeps == ASSUME T!Assumptions, DraftInv, T!Edit PROVE DraftInv'
<1>1. /\ stage \notin {"idle", "over"}
      /\ UNCHANGED <<seen, stage, batches, k, entities, answer, published, tagging, degraded,
                     amiss, status>>
  BY DEF T!Edit
<1>2. status = None /\ status' = None
  BY <1>1 DEF DraftInv
<1>3. T!StatusIsHonest'
  BY <1>2 DEF T!Assumptions, T!StatusIsHonest
<1>4. T!BatchesCover'
  BY <1>1 DEF DraftInv, T!BatchesCover
<1>5. CASE UNCHANGED <<text, touched>>
  <2>1. AsCaptured => AsCaptured'
    BY <1>1, <1>5 DEF AsCaptured
  <2>2. TaggedSoFar => TaggedSoFar'
    BY <1>1, <1>5 DEF TaggedSoFar
  <2> QED
    BY <1>1, <1>2, <1>3, <1>4, <1>5, <2>1, <2>2 DEF DraftInv
<1>6. ASSUME NEW s \in T!Articles, NEW tags \in Tags,
             text' = [text EXCEPT ![s] = [tags |-> tags, own |-> T!Own(tags)]],
             touched' = touched \cup {s}
      PROVE  DraftInv'
  <2> DEFINE a == [tags |-> tags, own |-> T!Own(tags)]
  <2>1. Written(a)
    BY DraftLists DEF T!Assumptions, Written
  <2> HIDE DEF a
  <2>2. /\ DOMAIN text' = T!Articles /\ text'[s] = a
        /\ \A b \in T!Articles : b # s => text'[b] = text[b]
    BY <1>6 DEF DraftInv, a
  <2>3. \A b \in T!Articles : Written(text'[b])
    BY <2>1, <2>2 DEF DraftInv
  <2>4. AsCaptured => AsCaptured'
    BY <1>1, <1>6, <2>2 DEF AsCaptured
  <2>5. ASSUME TaggedSoFar PROVE TaggedSoFar'
    <3>1. ASSUME NEW i \in DOMAIN Filing, Filing[i] \notin touched'
          PROVE  Filing[i] \notin touched /\ text'[Filing[i]] = text[Filing[i]]
      <4>1. Filing[i] \in T!Articles
        BY FilingIs
      <4> QED
        BY <1>6, <2>2, <3>1, <4>1
    <3> QED
      BY <1>1, <2>5, <3>1 DEF TaggedSoFar
  <2> QED
    BY <1>1, <1>2, <1>3, <1>4, <2>2, <2>3, <2>4, <2>5 DEF DraftInv
<1> QED
  BY <1>5, <1>6 DEF T!Edit

LEMMA DraftStep == ASSUME T!Assumptions, DraftInv, [T!Next]_draftVars PROVE DraftInv'
<1>1. CASE UNCHANGED draftVars
  BY <1>1 DEF draftVars, DraftInv, T!BatchesCover, T!StatusIsHonest, AsCaptured, TaggedSoFar
<1> QED
  BY <1>1, StartTaxonomyKeeps, DraftAnswerKeeps, TagKeeps, DraftFinishKeeps, StartEntitiesKeeps,
     ExtractKeeps, PublishEntitiesKeeps, PersonKeeps DEF T!Next

\* What the calls promise.
LEMMA DraftsExact ==
  ASSUME T!Assumptions, DraftInv
  PROVE  T!FiledOnce /\ T!BatchesCover /\ T!MergedExactly /\ T!StatusIsHonest /\ T!OwnTagsKept
<1>1. T!FiledOnce
  <2>1. CASE answer = None
    BY <2>1 DEF T!FiledOnce
  <2>2. CASE answer # None
    <3>1. Shelved(published, answer)
      BY <2>2, NormalizedIs DEF DraftInv
    <3>2. \A q : T!Elements(q) = Elements(q)
      BY DraftLists
    <3> DEFINE named(s) == {i \in DOMAIN answer : s \in T!Elements(answer[i].slugs)}
    <3>3. \A s : \A i : i \in named(s) <=> i \in DOMAIN answer /\ s \in Elements(answer[i].slugs)
      BY <3>2
    <3>4. ASSUME NEW s \in T!Articles
          PROVE  \E i \in DOMAIN published : \E p \in DOMAIN published[i].slugs :
                   /\ published[i].slugs[p] = s
                   /\ \A j \in DOMAIN published : \A r \in DOMAIN published[j].slugs :
                        published[j].slugs[r] = s => j = i /\ r = p
                   /\ named(s) # {} => i \in named(s) /\ \A j \in named(s) : i <= j
      <4>1. PICK i \in DOMAIN published : \E p \in DOMAIN published[i].slugs :
              /\ published[i].slugs[p] = s
              /\ \A j \in DOMAIN published : \A r \in DOMAIN published[j].slugs :
                   published[j].slugs[r] = s => j = i /\ r = p
              /\ \A j \in DOMAIN answer : s \in Elements(answer[j].slugs) =>
                   i \in DOMAIN answer /\ s \in Elements(answer[i].slugs) /\ i <= j
        BY <3>1 DEF Shelved
      <4>2. PICK p \in DOMAIN published[i].slugs :
              /\ published[i].slugs[p] = s
              /\ \A j \in DOMAIN published : \A r \in DOMAIN published[j].slugs :
                   published[j].slugs[r] = s => j = i /\ r = p
              /\ \A j \in DOMAIN answer : s \in Elements(answer[j].slugs) =>
                   i \in DOMAIN answer /\ s \in Elements(answer[i].slugs) /\ i <= j
        BY <4>1
      <4> DEFINE here == named(s)
      <4>3. \A j : j \in here <=> j \in DOMAIN answer /\ s \in Elements(answer[j].slugs)
        BY <3>3
      <4> HIDE DEF here
      <4>4. here # {} => i \in here /\ \A j \in here : i <= j
        BY <4>2, <4>3
      <4>5. named(s) # {} => i \in named(s) /\ \A j \in named(s) : i <= j
        BY <4>4 DEF here
      <4> HIDE DEF named
      <4> QED
        BY <4>2, <4>5
    <3>5. \A i \in DOMAIN published :
            /\ T!Elements(published[i].slugs) \subseteq T!Articles
            /\ \A j \in DOMAIN published : published[i].id = published[j].id => i = j
      BY <3>1, <3>2 DEF Shelved
    <3> QED
      BY <3>4, <3>5 DEF T!FiledOnce
  <2> QED
    BY <2>1, <2>2
<1>2. T!MergedExactly
  <2>1. CASE answer = None /\ published # None
    BY <2>1, MergeIs DEF DraftInv
  <2>2. CASE ~(answer = None /\ published # None)
    BY <2>2 DEF T!MergedExactly
  <2> QED
    BY <2>1, <2>2
<1>3. T!OwnTagsKept
  BY DEF DraftInv, Written, T!OwnTagsKept
<1> QED
  BY <1>1, <1>2, <1>3 DEF DraftInv

-----------------------------------------------------------------------------
(* The parts together.                                                     *)

\* What holds in every reachable state, a conjunct for each part.
ViewInv == /\ part = "catalog"    => CatalogInv
           /\ part = "web"        => WebInv
           /\ part = "generation" => DraftInv
           /\ part = "vectors"    => VectorInv

LEMMA ViewBegins == Init => ViewInv
<1> SUFFICES ASSUME Init PROVE ViewInv
  OBVIOUS
<1>1. CASE part = "catalog" /\ C!Init
  <2>1. CatalogInv
    BY <1>1, Assumptions, CatalogBegins DEF Assumptions
  <2> QED
    BY <1>1, <2>1 DEF ViewInv
<1>2. CASE part = "web" /\ W!Init
  <2>1. WebInv
    BY <1>2, Assumptions, WebBegins DEF Assumptions
  <2> QED
    BY <1>2, <2>1 DEF ViewInv
<1>3. CASE part = "generation" /\ T!Init
  <2>1. DraftInv
    BY <1>3, Assumptions, DraftBegins DEF Assumptions
  <2> QED
    BY <1>3, <2>1 DEF ViewInv
<1>4. CASE part = "vectors" /\ V!Init
  BY <1>4, VectorsBegin DEF ViewInv
<1> QED
  BY <1>1, <1>2, <1>3, <1>4 DEF Init

LEMMA ViewStep == ViewInv /\ [Next]_vars => ViewInv'
<1> SUFFICES ASSUME ViewInv, [Next]_vars PROVE ViewInv'
  OBVIOUS
<1>1. part' = part
  BY DEF Next, vars
<1>2. CASE part = "catalog"
  <2>1. [C!Next]_catalogVars
    BY <1>2 DEF Next, vars
  <2>2. CatalogInv'
    BY <1>2, <2>1, Assumptions, CatalogStep DEF Assumptions, ViewInv
  <2> QED
    BY <1>1, <1>2, <2>2 DEF ViewInv
<1>3. CASE part = "web"
  <2>1. [W!Next]_webVars
    BY <1>3 DEF Next, vars
  <2>2. WebInv'
    BY <1>3, <2>1, Assumptions, WebStep DEF Assumptions, ViewInv
  <2> QED
    BY <1>1, <1>3, <2>2 DEF ViewInv
<1>4. CASE part = "generation"
  <2>1. [T!Next]_draftVars
    BY <1>4 DEF Next, vars
  <2>2. DraftInv'
    BY <1>4, <2>1, Assumptions, DraftStep DEF Assumptions, ViewInv
  <2> QED
    BY <1>1, <1>4, <2>2 DEF ViewInv
<1>5. CASE part = "vectors"
  <2>1. [V!Next]_vectorVars /\ VectorInv
    BY <1>5 DEF Next, vars, ViewInv
  <2>2. VectorInv'
    BY <2>1, BuilderStep, SearchStep, ActiveStep DEF VectorInv
  <2> QED
    BY <1>1, <1>5, <2>2 DEF ViewInv
<1> QED
  BY <1>1, <1>2, <1>3, <1>4, <1>5 DEF ViewInv

\* The invariant of the parts holds in every reachable state.
THEOREM Invariant == Spec => []ViewInv
  BY ViewBegins, ViewStep, PTL DEF Spec

\* What a public caller is shown by the catalog is public in the files as they
\* are, and a cached text is shown only while every source it was made of still
\* is, whatever the files, the relations, the caches and the caller's question
\* are; what is private decides nothing of it; and what a public web request
\* answers was public at some moment of the request (catalog.rs, store.rs,
\* web_read.rs).
THEOREM NothingHidden == Spec => []NothingHiddenShown
<1>1. ASSUME C!Assumptions, CatalogInv PROVE C!NothingHiddenShown /\ C!PublicIgnoresPrivate
  BY <1>1, ShelfHidesPrivate, ShelfIgnoresPrivate
<1>2. WebInv => W!NothingHiddenAnswered
  BY DEF WebInv, AnswerInv
<1>3. ViewInv => NothingHiddenShown
  BY <1>1, <1>2, Assumptions DEF Assumptions, ViewInv, NothingHiddenShown
<1> QED
  BY <1>3, Invariant, PTL

\* A graph has the edges it should between the nodes it shows and reaches as far
\* as asked, or says that it is cut, and a tree shows an article once (catalog.rs,
\* export_graph); a web request claims what it did; a generated tree files every
\* article once, where it was named first; batches leave no article out; entities
\* are merged when a chain of names joins them, and only then; a status tells
\* what was tagged; and the tags a person gave are kept (maintenance_model.rs,
\* entities_model.rs).
THEOREM ViewsExact == Spec => []ViewsAreExact
<1>1. ASSUME C!Assumptions, CatalogInv PROVE C!TypeOK /\ C!ViewsAreExact
  BY <1>1, ShelfViewsExact
<1>2. ASSUME W!Assumptions, WebInv PROVE W!GraphIsExact /\ W!ClaimsAreTrue
  BY <1>2, GraphExact DEF WebInv, AnswerInv
<1>3. ASSUME T!Assumptions, DraftInv
      PROVE  T!FiledOnce /\ T!BatchesCover /\ T!MergedExactly /\ T!StatusIsHonest /\ T!OwnTagsKept
  BY <1>3, DraftsExact
<1>4. ViewInv => ViewsAreExact
  BY <1>1, <1>2, <1>3, Assumptions DEF Assumptions, ViewInv, ViewsAreExact
<1> QED
  BY <1>4, Invariant, PTL

\* The active generation is ready and has a vector for every passage of it
\* (build_vectors, populate_generation).
THEOREM Complete == Spec => []ActiveIsComplete
<1>1. ViewInv => ActiveIsComplete
  BY DEF ViewInv, VectorInv, ActiveIsComplete
<1> QED
  BY <1>1, Invariant, PTL

\* A hybrid answer ranks the whole index by vectors of one specification
\* (search_hybrid).
THEOREM HybridComplete == Spec => []HybridIsComplete
<1>1. ViewInv => HybridIsComplete
  BY HybridFollows DEF ViewInv, HybridIsComplete
<1> QED
  BY <1>1, Invariant, PTL

\* A relation that is written again keeps its supports and notes and is no more
\* widely shown, and a public caller sets no category with what is private
\* (add_relation, remove_relation, set_taxonomy); a web request deletes or
\* rewrites an article only as it took it (web_write.rs).
THEOREM WritesScoped == Spec => ScopedWrites
<1>1. ASSUME ViewInv, [Next]_vars PROVE ScopedStep
  <2>1. CASE part = "catalog"
    <3>1. [C!Next]_catalogVars
      BY <1>1, <2>1 DEF Next, vars
    <3>2. C!WritesKeep
      BY <1>1, <2>1, <3>1, Assumptions, ShelfWritesKeep DEF Assumptions, ViewInv
    <3> QED
      BY <2>1, <3>2 DEF ScopedStep
  <2>2. CASE part = "web"
    <3>1. [W!Next]_webVars
      BY <1>1, <2>2 DEF Next, vars
    <3>2. W!WritesAsTaken
      BY <1>1, <2>2, <3>1, WritesTaken DEF ViewInv
    <3> QED
      BY <2>2, <3>2 DEF ScopedStep
  <2>3. CASE part # "catalog" /\ part # "web"
    BY <2>3 DEF ScopedStep
  <2> QED
    BY <2>1, <2>2, <2>3
<1> QED
  BY <1>1, Invariant, PTL DEF Spec, ScopedWrites
=============================================================================
