---------------------------- MODULE AccessProofs ----------------------------
(***************************************************************************)
(* Theorems about who may act: about Access, for all its constants and     *)
(* however long its parts run.  Each part has an inductive invariant of    *)
(* its own, in a section of its own here or, of the parts that write       *)
(* files, in FileProofs; the theorems are the last section's.              *)
(***************************************************************************)
EXTENDS FileProofs, FiniteSetTheorems, SequenceTheorems, WellFoundedInduction, TLAPS

\* A set of naturals has a least one, and one with a bound a greatest.
LEMMA Least ==
  ASSUME NEW T, T \subseteq Nat, T # {}
  PROVE  \E m \in T : \A n \in T : m <= n
<1> DEFINE Less == {e \in Nat \X Nat : e[1] < e[2]}
<1>1. Less = OpToRel(<, Nat)
  BY DEF OpToRel
<1>2. IsWellFoundedOn(Less, Nat)
  BY <1>1, NatLessThanWellFounded
<1>3. PICK m \in T : \A n \in T : ~(<<n, m>> \in Less)
  <2> HIDE DEF Less
  <2> QED
    BY <1>2, WFMin
<1>4. ASSUME NEW n \in T PROVE m <= n
  <2>1. m \in Nat /\ n \in Nat
    OBVIOUS
  <2>2. ~(n < m)
    BY <1>3, <2>1
  <2> QED
    BY <2>1, <2>2
<1> QED
  BY <1>4

LEMMA Greatest ==
  ASSUME NEW N \in Nat, NEW T, T \subseteq 1..N, T # {}
  PROVE  \E m \in T : \A n \in T : n <= m
<1> DEFINE U == {k \in Nat : \E n \in T : n = N - k}
<1>1. \A n \in T : n \in Nat /\ N - n \in Nat /\ n = N - (N - n)
  OBVIOUS
<1>2. U \subseteq Nat /\ U # {}
  <2>1. PICK n \in T : TRUE
    OBVIOUS
  <2>2. N - n \in U
    BY <1>1
  <2> QED
    BY <2>2
<1>3. PICK u \in U : \A k \in U : u <= k
  <2> HIDE DEF U
  <2> QED
    BY <1>2, Least
<1>4. PICK m \in T : m = N - u
  OBVIOUS
<1>5. ASSUME NEW n \in T PROVE n <= m
  <2>1. N - n \in U
    BY <1>1
  <2>2. u <= N - n
    BY <1>3, <2>1
  <2> QED
    BY <1>1, <1>4, <2>2
<1> QED
  BY <1>5

\* A set of numbers that has 0 and with n also n + 1 has all.
LEMMA Induction ==
  ASSUME NEW T, 0 \in T, \A n \in Nat : n \in T => n + 1 \in T
  PROVE  Nat \subseteq T
<1> SUFFICES ASSUME NEW m \in Nat, m \notin T PROVE FALSE
  OBVIOUS
<1> DEFINE U == {n \in Nat : n \notin T}
<1>1. PICK x \in U : \A y \in U : x <= y
  BY Least
<1>2. x # 0 /\ x \in Nat
  BY <1>1
<1>3. x - 1 \in Nat /\ (x - 1) + 1 = x /\ ~(x <= x - 1)
  BY <1>2
<1>4. x - 1 \in T
  BY <1>1, <1>3
<1> QED
  BY <1>1, <1>3, <1>4


Loops(f, X, b, N, g) == /\ f \in [0..N -> X] /\ f[0] = b
                        /\ \A n \in 1..N : f[n - 1] \in X /\ f[n] = g[n][f[n - 1]]

\* A loop of N rounds has a value after each.
LEMMA Loop ==
  ASSUME NEW X, NEW b \in X, NEW N \in Nat, NEW g \in [1..N -> [X -> X]]
  PROVE  \E f : Loops(f, X, b, N, g)
<1> DEFINE T == {n \in Nat : n <= N => \E f : Loops(f, X, b, n, g)}
<1>1. 0 \in T
  <2>1. Loops([m \in 0..0 |-> b], X, b, 0, g)
    BY DEF Loops
  <2> QED
    BY <2>1
<1>2. ASSUME NEW n \in Nat, n \in T, n + 1 <= N PROVE \E f : Loops(f, X, b, n + 1, g)
  <2>1. PICK f : Loops(f, X, b, n, g)
    BY <1>2
  <2>2. f \in [0..n -> X] /\ f[0] = b /\ \A m \in 1..n : f[m - 1] \in X /\ f[m] = g[m][f[m - 1]]
    BY <2>1 DEF Loops
  <2> DEFINE h == [m \in 0..n+1 |-> IF m = n + 1 THEN g[n + 1][f[n]] ELSE f[m]]
  <2>3. n \in 0..n /\ n + 1 \in 1..N /\ f[n] \in X
    BY <1>2, <2>2
  <2>4. g[n + 1][f[n]] \in X
    BY <2>3
  <2>5. h \in [0..n+1 -> X] /\ h[0] = b
    BY <2>2, <2>4
  <2>6. \A m \in 0..n : h[m] = f[m]
    OBVIOUS
  <2>7. h[n + 1] = g[n + 1][f[n]]
    OBVIOUS
  <2> HIDE DEF h
  <2>8. ASSUME NEW m \in 1..n+1 PROVE h[m - 1] \in X /\ h[m] = g[m][h[m - 1]]
    <3>1. CASE m = n + 1
      <4>1. m - 1 = n
        BY <3>1
      <4> QED
        BY <3>1, <4>1, <2>3, <2>6, <2>7
    <3>2. CASE m # n + 1
      <4>1. m \in 1..n /\ m \in 0..n /\ m - 1 \in 0..n
        BY <3>2
      <4> QED
        BY <4>1, <2>2, <2>6
    <3> QED
      BY <3>1, <3>2
  <2>9. Loops(h, X, b, n + 1, g)
    BY <2>5, <2>8 DEF Loops
  <2> QED
    BY <2>9
<1>3. \A n \in Nat : n \in T => n + 1 \in T
  BY <1>2
<1> HIDE DEF T
<1>4. Nat \subseteq T
  BY <1>1, <1>3, Induction
<1> QED
  BY <1>4 DEF T


-----------------------------------------------------------------------------
(* The lock of a stage.  While no break was forced the pidfile is its      *)
(* owner's, and a thread about to break one has nobody's.                  *)

\* From its pidfile on until it removes it.
Owning(r) == at[r] \in {"start", "run", "check", "remove"}

\* Who is about to break a pidfile it found stale.
Breaking(r) == at[r] \in {"reread", "judge", "note", "unlink"}

\* A thread in the retry loop has links left.
LinksLeft ==
    \A r \in Threads :
        at[r] \in {"look", "probe", "break"} \/ Breaking(r) => tries[r] < Retries

\* The pidfile is that of the thread that runs the stage; one that is about to
\* be removed is there and nobody's.
PidfileIsOwners ==
    \A r \in Threads :
        /\ Owning(r) => pidfile = [pid |-> PidOf[r], native |-> S!IsNative(r)]
        /\ Owning(r) => \A q \in Threads : Owning(q) => q = r
        /\ at[r] \in {"note", "unlink"} => /\ pidfile # None
                                           /\ \A q \in Threads : ~Owning(q)

StageInv == S!TypeOK /\ LinksLeft /\ (S!Trusted => PidfileIsOwners)

\* In the first state nobody is anywhere.
LEMMA StageInit == ASSUME S!Assumptions, S!Init PROVE StageInv
<1>1. /\ at = [r \in Threads |-> "idle"] /\ found = [r \in Threads |-> None]
      /\ tries = [r \in Threads |-> 0]
  BY DEF S!Init
<1>2. /\ at \in [Threads -> S!Stages] /\ found \in [Threads -> S!Holder \cup {None, Torn}]
      /\ tries \in [Threads -> 0..Retries]
  BY <1>1 DEF S!Stages, S!Assumptions
<1>3. /\ native \subseteq Pids /\ pidfile \in S!Holder \cup {None, Torn}
      /\ kernel = None /\ breaker = None /\ log = <<>> /\ alive = Pids /\ entered = 0
      /\ deaths = 0 /\ breaks = 0 /\ losses = 0 /\ outrun = FALSE
  BY DEF S!Init
<1>4. \A r \in Threads : at[r] = "idle" /\ found[r] = None /\ r # None
  BY <1>1 DEF S!Assumptions
<1>5. S!TypeOK
  <2>1. log \in Seq(S!Events) /\ alive \subseteq Pids /\ 0 \in Nat /\ FALSE \in BOOLEAN
    BY <1>3
  <2>2. ASSUME NEW r \in Threads
        PROVE  /\ found[r] # None <=> at[r] \in {"probe", "judge"}
               /\ kernel = r <=> S!IsNative(r) /\ at[r] # "idle"
               /\ breaker = r <=> at[r] \in {"reread", "judge", "note", "unlink"}
               /\ at[r] # "idle" => PidOf[r] \in alive
    BY <1>3, <1>4
  <2> QED
    BY <1>2, <1>3, <2>1, <2>2 DEF S!TypeOK
<1>6. LinksLeft /\ PidfileIsOwners
  BY <1>4 DEF LinksLeft, PidfileIsOwners, Owning, Breaking
<1> QED
  BY <1>5, <1>6 DEF StageInv

\* An event is appended or lost.
LEMMA StageRecord ==
  ASSUME log \in Seq(S!Events), losses \in Nat, NEW e \in S!Events, NEW r, S!Record(e, r)
  PROVE  log' \in Seq(S!Events) /\ losses' \in Nat
  BY DEF S!Record

\* Every step keeps the types, and who holds lease and mutex.
LEMMA StageTypes ==
  ASSUME S!Assumptions, S!TypeOK, LinksLeft, [S!Next]_stageVars
  PROVE  S!TypeOK' /\ LinksLeft'
<1> USE DEF S!Assumptions, S!TypeOK, LinksLeft, Breaking, S!Stages, S!Go, S!Leave, S!Freed, S!Again, S!IsNative,
            S!Read, S!Forget, S!others, S!record, S!lockVars
<1>1. ASSUME NEW r \in Threads, S!Enter(r) PROVE S!TypeOK' /\ LinksLeft'
  BY <1>1 DEF S!Enter, S!LeaseFree
<1>2. ASSUME NEW r \in Threads, S!Link(r) PROVE S!TypeOK' /\ LinksLeft'
  <2>1. CASE tries[r] = Retries
    <3>1. S!GiveUp(r) /\ UNCHANGED <<pidfile, entered>>
      BY <1>2, <2>1 DEF S!Link
    <3> QED
      BY <1>2, <3>1 DEF S!Link, S!GiveUp
  <2>2. CASE tries[r] # Retries /\ pidfile = None
    <3>1. /\ entered' = entered + 1 /\ UNCHANGED kernel
          /\ pidfile' = [pid |-> PidOf[r], native |-> S!IsNative(r)]
          /\ S!Go(r, "start") /\ S!Leave(r)
      BY <1>2, <2>2 DEF S!Link
    <3>2. pidfile' \in S!Holder
      BY <3>1 DEF S!Holder
    <3> QED
      BY <1>2, <3>1, <3>2 DEF S!Link
  <2>3. CASE tries[r] # Retries /\ pidfile # None
    BY <1>2, <2>3 DEF S!Link
  <2> QED
    BY <2>1, <2>2, <2>3
<1>3. ASSUME NEW r \in Threads, S!Look(r) PROVE S!TypeOK' /\ LinksLeft'
  <2>1. CASE S!Again(r) /\ UNCHANGED found
    BY <1>3, <2>1 DEF S!Look
  <2>2. CASE pidfile # None /\ S!Read(r) /\ S!Go(r, "probe") /\ UNCHANGED tries
    BY <1>3, <2>2 DEF S!Look
  <2> QED
    BY <1>3, <2>1, <2>2 DEF S!Look
<1>16. ASSUME NEW r \in Threads, S!Probe(r) PROVE S!TypeOK' /\ LinksLeft'
  <2>1. CASE S!Go(r, "break") /\ UNCHANGED <<tries, kernel>>
    BY <1>16, <2>1 DEF S!Probe
  <2>2. CASE S!GiveUp(r)
    BY <1>16, <2>2 DEF S!Probe, S!GiveUp
  <2> QED
    BY <1>16, <2>1, <2>2 DEF S!Probe
<1>4. ASSUME NEW r \in Threads, S!Break(r) PROVE S!TypeOK' /\ LinksLeft'
  BY <1>4 DEF S!Break
<1>5. ASSUME NEW r \in Threads, S!Reread(r) PROVE S!TypeOK' /\ LinksLeft'
  <2>1. CASE pidfile # None /\ S!Read(r) /\ S!Go(r, "judge") /\ UNCHANGED <<tries, breaker>>
    BY <1>5, <2>1 DEF S!Reread
  <2>2. CASE S!Again(r) /\ breaker' = None /\ UNCHANGED found
    BY <1>5, <2>2 DEF S!Reread
  <2> QED
    BY <1>5, <2>1, <2>2 DEF S!Reread
<1>17. ASSUME NEW r \in Threads, S!Judge(r) PROVE S!TypeOK' /\ LinksLeft'
  <2>1. outrun' \in BOOLEAN
    BY <1>17 DEF S!Judge
  <2>2. CASE S!Go(r, "note") /\ UNCHANGED <<tries, breaker>>
    BY <1>17, <2>1, <2>2 DEF S!Judge
  <2>3. CASE S!Again(r) /\ breaker' = None
    BY <1>17, <2>1, <2>3 DEF S!Judge
  <2> QED
    BY <1>17, <2>2, <2>3 DEF S!Judge
<1>6. ASSUME NEW r \in Threads, S!Note(r) PROVE S!TypeOK' /\ LinksLeft'
  <2>1. log' \in Seq(S!Events) /\ losses' \in Nat
    BY <1>6, StageRecord DEF S!Note, S!Events, S!Terminal
  <2> QED
    BY <1>6, <2>1 DEF S!Note
<1>7. ASSUME NEW r \in Threads, S!Unlink(r) PROVE S!TypeOK' /\ LinksLeft'
  BY <1>7 DEF S!Unlink
<1>8. ASSUME NEW r \in Threads, S!Start(r) PROVE S!TypeOK' /\ LinksLeft'
  <2>1. log' \in Seq(S!Events) /\ losses' \in Nat
    BY <1>8, StageRecord DEF S!Start, S!Events, S!Terminal
  <2>2. CASE at' = [at EXCEPT ![r] = "check"]
    BY <1>8, <2>1, <2>2 DEF S!Start
  <2>3. CASE at' = [at EXCEPT ![r] = "run"]
    BY <1>8, <2>1, <2>3 DEF S!Start
  <2> QED
    BY <1>8, <2>2, <2>3 DEF S!Start
<1>9. ASSUME NEW r \in Threads, S!End(r) PROVE S!TypeOK' /\ LinksLeft'
  <2>1. log' \in Seq(S!Events) /\ losses' \in Nat
    BY <1>9, StageRecord DEF S!End, S!Events, S!Terminal
  <2> QED
    BY <1>9, <2>1 DEF S!End
<1>10. ASSUME NEW r \in Threads, S!Check(r) PROVE S!TypeOK' /\ LinksLeft'
  <2>1. CASE at' = [at EXCEPT ![r] = "remove"]
    BY <1>10, <2>1 DEF S!Check
  <2>2. CASE at' = [at EXCEPT ![r] = "free"]
    BY <1>10, <2>2 DEF S!Check
  <2> QED
    BY <1>10, <2>1, <2>2 DEF S!Check
<1>18. ASSUME NEW r \in Threads, S!Remove(r) PROVE S!TypeOK' /\ LinksLeft'
  BY <1>18 DEF S!Remove
<1>11. ASSUME NEW r \in Threads, S!Free(r) PROVE S!TypeOK' /\ LinksLeft'
  BY <1>11 DEF S!Free
<1>12. ASSUME NEW p \in Pids, S!Die(p) PROVE S!TypeOK' /\ LinksLeft'
  BY <1>12 DEF S!Die
<1>13. ASSUME NEW p \in Pids, S!Reuse(p) PROVE S!TypeOK' /\ LinksLeft'
  BY <1>13 DEF S!Reuse
<1>14. CASE S!ForceBreak
  BY <1>14 DEF S!ForceBreak
<1>15. CASE UNCHANGED stageVars
  BY <1>15 DEF stageVars
<1> HIDE DEF S!TypeOK, LinksLeft
<1> QED
  BY <1>1, <1>2, <1>3, <1>4, <1>5, <1>6, <1>7, <1>8, <1>9, <1>10, <1>11, <1>12, <1>13,
     <1>14, <1>15, <1>16, <1>17, <1>18 DEF S!Next, S!Step

\* What a thread publishes is neither nothing nor torn.
LEMMA RecordIsNoMark ==
  ASSUME S!Assumptions, NEW r \in Threads
  PROVE  [pid |-> PidOf[r], native |-> S!IsNative(r)] \notin {None, Torn}
<1>1. [pid |-> PidOf[r], native |-> S!IsNative(r)] \in [pid : Pids, native : BOOLEAN]
  BY DEF S!Assumptions, S!IsNative
<1> QED
  BY <1>1 DEF S!Assumptions

\* Nobody owns the stage while its pidfile is judged stale and still the one that
\* was read: a dead process has no thread at work, and a thread with the lease
\* has not the stage yet.
LEMMA StaleIsNobodys ==
  ASSUME S!Assumptions, S!TypeOK, PidfileIsOwners, NEW r \in Threads, at[r] = "judge",
         S!Stale(r), pidfile = found[r]
  PROVE  \A q \in Threads : ~Owning(q)
<1> SUFFICES ASSUME NEW q \in Threads, Owning(q) PROVE FALSE
  OBVIOUS
<1>1. pidfile = [pid |-> PidOf[q], native |-> S!IsNative(q)] /\ q # r
  BY DEF PidfileIsOwners, Owning
<1>2. PidOf[q] \in alive
  BY DEF S!TypeOK, Owning
<1>3. pidfile # Torn
  BY <1>1, RecordIsNoMark
<1>4. pidfile.native => kernel = q
  BY <1>1 DEF S!TypeOK, Owning
<1> QED
  BY <1>1, <1>2, <1>3, <1>4 DEF S!Stale

\* A pidfile once broken by force, or by a breaker that was outrun, is counted.
LEMMA TrustIsLost == ASSUME S!TypeOK, [S!Next]_stageVars, S!Trusted' PROVE S!Trusted
<1> DEFINE Counted == (breaks' = breaks \/ breaks' = breaks + 1) /\ (outrun => outrun')
<1>1. Counted
  <2>1. ASSUME NEW r \in Threads, S!Enter(r)
        PROVE  Counted
    BY <2>1 DEF S!others, S!Enter
  <2>2. ASSUME NEW r \in Threads, S!Look(r)
        PROVE  Counted
    BY <2>2 DEF S!others, S!Look
  <2>3. ASSUME NEW r \in Threads, S!Probe(r)
        PROVE  Counted
    BY <2>3 DEF S!others, S!Probe
  <2>4. ASSUME NEW r \in Threads, S!Link(r)
        PROVE  Counted
    BY <2>4 DEF S!others, S!Link
  <2>5. ASSUME NEW r \in Threads, S!Break(r) \/ S!Reread(r)
        PROVE  Counted
    BY <2>5 DEF S!others, S!Break, S!Reread
  <2>6. ASSUME NEW r \in Threads, S!Judge(r)
        PROVE  Counted
    BY <2>6 DEF S!others, S!Judge
  <2>7. ASSUME NEW r \in Threads, S!Note(r) \/ S!Unlink(r) \/ S!Start(r) \/ S!End(r)
        PROVE  Counted
    BY <2>7 DEF S!others, S!Note, S!Unlink, S!Start, S!End
  <2>8. ASSUME NEW r \in Threads, S!Check(r) \/ S!Remove(r) \/ S!Free(r)
        PROVE  Counted
    BY <2>8 DEF S!others, S!Check, S!Remove, S!Free
  <2>9. CASE S!ForceBreak \/ UNCHANGED stageVars \/ \E p \in Pids : S!Die(p) \/ S!Reuse(p)
    BY <2>9 DEF stageVars, S!Die, S!Reuse, S!ForceBreak
  <2> QED
    BY <2>1, <2>2, <2>3, <2>4, <2>5, <2>6, <2>7, <2>8, <2>9 DEF S!Next, S!Step
<1> QED
  BY <1>1 DEF S!TypeOK, S!Trusted

\* While nobody breaks a live pidfile, it is the owner's, and goes with it.
LEMMA StageOwners ==
  ASSUME S!Assumptions, S!TypeOK, S!Trusted => PidfileIsOwners, [S!Next]_stageVars, S!Trusted'
  PROVE  PidfileIsOwners'
<1>0. breaks = 0 /\ PidfileIsOwners
  BY TrustIsLost DEF S!Trusted
<1> USE DEF PidfileIsOwners, Owning, S!IsNative, S!Go, S!Again, S!Leave, S!lockVars, S!record, S!others
<1>1. ASSUME NEW r \in Threads, S!Enter(r) PROVE PidfileIsOwners'
  BY <1>0, <1>1 DEF S!Enter, S!TypeOK
<1>2. ASSUME NEW r \in Threads, S!Link(r) PROVE PidfileIsOwners'
  <2>1. CASE tries[r] = Retries
    BY <1>0, <1>2, <2>1 DEF S!Link, S!GiveUp, S!TypeOK
  <2>2. CASE tries[r] # Retries /\ pidfile = None
    <3>1. \A q \in Threads : ~Owning(q) /\ at[q] \notin {"note", "unlink"}
      BY <1>0, <2>2, RecordIsNoMark
    <3>2. /\ pidfile' = [pid |-> PidOf[r], native |-> S!IsNative(r)] /\ UNCHANGED native
          /\ at' = [at EXCEPT ![r] = "start"]
      BY <1>2, <2>2 DEF S!Link
    <3> QED
      BY <3>1, <3>2 DEF S!TypeOK
  <2>3. CASE tries[r] # Retries /\ pidfile # None
    BY <1>0, <1>2, <2>3 DEF S!Link, S!TypeOK
  <2> QED
    BY <2>1, <2>2, <2>3
<1>3. ASSUME NEW r \in Threads, S!Look(r) PROVE PidfileIsOwners'
  <2>1. PICK s \in {"link", "probe"} : at' = [at EXCEPT ![r] = s]
    BY <1>3 DEF S!Look
  <2> QED
    BY <1>0, <1>3, <2>1 DEF S!Look, S!TypeOK
<1>15. ASSUME NEW r \in Threads, S!Probe(r) PROVE PidfileIsOwners'
  <2>1. PICK s \in {"break", "idle"} : at' = [at EXCEPT ![r] = s]
    BY <1>15 DEF S!Probe, S!GiveUp
  <2> QED
    BY <1>0, <1>15, <2>1 DEF S!Probe, S!TypeOK
<1>4. ASSUME NEW r \in Threads, S!Break(r) PROVE PidfileIsOwners'
  BY <1>0, <1>4 DEF S!Break, S!TypeOK
<1>5. ASSUME NEW r \in Threads, S!Reread(r) PROVE PidfileIsOwners'
  <2>1. PICK s \in {"link", "judge"} : at' = [at EXCEPT ![r] = s]
    BY <1>5 DEF S!Reread
  <2> QED
    BY <1>0, <1>5, <2>1 DEF S!Reread, S!TypeOK
<1>16. ASSUME NEW r \in Threads, S!Judge(r) PROVE PidfileIsOwners'
  <2>1. CASE S!StillStale(r) /\ at' = [at EXCEPT ![r] = "note"]
    <3>1. pidfile = found[r] /\ found[r] # None
      BY <1>16, <2>1 DEF S!Judge, S!Outruns, S!Trusted, S!TypeOK
    <3>2. \A q \in Threads : ~Owning(q)
      BY <1>0, <1>16, <2>1, <3>1, StaleIsNobodys DEF S!Judge, S!StillStale
    <3> QED
      BY <1>0, <1>16, <2>1, <3>1, <3>2 DEF S!Judge, S!TypeOK
  <2>2. CASE at' = [at EXCEPT ![r] = "link"]
    BY <1>0, <1>16, <2>2 DEF S!Judge, S!TypeOK
  <2> QED
    BY <1>16, <2>1, <2>2 DEF S!Judge
<1>6. ASSUME NEW r \in Threads, S!Note(r) PROVE PidfileIsOwners'
  BY <1>0, <1>6 DEF S!Note, S!TypeOK
<1>7. ASSUME NEW r \in Threads, S!Unlink(r) PROVE PidfileIsOwners'
  <2>1. \A q \in Threads : at[q] \in {"note", "unlink"} => q = r
    BY <1>7 DEF S!Unlink, S!TypeOK
  <2>2. \A q \in Threads : ~Owning(q)
    BY <1>0, <1>7 DEF S!Unlink
  <2> QED
    BY <1>7, <2>1, <2>2 DEF S!Unlink, S!TypeOK
<1>8. ASSUME NEW r \in Threads, S!Start(r) \/ S!End(r) \/ S!Check(r) PROVE PidfileIsOwners'
  <2>1. PICK s \in {"check", "run", "remove", "free"} :
           /\ Owning(r) /\ at' = [at EXCEPT ![r] = s] /\ UNCHANGED <<pidfile, native>>
    BY <1>8 DEF S!Start, S!End, S!Check
  <2> QED
    BY <1>0, <2>1 DEF S!TypeOK
<1>9. ASSUME NEW r \in Threads, S!Remove(r) PROVE PidfileIsOwners'
  BY <1>0, <1>9 DEF S!Remove, S!TypeOK
<1>10. ASSUME NEW r \in Threads, S!Free(r) PROVE PidfileIsOwners'
  BY <1>0, <1>10 DEF S!Free, S!TypeOK
<1>11. ASSUME NEW p \in Pids, S!Die(p) PROVE PidfileIsOwners'
  <2>1. \A q \in Threads : at'[q] # "idle" => at'[q] = at[q]
    BY <1>11 DEF S!Die
  <2> QED
    BY <1>0, <1>11, <2>1 DEF S!Die
<1>12. ASSUME NEW p \in Pids, S!Reuse(p) PROVE PidfileIsOwners'
  BY <1>0, <1>12 DEF S!Reuse
<1>13. CASE S!ForceBreak
  BY <1>0, <1>13 DEF S!ForceBreak, S!Trusted, S!TypeOK
<1>14. CASE UNCHANGED stageVars
  BY <1>0, <1>14 DEF stageVars
<1> HIDE DEF PidfileIsOwners
<1> QED
  BY <1>1, <1>2, <1>3, <1>4, <1>5, <1>6, <1>7, <1>8, <1>9, <1>10, <1>11, <1>12, <1>13, <1>14,
     <1>15, <1>16 DEF S!Next, S!Step

-----------------------------------------------------------------------------
(* What the log says of the stage.                                         *)

\* A round was begun and nothing has ended it.
Begun == log # <<>> /\ log[Len(log)] = "start"

\* The log reads "running" if its last event is a start (rebuild_state).
LEMMA RunningIsBegun ==
  ASSUME log \in Seq(S!Events) PROVE S!Status = "running" <=> Begun
<1> USE DEF S!Events, S!Terminal
<1>1. /\ Len(log) \in Nat /\ DOMAIN log = 1..Len(log)
      /\ \A k \in DOMAIN log : log[k] \in S!Events
  OBVIOUS
<1>2. S!Starts \subseteq 1..Len(log)
  BY <1>1 DEF S!Starts
<1>3. ASSUME S!Starts # {}
      PROVE  S!LastStart \in S!Starts /\ \A l \in S!Starts : l <= S!LastStart
  BY <1>1, <1>2, <1>3, Greatest DEF S!LastStart
<1>4. CASE log = <<>>
  BY <1>4 DEF S!Starts, S!Status, Begun
<1>5. CASE log # <<>> /\ log[Len(log)] = "start"
  <2>1. Len(log) \in S!Starts
    BY <1>1, <1>5 DEF S!Starts
  <2>2. S!LastStart = Len(log)
    <3>1. S!LastStart \in S!Starts /\ Len(log) <= S!LastStart
      BY <1>3, <2>1
    <3>2. PICK m \in S!Starts : m = S!LastStart
      BY <3>1
    <3>3. m \in 1..Len(log) /\ Len(log) <= m
      BY <1>2, <3>1, <3>2
    <3>4. PICK n \in Nat : n = Len(log)
      BY <1>1
    <3>5. m = n
      BY <3>3, <3>4
    <3> QED
      BY <3>2, <3>4, <3>5
  <2>3. S!Ends = {}
    BY <1>1, <1>5, <2>2 DEF S!Ends
  <2> QED
    BY <1>5, <2>1, <2>3 DEF S!Status, Begun
<1>6. CASE log # <<>> /\ log[Len(log)] # "start"
  <2>1. CASE S!Starts = {}
    BY <1>6, <2>1 DEF S!Status, Begun
  <2>2. CASE S!Starts # {}
    <3>1. S!LastStart \in 1..Len(log)
      BY <1>2, <1>3, <2>2
    <3>2. Len(log) \in S!Ends /\ \A l \in S!Ends : l \in Nat /\ l <= Len(log)
      BY <1>1, <1>6, <3>1 DEF S!Ends
    <3> DEFINE end == CHOOSE k \in S!Ends : \A l \in S!Ends : l <= k
    <3>3. end \in S!Ends /\ Len(log) <= end
      BY <3>2
    <3>4. S!Status = log[end]
      BY <2>2, <3>2 DEF S!Status
    <3>5. end = Len(log)
      <4> HIDE DEF end
      <4> QED
        BY <1>1, <3>2, <3>3
    <3>6. log[Len(log)] \in S!Events
      BY <1>1, <3>1
    <3> QED
      BY <1>6, <3>4, <3>5, <3>6 DEF Begun
  <2> QED
    BY <2>1, <2>2
<1> QED
  BY <1>4, <1>5, <1>6

\* The log of a live run ends with its start.
LiveReads == S!Guarded => \A r \in Threads : at[r] = "run" => Begun

\* No pidfile goes that a begun round may still need, if nothing was lost.
Traced ==
    S!Trusted /\ losses = 0 =>
       /\ Begun => S!Published
       /\ \A r \in Threads : at[r] \in {"check", "remove", "unlink"} => ~Begun

\* What an append makes of the end of the log.
LEMMA BegunByStart ==
  ASSUME log \in Seq(S!Events), NEW e \in S!Events, log' = Append(log, e)
  PROVE  (Begun' <=> e = "start") /\ log' # log
<1>1. Len(log) \in Nat /\ Len(log') = Len(log) + 1 /\ log'[Len(log) + 1] = e
  OBVIOUS
<1>2. log' # <<>> /\ log'[Len(log')] = e
  BY <1>1
<1> QED
  BY <1>1, <1>2 DEF Begun

\* While a thread runs the stage no other is about to write to the log, and
\* while one is about to break a pidfile nobody has the stage.
LEMMA OneWriter ==
  ASSUME S!Assumptions, StageInv, S!Guarded, NEW q \in Threads, NEW r \in Threads,
         at[r] \in {"start", "run"}
  PROVE  at[q] \in {"start", "run", "note", "unlink"} => q = r
<1>1. CASE S!Trusted
  BY <1>1 DEF StageInv, PidfileIsOwners, Owning
<1>2. CASE native = Pids
  BY <1>2 DEF StageInv, S!TypeOK, S!IsNative, S!Assumptions
<1> QED
  BY <1>1, <1>2 DEF S!Guarded

\* Every step that is no append leaves the log as it is.
Appends(r) == S!Note(r) \/ S!Start(r) \/ S!End(r)
LEMMA LogKept ==
  ASSUME [S!Next]_stageVars, \A r \in Threads : ~Appends(r) PROVE UNCHANGED <<log, losses>>
  BY DEF Appends, S!Next, S!Step, S!Enter, S!Link, S!Look, S!Probe, S!Break, S!Reread,
         S!Judge, S!Unlink, S!Check, S!Remove, S!Free, S!Die, S!Reuse, S!ForceBreak,
         S!record, S!lockVars, S!others, stageVars

LEMMA LiveStep ==
  ASSUME S!Assumptions, StageInv, LiveReads, [S!Next]_stageVars PROVE LiveReads'
<1> SUFFICES ASSUME S!Guarded', NEW r \in Threads, at'[r] = "run" PROVE Begun'
  BY DEF LiveReads
<1>1. S!Guarded
  <2>1. UNCHANGED native
    BY DEF S!Next, S!Step, stageVars, S!others, S!Enter, S!Link, S!Look, S!Probe, S!Break,
           S!Reread, S!Judge, S!Note, S!Unlink, S!Start, S!End, S!Check, S!Remove, S!Free,
           S!Die, S!Reuse, S!ForceBreak
  <2> QED
    BY <2>1, TrustIsLost DEF S!Guarded, StageInv
<1> USE DEF S!Events, S!Terminal
<1>2. log \in Seq(S!Events) /\ at \in [Threads -> S!Stages]
  BY DEF StageInv, S!TypeOK
<1>3. ASSUME NEW q \in Threads, S!Start(q) PROVE Begun'
  <2>1. CASE q = r
    <3>1. log' # log
      BY <1>2, <1>3, <2>1 DEF S!Start, S!Go
    <3>2. log' = Append(log, "start")
      BY <1>3, <3>1 DEF S!Start, S!Record
    <3> QED
      BY <1>2, <3>2, BegunByStart
  <2>2. CASE q # r
    <3>1. at[r] = "run"
      BY <1>2, <1>3, <2>2 DEF S!Start, S!Go
    <3> QED
      BY <1>1, <1>3, <2>2, <3>1, OneWriter DEF S!Start
  <2> QED
    BY <2>1, <2>2
<1>4. ASSUME NEW q \in Threads, S!Note(q) \/ S!End(q) PROVE Begun'
  <2>1. at[q] \in {"note", "run"} /\ at[r] = "run" /\ q # r
    BY <1>2, <1>4 DEF S!Note, S!End, S!Go
  <2> QED
    BY <1>1, <2>1, OneWriter
<1>5. CASE \A q \in Threads : ~Appends(q)
  <2>1. UNCHANGED log
    BY <1>5, LogKept
  <2>2. at[r] = "run"
    BY <1>2, <1>5 DEF Appends, S!Next, S!Step, S!Enter, S!Link, S!Look, S!Probe, S!Break,
         S!Reread, S!Judge, S!Unlink, S!Check, S!Remove, S!Free, S!Die, S!Reuse,
         S!ForceBreak, stageVars, S!Go, S!GiveUp, S!Again, S!others, S!record
  <2> QED
    BY <1>1, <2>1, <2>2 DEF LiveReads, Begun
<1> QED
  BY <1>3, <1>4, <1>5 DEF Appends

\* The steps that append nothing keep the pidfile, or take it away when no round
\* is begun.
LEMMA QuietTraced ==
  ASSUME S!Assumptions, StageInv, Traced, S!Trusted, losses = 0, [S!Next]_stageVars,
         \A r \in Threads : ~Appends(r), S!Trusted'
  PROVE  Traced'
<1>1. UNCHANGED log
  BY LogKept
<1>2. Begun' <=> Begun
  BY <1>1 DEF Begun
<1>3. at \in [Threads -> S!Stages]
  BY DEF StageInv, S!TypeOK
<1> USE DEF Traced, S!Go, S!Again, S!Leave, S!Published, S!lockVars, S!others, S!record
<1>4. ASSUME NEW r \in Threads, S!Enter(r) PROVE Traced'
  BY <1>2, <1>3, <1>4 DEF S!Enter
<1>5. ASSUME NEW r \in Threads, S!Link(r) PROVE Traced'
  <2>1. UNCHANGED pidfile \/ S!Published'
    <3>1. [pid |-> PidOf[r], native |-> S!IsNative(r)] \notin {None, Torn}
      BY RecordIsNoMark
    <3> QED
      BY <1>5, <3>1 DEF S!Link
  <2>2. \A q \in Threads : at'[q] \in {"check", "remove", "unlink"} => at[q] = at'[q]
    BY <1>3, <1>5 DEF S!Link, S!GiveUp
  <2> QED
    BY <1>2, <2>1, <2>2
<1>6. ASSUME NEW r \in Threads, S!Look(r) PROVE Traced'
  <2>1. \A q \in Threads : at'[q] \in {"check", "remove", "unlink"} => at[q] = at'[q]
    BY <1>3, <1>6 DEF S!Look
  <2> QED
    BY <1>2, <1>6, <2>1 DEF S!Look
<1>12. ASSUME NEW r \in Threads, S!Probe(r) PROVE Traced'
  <2>1. \A q \in Threads : at'[q] \in {"check", "remove", "unlink"} => at[q] = at'[q]
    BY <1>3, <1>12 DEF S!Probe, S!GiveUp
  <2> QED
    BY <1>2, <1>12, <2>1 DEF S!Probe
<1>7. ASSUME NEW r \in Threads, S!Break(r) \/ S!Reread(r) \/ S!Judge(r) \/ S!Free(r)
      PROVE  Traced'
  <2>1. \A q \in Threads : at'[q] \in {"check", "remove", "unlink"} => at[q] = at'[q]
    BY <1>3, <1>7 DEF S!Break, S!Reread, S!Judge, S!Free
  <2> QED
    BY <1>2, <1>7, <2>1 DEF S!Break, S!Reread, S!Judge, S!Free
<1>8. ASSUME NEW r \in Threads, S!Check(r) \/ S!Remove(r) \/ S!Unlink(r) PROVE Traced'
  <2>1. ~Begun
    BY <1>8 DEF S!Check, S!Remove, S!Unlink
  <2> QED
    BY <1>2, <2>1
<1>9. ASSUME NEW p \in Pids, S!Die(p) \/ S!Reuse(p) PROVE Traced'
  <2>1. UNCHANGED pidfile /\ \A q \in Threads : at'[q] \in {at[q], "idle"}
    BY <1>3, <1>9 DEF S!Die, S!Reuse
  <2> QED
    BY <1>2, <2>1
<1>10. ~S!ForceBreak
  BY DEF S!ForceBreak, StageInv, S!TypeOK, S!Trusted
<1>11. CASE UNCHANGED stageVars
  BY <1>2, <1>11 DEF stageVars
<1> HIDE DEF Traced
<1> QED
  BY <1>4, <1>5, <1>6, <1>7, <1>8, <1>9, <1>10, <1>11, <1>12 DEF S!Next, S!Step, Appends

\* Nothing is lost for good before what is lost is counted.
LEMMA LossesCount ==
  ASSUME StageInv, [S!Next]_stageVars, losses' = 0
  PROVE  losses = 0 /\ UNCHANGED losses
<1>1. losses \in Nat
  BY DEF StageInv, S!TypeOK
<1>2. losses' = losses \/ losses' = losses + 1
  BY DEF S!Next, S!Step, S!Enter, S!Link, S!Look, S!Probe, S!Break, S!Reread, S!Judge,
         S!Note, S!Unlink, S!Start, S!End, S!Check, S!Remove, S!Free, S!Die, S!Reuse,
         S!ForceBreak, S!Record, S!record, S!lockVars, S!others, stageVars
<1> QED
  BY <1>1, <1>2

LEMMA TracedStep ==
  ASSUME S!Assumptions, StageInv, Traced, [S!Next]_stageVars PROVE Traced'
<1> SUFFICES ASSUME S!Trusted', losses' = 0 PROVE Traced'
  BY DEF Traced
<1>1. S!Trusted /\ losses = 0 /\ UNCHANGED losses
  BY LossesCount, TrustIsLost DEF StageInv
<1>2. PidfileIsOwners
  BY <1>1 DEF StageInv
<1>3. log \in Seq(S!Events) /\ at \in [Threads -> S!Stages] /\ losses \in Nat
  BY DEF StageInv, S!TypeOK
<1> USE DEF S!Events, S!Terminal, S!Go
<1>4. ASSUME NEW r \in Threads, S!Note(r) \/ S!End(r) PROVE Traced'
  <2>1. PICK e \in S!Terminal : log' = Append(log, e)
    BY <1>1, <1>3, <1>4 DEF S!Note, S!End, S!Record
  <2>2. ~Begun'
    BY <1>3, <2>1, BegunByStart
  <2> QED
    BY <2>2 DEF Traced
<1>5. ASSUME NEW r \in Threads, S!Start(r) PROVE Traced'
  <2>1. log' = Append(log, "start") /\ log' # log
    BY <1>1, <1>3, <1>5, BegunByStart DEF S!Start, S!Record
  <2>2. at' = [at EXCEPT ![r] = "run"] /\ UNCHANGED pidfile /\ at[r] = "start"
    BY <1>5, <2>1 DEF S!Start, S!lockVars
  <2>3. S!Published'
    BY <1>2, <2>2, RecordIsNoMark DEF PidfileIsOwners, Owning, S!Published
  <2>4. \A q \in Threads : at'[q] \notin {"check", "remove", "unlink"}
    BY <1>2, <1>3, <2>2 DEF PidfileIsOwners, Owning
  <2> QED
    BY <2>3, <2>4 DEF Traced
<1>6. CASE \A r \in Threads : ~Appends(r)
  BY <1>1, <1>6, QuietTraced
<1> QED
  BY <1>4, <1>5, <1>6 DEF Appends

\* The requests that hold a permit.
Holders == {q \in HttpRequests : place[q] \in K!Holding}

\* A token that is cancelled is that of a question that was registered.
TokensAreRegistered == \A q \in cancelled : place[q] \in {"answering", "ending", "leaving"}

ServerInv == /\ K!TypeOK /\ K!RegistryIsExact /\ K!PermitsReturn
        /\ K!CancelledByOwn /\ TokensAreRegistered

\* The steps that take no permit and give none back.
Keeps(q) == K!Register(q) \/ K!Operate(q) \/ K!End(q) \/ K!Deregister(q)

-----------------------------------------------------------------------------
(* A server.  The tokens of the questions being answered are the registry's, *)
(* and every request between its grant and its end has a permit.           *)

\* What stands for no caller and no id is one.
LEMMA ServerSomeOne ==
  ASSUME K!Assumptions
  PROVE  K!AnyOf(HttpCallers) \in HttpCallers /\ K!AnyOf(RequestIds) \in RequestIds
  BY DEF K!Assumptions, K!AnyOf

\* Every step keeps the types.
LEMMA ServerTypes == ASSUME K!Assumptions, K!TypeOK, [K!Next]_serverVars PROVE K!TypeOK'
<1> USE ServerSomeOne DEF K!TypeOK, K!Places, K!Goto, K!tokens, K!request
<1>1. ASSUME NEW q \in HttpRequests, NEW what \in {"ask", "operation"}, NEW c \in HttpCallers,
             NEW i \in RequestIds, K!Arrive(q, what, c, i)
      PROVE K!TypeOK'
  BY <1>1 DEF K!Arrive
<1>2. ASSUME NEW q \in HttpRequests, K!Acquire(q) PROVE K!TypeOK'
  BY <1>2 DEF K!Acquire, K!Over
<1>3. ASSUME NEW q \in HttpRequests, K!Register(q) PROVE K!TypeOK'
  BY <1>3 DEF K!Register, K!Refused
<1>4. ASSUME NEW q \in HttpRequests, K!Operate(q) \/ K!End(q) PROVE K!TypeOK'
  BY <1>4 DEF K!Operate, K!End
<1>5. ASSUME NEW q \in HttpRequests, K!Deregister(q) PROVE K!TypeOK'
  BY <1>5 DEF K!Deregister
<1>6. ASSUME NEW q \in HttpRequests, K!Leave(q) PROVE K!TypeOK'
  BY <1>6 DEF K!Leave, K!Over, K!OneBack
<1>7. ASSUME NEW c \in HttpCallers, NEW i \in RequestIds, K!Cancel(c, i) PROVE K!TypeOK'
  BY <1>7 DEF K!Cancel
<1>8. CASE UNCHANGED serverVars
  BY <1>8 DEF serverVars
<1> QED
  BY <1>1, <1>2, <1>3, <1>4, <1>5, <1>6, <1>7, <1>8 DEF K!Next

\* A question enters the registry only if its id is free, and leaves it alone.
LEMMA ServerRegistry ==
  ASSUME K!Assumptions, K!TypeOK, K!RegistryIsExact, [K!Next]_serverVars PROVE K!RegistryIsExact'
<1> USE DEF K!TypeOK, K!RegistryIsExact, K!Goto, K!tokens, K!request
<1>1. ASSUME NEW q \in HttpRequests, NEW what \in {"ask", "operation"}, NEW c \in HttpCallers,
             NEW i \in RequestIds, K!Arrive(q, what, c, i)
      PROVE K!RegistryIsExact'
  BY <1>1 DEF K!Arrive
<1>2. ASSUME NEW q \in HttpRequests, K!Acquire(q) \/ K!Leave(q) PROVE K!RegistryIsExact'
  BY <1>2 DEF K!Acquire, K!Leave, K!Over
<1>3. ASSUME NEW q \in HttpRequests, K!Register(q) PROVE K!RegistryIsExact'
  <2>1. place' \in [HttpRequests -> K!Places] /\ place[q] = "permitted" /\ UNCHANGED id
    BY <1>3 DEF K!Register, K!Refused, K!Places
  <2>2. CASE K!Named(id[q]) \/ ~K!MayAsk(who[q])
    BY <1>3, <2>2 DEF K!Register, K!Refused
  <2>3. CASE ~K!Named(id[q]) /\ K!MayAsk(who[q])
    <3>1. place' = [place EXCEPT ![q] = "answering"] /\ active' = active \cup {<<id[q], q>>}
      BY <1>3, <2>3 DEF K!Register
    <3>2. \A e \in active : e[1] # id[q] /\ e[2] # q
      BY <2>1, <2>3 DEF K!Named
    <3>3. \A o \in HttpRequests : place'[o] \in {"answering", "ending"} => <<id[o], o>> \in active'
      BY <3>1
    <3>4. \A e \in active' : place'[e[2]] \in {"answering", "ending"} /\ id[e[2]] = e[1]
      BY <3>1, <3>2
    <3>5. \A d, e \in active' : d[1] = e[1] => d = e
      BY <3>1, <3>2
    <3> QED
      BY <2>1, <3>3, <3>4, <3>5
  <2> QED
    BY <2>2, <2>3
<1>4. ASSUME NEW q \in HttpRequests, K!Operate(q) \/ K!End(q) PROVE K!RegistryIsExact'
  BY <1>4 DEF K!Operate, K!End
<1>5. ASSUME NEW q \in HttpRequests, K!Deregister(q) PROVE K!RegistryIsExact'
  BY <1>5 DEF K!Deregister
<1>6. ASSUME NEW c \in HttpCallers, NEW i \in RequestIds, K!Cancel(c, i) PROVE K!RegistryIsExact'
  BY <1>6 DEF K!Cancel
<1>7. CASE UNCHANGED serverVars
  BY <1>7 DEF serverVars
<1> QED
  BY <1>1, <1>2, <1>3, <1>4, <1>5, <1>6, <1>7 DEF K!Next

\* The drop of a lease cancels the question that ends, for its id names no other.
LEMMA ServerTokens ==
  ASSUME K!Assumptions, K!TypeOK, K!RegistryIsExact, K!CancelledByOwn, TokensAreRegistered,
         [K!Next]_serverVars
  PROVE  K!CancelledByOwn' /\ TokensAreRegistered'
<1> USE DEF K!TypeOK, K!CancelledByOwn, TokensAreRegistered, K!Goto, K!tokens, K!request
<1>1. ASSUME NEW q \in HttpRequests, NEW what \in {"ask", "operation"}, NEW c \in HttpCallers,
             NEW i \in RequestIds, K!Arrive(q, what, c, i)
      PROVE K!CancelledByOwn' /\ TokensAreRegistered'
  BY <1>1 DEF K!Arrive
<1>2. ASSUME NEW q \in HttpRequests, K!Acquire(q) \/ K!Leave(q)
      PROVE K!CancelledByOwn' /\ TokensAreRegistered'
  BY <1>2 DEF K!Acquire, K!Leave, K!Over
<1>3. ASSUME NEW q \in HttpRequests, K!Register(q) \/ K!Operate(q) \/ K!End(q)
      PROVE K!CancelledByOwn' /\ TokensAreRegistered'
  BY <1>3 DEF K!Register, K!Refused, K!Operate, K!End
<1>4. ASSUME NEW q \in HttpRequests, K!Deregister(q)
      PROVE K!CancelledByOwn' /\ TokensAreRegistered'
  <2>1. <<id[q], q>> \in active /\ \A o \in HttpRequests : <<id[q], o>> \in active => o = q
    BY <1>4 DEF K!Deregister, K!RegistryIsExact
  <2> QED
    BY <1>4, <2>1 DEF K!Deregister
<1>5. ASSUME NEW c \in HttpCallers, NEW i \in RequestIds, K!Cancel(c, i)
      PROVE K!CancelledByOwn' /\ TokensAreRegistered'
  <2>1. PICK q \in HttpRequests :
          /\ <<i, q>> \in active /\ K!SameCaller(c, q)
          /\ cancelled' = cancelled \cup {q}
          /\ wished' = IF who[q] = c THEN wished \cup {q} ELSE wished
    BY <1>5 DEF K!Cancel
  <2>2. place[q] \in {"answering", "ending"}
    BY <2>1 DEF K!RegistryIsExact
  <2>3. UNCHANGED place
    BY <1>5 DEF K!Cancel
  <2> QED
    BY <2>1, <2>2, <2>3 DEF K!SameCaller
<1>6. CASE UNCHANGED serverVars
  BY <1>6 DEF serverVars
<1> QED
  BY <1>1, <1>2, <1>3, <1>4, <1>5, <1>6 DEF K!Next

\* Sets are counted by one operator, whichever module it is named in.
LEMMA OneCount ==
  ASSUME NEW T
  PROVE  K!Cardinality(T) = Cardinality(T) /\ (K!IsFiniteSet(T) <=> IsFiniteSet(T))
<1>1. K!Cardinality(T) = Cardinality(T)
  BY DEF K!Cardinality, Cardinality
<1>2. K!IsFiniteSet(T) <=> IsFiniteSet(T)
  BY DEF K!IsFiniteSet, IsFiniteSet
<1> QED
  BY <1>1, <1>2

\* A permit is taken by one request and given back by it.
LEMMA ServerPermits ==
  ASSUME K!Assumptions, K!TypeOK, K!PermitsReturn, [K!Next]_serverVars PROVE K!PermitsReturn'
<1>1. IsFiniteSet(Holders) /\ permits + Cardinality(Holders) = Permits /\ permits \in Nat
  <2>1. IsFiniteSet(HttpRequests) /\ Holders \subseteq HttpRequests
    BY OneCount DEF K!Assumptions, Holders
  <2>2. IsFiniteSet(Holders)
    BY <2>1, FS_Subset
  <2>3. permits + Cardinality(Holders) = Permits
    BY OneCount DEF Holders, K!PermitsReturn
  <2> QED
    BY <2>2, <2>3 DEF K!TypeOK
<1>2. Cardinality(Holders) \in Nat
  BY <1>1, FS_CardinalityType
<1>3. SUFFICES permits' + Cardinality(Holders') = Permits
  <2>1. K!PermitsReturn' <=> permits' + K!Cardinality(Holders') = Permits
    BY DEF K!PermitsReturn, Holders
  <2>2. K!Cardinality(Holders') = Cardinality(Holders')
    BY OneCount
  <2> QED
    BY <2>1, <2>2
<1>4. ASSUME Holders' = Holders, UNCHANGED permits
      PROVE permits' + Cardinality(Holders') = Permits
  BY <1>1, <1>4
<1> USE DEF K!TypeOK, K!Goto, K!Holding
<1>5. ASSUME NEW q \in HttpRequests, NEW what \in {"ask", "operation"}, NEW c \in HttpCallers,
             NEW i \in RequestIds, K!Arrive(q, what, c, i)
      PROVE Holders' = Holders /\ UNCHANGED permits
  BY <1>5 DEF K!Arrive, Holders
<1>6. ASSUME NEW q \in HttpRequests, Keeps(q)
      PROVE Holders' = Holders /\ UNCHANGED permits
  BY <1>6 DEF Keeps, K!Register, K!Refused, K!Operate, K!End, K!Deregister, Holders
<1>7. ASSUME NEW c \in HttpCallers, NEW i \in RequestIds, K!Cancel(c, i)
      PROVE Holders' = Holders /\ UNCHANGED permits
  BY <1>7 DEF K!Cancel, Holders
<1>8. CASE UNCHANGED serverVars
  <2>1. Holders' = Holders /\ UNCHANGED permits
    BY <1>8 DEF serverVars, Holders
  <2> QED
    BY <2>1, <1>4
<1>9. ASSUME NEW q \in HttpRequests, K!Acquire(q)
      PROVE permits' + Cardinality(Holders') = Permits
  <2>1. CASE permits > 0
    <3>1. Holders' = Holders \cup {q} /\ q \notin Holders /\ permits' = permits - 1
      BY <1>9, <2>1 DEF K!Acquire, Holders
    <3>2. Cardinality(Holders') = Cardinality(Holders) + 1
      BY <1>1, <3>1, FS_AddElement
    <3> QED
      BY <1>1, <1>2, <3>1, <3>2
  <2>2. CASE ~(permits > 0)
    <3>1. Holders' = Holders /\ UNCHANGED permits
      BY <1>9, <2>2 DEF K!Acquire, K!Over, Holders
    <3> QED
      BY <3>1, <1>4
  <2> QED
    BY <2>1, <2>2
<1>10. ASSUME NEW q \in HttpRequests, K!Leave(q)
       PROVE permits' + Cardinality(Holders') = Permits
  <2>1. Holders' = Holders \ {q} /\ q \in Holders /\ permits' = permits + 1
    BY <1>10 DEF K!Leave, K!OneBack, K!Over, Holders
  <2>2. Cardinality(Holders') = Cardinality(Holders) - 1
    BY <1>1, <2>1, FS_RemoveElement
  <2> QED
    BY <1>1, <1>2, <2>1, <2>2
<1> QED
  BY <1>4, <1>5, <1>6, <1>7, <1>8, <1>9, <1>10 DEF K!Next, Keeps

-----------------------------------------------------------------------------
(* Operations.  What was done was granted to who asked, and a job waiting  *)
(* to be run is one its enqueuer could have run.                           *)

\* Two arguments matter to what an operation needs.
Argument(r) ==
    /\ r.op = "legacy_query" => r.arg \in {"basic", "promote"}
    /\ r.op = "maintenance_repair" => r.arg \in {"clean", "auto_fix", "deep_lint"}
Operations == O!Plain \cup {"legacy_query", "maintenance_repair", "source_write", "source_delete"}

\* What was granted to a principal, the embedding of its query excepted.
Asked(r) == IF r.op = "hybrid_search" THEN {"Model"} ELSE {}

\* A queued or failed job is one its enqueuer might have done itself, and who
\* enqueues has Private.
JobIsGranted ==
    job # None => /\ job \in [request : O!Requests \cup O!SourceWrites, by : Principals,
                               status : {"queued", "failed"}]
                  /\ job.request.op # "ns.extension"
                  /\ O!Authorized(job.by, job.request)
                  /\ "Private" \in job.by

AppInv == O!EffectsAreGranted /\ JobIsGranted

\* What the table is asked about.
LEMMA RequestShape ==
  ASSUME NEW r \in O!Requests \cup O!SourceWrites
  PROVE  r.op \in Operations /\ Argument(r)
<1>1. CASE r \in O!PlainRequests
  <2>1. PICK o \in O!Plain : r = [op |-> o, arg |-> "", private |-> FALSE]
    BY <1>1 DEF O!PlainRequests, O!Request
  <2>2. o # "legacy_query" /\ o # "maintenance_repair"
    BY DEF O!Plain
  <2> QED
    BY <2>1, <2>2 DEF Operations, Argument
<1>2. CASE r \in O!Queries
  BY <1>2 DEF O!Queries, O!Request, Operations, Argument
<1>3. CASE r \in O!Repairs
  <2>1. PICK arg \in {"clean", "auto_fix", "deep_lint"}, private \in BOOLEAN :
          r = [op |-> "maintenance_repair", arg |-> arg, private |-> private]
    BY <1>3 DEF O!Repairs, O!Request
  <2> QED
    BY <2>1 DEF Operations, Argument
<1>4. CASE r \in O!SourceWrites
  <2>1. PICK o \in {"source_write", "source_delete"} :
          r = [op |-> o, arg |-> "", private |-> FALSE]
    BY <1>4 DEF O!SourceWrites, O!Request
  <2> QED
    BY <2>1 DEF Operations, Argument
<1> QED
  BY <1>1, <1>2, <1>3, <1>4 DEF O!Requests

\* Who may do an operation has the capability for each of its effects
\* (authorize, against what the operations do).
LEMMA AuthorizedEffects ==
  ASSUME NEW r \in O!Requests \cup O!SourceWrites, r.op # "ns.extension",
         NEW principal, O!Authorized(principal, r), NEW embedding \in BOOLEAN
  PROVE  /\ O!Effects(r, embedding) \ Asked(r) \subseteq principal
         /\ O!MayEmbed(principal, r, embedding) => O!Effects(r, embedding) \subseteq principal
<1>0. r.op \in Operations /\ Argument(r) /\ O!Primary(r) \cup O!Further(r) \subseteq principal
  BY RequestShape DEF O!Authorized
<1>1. O!Changes(r) => "Write" \in principal
  BY <1>0 DEF O!Changes, O!Primary, O!Further, Operations, O!Plain, Argument
<1>2. O!Consults(r, embedding) => "Model" \in principal \/ (r.op = "hybrid_search" /\ embedding)
  BY <1>0 DEF O!Consults, O!Primary, O!Further, Operations, O!Plain, Argument
<1>3. O!Reveals(r) => "Private" \in principal
  BY <1>0 DEF O!Reveals, O!Primary, O!Further, Operations, O!Plain, Argument, O!JobOperations
<1> QED
  BY <1>1, <1>2, <1>3 DEF O!Effects, Asked, O!MayEmbed

\* Jobs are managed by those who have Private.
LEMMA Managers ==
  ASSUME NEW principal, NEW o \in {"job_enqueue", "job_retry", "job_run_one"},
         O!Authorized(principal, O!Request(o, "", FALSE))
  PROVE  "Private" \in principal
<1>1. O!Request(o, "", FALSE).op = o
  BY DEF O!Request
<1>2. "Private" \in O!Further(O!Request(o, "", FALSE))
  BY <1>1 DEF O!Further, O!JobOperations
<1>3. O!Further(O!Request(o, "", FALSE)) \subseteq principal
  BY <1>1 DEF O!Authorized
<1> QED
  BY <1>2, <1>3

\* What is done is granted to both, and the file goes from and to what both may
\* see.
AppDone == /\ O!EffectsAreGranted'
        /\ O!PrivateLeftAlone

\* Writes and deletions of a source, by a principal or its extension.
LEMMA SourceStep ==
  ASSUME O!Assumptions, last = None, NEW asker, NEW actor, actor \subseteq asker,
         O!SourceWrite(asker, actor) \/ O!SourceDelete(asker, actor)
  PROVE  AppDone /\ UNCHANGED job
<1>1. PICK o \in {"source_write", "source_delete"} :
        /\ O!Authorized(actor, O!Request(o, "", FALSE))
        /\ O!Did(asker, actor, O!Request(o, "", FALSE), O!Effects(O!Request(o, "", FALSE), FALSE))
  BY DEF O!SourceWrite, O!SourceDelete
<1> DEFINE req == O!Request(o, "", FALSE)
<1>2. req \in O!SourceWrites /\ req.op = o
  BY DEF O!SourceWrites, O!Request
<1>3. O!MayEmbed(actor, req, FALSE) /\ req.op # "ns.extension"
  BY <1>2 DEF O!MayEmbed
<1>4. O!Effects(req, FALSE) \subseteq actor
  BY <1>1, <1>2, <1>3, AuthorizedEffects
<1>5. last'.effects = O!Effects(req, FALSE) /\ last'.actor = actor /\ last'.asker = asker
  BY <1>1 DEF O!Did
<1> HIDE DEF req
<1>6. O!EffectsAreGranted'
  BY <1>4, <1>5 DEF O!EffectsAreGranted
<1>7. "Private" \notin actor => source # "private" /\ source' # "private"
  BY DEF O!SourceWrite, O!SourceDelete, O!Synced, O!Assumptions, O!Visibilities
<1>8. O!PrivateLeftAlone
  BY <1>5, <1>7 DEF O!PrivateLeftAlone
<1> QED
  BY <1>6, <1>8 DEF AppDone, O!SourceWrite, O!SourceDelete

\* A call.
LEMMA ExecuteStep ==
  ASSUME NEW principal, O!Execute(principal)
  PROVE  AppDone /\ UNCHANGED job
<1>1. PICK r \in O!Requests, embedding \in BOOLEAN :
        /\ r.op # "ns.extension"
        /\ O!Authorized(principal, r) /\ O!MayEmbed(principal, r, embedding)
        /\ O!Did(principal, principal, r, O!Effects(r, embedding))
        /\ UNCHANGED <<source, job, events>>
  BY DEF O!Execute
<1>2. O!Effects(r, embedding) \subseteq principal
  BY <1>1, AuthorizedEffects
<1> QED
  BY <1>1, <1>2 DEF O!Did, AppDone, O!EffectsAreGranted, O!PrivateLeftAlone

\* A call of the extension, which has no more than its caller.
LEMMA ExtensionStep ==
  ASSUME O!Assumptions, last = None, NEW principal, O!ExecuteExtension(principal)
  PROVE  AppDone /\ UNCHANGED job
<1>1. Extension \subseteq principal
  BY DEF O!ExecuteExtension, O!Authorized, O!Primary, O!Request
<1>2. CASE O!SourceWrite(principal, Extension) \/ O!SourceDelete(principal, Extension)
  BY <1>1, <1>2, SourceStep
<1>3. CASE \E r \in {O!Request("search", "", FALSE), O!Request("index", "", FALSE)} :
             /\ O!Authorized(Extension, r)
             /\ O!Did(principal, Extension, r, O!Effects(r, FALSE))
             /\ UNCHANGED <<source, job, events>>
  <2>1. PICK r \in {O!Request("search", "", FALSE), O!Request("index", "", FALSE)} :
          /\ O!Authorized(Extension, r)
          /\ O!Did(principal, Extension, r, O!Effects(r, FALSE))
          /\ UNCHANGED <<source, job, events>>
    BY <1>3
  <2>2. PICK o \in {"search", "index"} : r = O!Request(o, "", FALSE)
    BY <2>1
  <2>4. r \in O!Requests
    <3>1. o \in O!Plain
      BY DEF O!Plain
    <3> QED
      BY <2>2, <3>1 DEF O!Requests, O!PlainRequests
  <2>5. r.op # "ns.extension" /\ r.op # "hybrid_search"
    BY <2>2 DEF O!Request
  <2>3. O!Effects(r, FALSE) \subseteq Extension
    BY <2>1, <2>4, <2>5, AuthorizedEffects DEF O!MayEmbed
  <2> QED
    BY <1>1, <2>1, <2>3 DEF O!Did, AppDone, O!EffectsAreGranted, O!PrivateLeftAlone
<1> QED
  BY <1>2, <1>3 DEF O!ExecuteExtension, O!ExtensionPrincipal

\* A job, run by one principal for another.
LEMMA RunStep ==
  ASSUME JobIsGranted, last = None, O!EffectsAreGranted, NEW principal, O!RunJob(principal)
  PROVE  AppDone /\ JobIsGranted'
<1> DEFINE r == job.request
<1>1. /\ "Private" \in principal /\ job # None /\ r \in O!Requests \cup O!SourceWrites
      /\ r.op # "ns.extension" /\ O!Authorized(job.by, r) /\ "Private" \in job.by
  BY Managers DEF O!RunJob, JobIsGranted
<1>2. PICK embedding \in BOOLEAN :
        IF O!Authorized(principal, r) /\ O!MayEmbed(principal, r, embedding)
        THEN O!Did(job.by, principal, r, O!Effects(r, embedding)) /\ job' = None
        ELSE job' = [job EXCEPT !.status = "failed"] /\ UNCHANGED <<source, indexed, last>>
  BY DEF O!RunJob
<1>3. CASE O!Authorized(principal, r) /\ O!MayEmbed(principal, r, embedding)
  <2>1. O!Effects(r, embedding) \subseteq principal /\ O!Effects(r, embedding) \ Asked(r) \subseteq job.by
    BY <1>1, <1>3, AuthorizedEffects
  <2>2. /\ last'.effects = O!Effects(r, embedding) /\ last'.actor = principal
        /\ last'.asker = job.by /\ last'.op = r.op
    BY <1>2, <1>3 DEF O!Did
  <2>3. O!EffectsAreGranted'
    BY <2>1, <2>2 DEF O!EffectsAreGranted, Asked
  <2>4. O!PrivateLeftAlone
    BY <1>1, <2>2 DEF O!PrivateLeftAlone
  <2> QED
    BY <1>2, <1>3, <2>3, <2>4 DEF AppDone, JobIsGranted
<1>4. CASE ~(O!Authorized(principal, r) /\ O!MayEmbed(principal, r, embedding))
  <2>1. job'.request = job.request /\ job'.by = job.by
    BY <1>1, <1>2, <1>4 DEF JobIsGranted
  <2>2. JobIsGranted'
    BY <1>1, <1>2, <1>4, <2>1 DEF JobIsGranted
  <2> QED
    BY <1>2, <1>4, <2>2 DEF AppDone, O!EffectsAreGranted, O!PrivateLeftAlone
<1> QED
  BY <1>3, <1>4

\* Enqueueing, retrying and cancelling leave a granted job.
LEMMA EnqueueStep ==
  ASSUME JobIsGranted, NEW principal \in Principals, O!Enqueue(principal) \/ O!Manage(principal)
  PROVE  JobIsGranted'
<1>1. CASE O!Enqueue(principal)
  <2>1. PICK r \in O!Requests \cup O!SourceWrites :
          /\ O!Authorized(principal, O!Request("job_enqueue", "", FALSE))
          /\ O!MayEnqueue(principal, r)
          /\ job' = [request |-> r, by |-> principal, status |-> "queued"]
    BY <1>1 DEF O!Enqueue
  <2>2. "Private" \in principal
    BY <2>1, Managers
  <2> QED
    BY <2>1, <2>2 DEF O!MayEnqueue, JobIsGranted
<1>2. CASE O!Manage(principal)
  <2>1. job # None /\ (job' = None \/ job' = [job EXCEPT !.status = "queued"])
    BY <1>2 DEF O!Manage
  <2> QED
    BY <2>1 DEF JobIsGranted
<1> QED
  BY <1>1, <1>2

\* Every step keeps the invariant and leaves private sources alone.
LEMMA AppStep ==
  ASSUME O!Assumptions, AppInv, [O!Next]_appVars PROVE AppInv' /\ [O!PrivateLeftAlone]_appVars
<1>1. CASE last = None /\ \E principal \in Principals :
             O!Execute(principal) \/ O!SourceWrite(principal, principal)
             \/ O!SourceDelete(principal, principal) \/ O!ExecuteExtension(principal)
  BY <1>1, ExecuteStep, SourceStep, ExtensionStep DEF AppInv, AppDone, JobIsGranted
<1>2. CASE last = None /\ \E principal \in Principals : O!RunJob(principal)
  BY <1>2, RunStep DEF AppInv, AppDone
<1>3. CASE last = None /\ \E principal \in Principals : O!Enqueue(principal) \/ O!Manage(principal)
  <2>1. UNCHANGED <<source, last>>
    BY <1>3 DEF O!Enqueue, O!Manage
  <2> QED
    BY <1>3, <2>1, EnqueueStep DEF AppInv, O!EffectsAreGranted, O!PrivateLeftAlone
<1>4. CASE (last = None /\ O!Edit) \/ O!Return
  BY <1>4 DEF O!Edit, O!Return, AppInv, O!EffectsAreGranted, JobIsGranted, O!PrivateLeftAlone
<1>5. CASE UNCHANGED appVars
  BY <1>5 DEF appVars, AppInv, O!EffectsAreGranted, JobIsGranted
<1> QED
  BY <1>1, <1>2, <1>3, <1>4, <1>5 DEF O!Next

\* The server begins with all its permits.
LEMMA ServerInit == ASSUME K!Assumptions, K!Init PROVE ServerInv
<1>1. K!TypeOK /\ K!RegistryIsExact /\ K!CancelledByOwn /\ TokensAreRegistered
  BY ServerSomeOne DEF K!Init, K!TypeOK, K!Places, K!RegistryIsExact, K!CancelledByOwn,
                       TokensAreRegistered, K!Assumptions
<1>2. Holders = {} /\ permits = Permits
  BY DEF K!Init, Holders, K!Holding
<1>3. permits + K!Cardinality(Holders) = Permits
  BY <1>2, FS_EmptySet, OneCount DEF K!Assumptions
<1>4. K!PermitsReturn
  BY <1>3 DEF Holders, K!PermitsReturn
<1> QED
  BY <1>1, <1>4 DEF ServerInv

LEMMA ServerStep == ASSUME K!Assumptions, ServerInv, [K!Next]_serverVars PROVE ServerInv'
  BY ServerTypes, ServerRegistry, ServerTokens, ServerPermits DEF ServerInv

-----------------------------------------------------------------------------
(* Answers.  A call knows the revisions its guards are of; once the        *)
(* evidence is checked, what it will write is as restricted as the guarded *)
(* revisions that are current still, and as the revisions cited.           *)

AnswerTexts == [flag : Flags, edit : Nat]

\* The rows and revisions q, t come after p, r.
Grown(p, r, q, t) ==
    \A s \in AnswerSources : \A n \in DOMAIN p[s] :
        n \in DOMAIN q[s] /\ q[s][n] = p[s][n] /\ (t[s].rev = n => r[s].rev = n)

Guarding(a, gs, p) ==
    /\ \A e \in a.cites : \E g \in gs : g[1] = e[1]
    /\ \A g \in gs : /\ \E e \in a.cites : g[1] = e[1]
                     /\ g[1] \in AnswerSources /\ g[2] \in DOMAIN p[g[1]]
                     /\ g[3] = p[g[1]][g[2]]

Bounded(a, gs, v, p, r) ==
    /\ v \in 0..2
    /\ \A e \in a.cites : /\ e[2] \in DOMAIN p[e[1]]
                          /\ A!Rank(p[e[1]][e[2]].flag) <= v
    /\ \A g \in gs : r[g[1]].rev = g[2] => A!Rank(g[3].flag) <= v

CallBounded(st, cl, sn, p, r) ==
    /\ st \in {"validate", "write", "record", "judge", "persist"} =>
         cl.answer \in SavedAnswers /\ Guarding(cl.answer, sn.guards, p)
    /\ st = "write" => Bounded(cl.answer, sn.guards, cl.answer.visibility, p, r)
    /\ st = "persist" => /\ sn.key.answer = cl.answer
                         /\ Bounded(cl.answer, sn.guards, sn.key.visibility, p, r)

DraftBounded(d, p, r) ==
    /\ DOMAIN d = {"key", "base", "applied", "guards", "visibility"}
    /\ d.key.answer \in SavedAnswers
    /\ Guarding(d.key.answer, d.guards, p)
    /\ Bounded(d.key.answer, d.guards, d.visibility, p, r)

RowTypes ==
    /\ text \in [AnswerSources -> AnswerTexts \cup {None}]
    /\ rows \in [AnswerSources -> [rev : Nat, text : AnswerTexts, deleted : BOOLEAN]]
    /\ past \in [AnswerSources -> Seq(AnswerTexts)]
    /\ \A s \in AnswerSources : /\ past[s] # <<>> /\ rows[s].rev = Len(past[s])
                                /\ past[s][Len(past[s])] = rows[s].text

CallTypes ==
    /\ note \in [SavedAnswers -> {None, A!Written, A!ByHand}]
    /\ step \in [AnswerCalls -> {"idle", "validate", "write", "record", "judge",
                                 "persist", "finish"}]
    /\ DOMAIN call = AnswerCalls /\ DOMAIN seen = AnswerCalls
    /\ \A c \in AnswerCalls : DOMAIN seen[c] = {"guards", "key", "promote"}
    /\ target = None \/ target.visibility \in 0..2
    /\ changes \in 0..MaxAnswerEdits /\ calls \in 0..MaxAnswerCalls

AnswerInv ==
    /\ RowTypes /\ CallTypes
    /\ \A c \in AnswerCalls : CallBounded(step[c], call[c], seen[c], past, rows)
    /\ \A d \in drafts : DraftBounded(d, past, rows)

\* The greatest of some visibilities is there.
LEMMA StrictestIs ==
  ASSUME NEW T, T \subseteq 0..2, T # {}
  PROVE  A!Strictest(T) \in 0..2 /\ \A n \in T : n <= A!Strictest(T)
<1>1. \E m \in T : \A n \in T : n <= m
  <2>1. CASE 2 \in T
    BY <2>1
  <2>2. CASE 2 \notin T /\ 1 \in T
    BY <2>2
  <2>3. CASE 2 \notin T /\ 1 \notin T
    <3>1. ASSUME NEW n \in T PROVE n = 0
      <4>1. n \in 0..2 /\ n # 1 /\ n # 2
        BY <2>3
      <4> QED
        BY <4>1
    <3>2. PICK m \in T : TRUE
      OBVIOUS
    <3>3. m \in T /\ m = 0
      BY <3>1
    <3>4. \A n \in T : n <= m
      BY <3>1, <3>3
    <3> QED
      BY <3>3, <3>4
  <2> QED
    BY <2>1, <2>2, <2>3
<1>2. /\ A!Strictest(T) \in T
      /\ \A n \in T : n <= A!Strictest(T)
  BY <1>1 DEF A!Strictest
<1> QED
  BY <1>2

LEMMA RankIs == \A f : A!Rank(f) \in 0..2
BY DEF A!Rank

\* Later rows keep what guards and bounds say.
LEMMA GrownKeeps ==
  ASSUME NEW p, NEW r, NEW q, NEW t, Grown(p, r, q, t), A!Assumptions,
         NEW a \in SavedAnswers, NEW gs, Guarding(a, gs, p)
  PROVE  /\ Guarding(a, gs, q)
         /\ \A v : Bounded(a, gs, v, p, r) => Bounded(a, gs, v, q, t)
<1>1. \A e \in a.cites : e[1] \in AnswerSources
  BY DEF A!Assumptions
<1>2. \A g \in gs : /\ g[1] \in AnswerSources /\ g[2] \in DOMAIN q[g[1]]
                    /\ g[3] = q[g[1]][g[2]]
                    /\ t[g[1]].rev = g[2] => r[g[1]].rev = g[2]
  BY DEF Grown, Guarding
<1>3. Guarding(a, gs, q)
  BY <1>2 DEF Guarding
<1>4. ASSUME NEW v, Bounded(a, gs, v, p, r) PROVE Bounded(a, gs, v, q, t)
  <2>1. ASSUME NEW e \in a.cites
        PROVE  e[2] \in DOMAIN q[e[1]] /\ A!Rank(q[e[1]][e[2]].flag) <= v
    BY <1>1, <1>4 DEF Grown, Bounded
  <2>2. ASSUME NEW g \in gs, t[g[1]].rev = g[2] PROVE A!Rank(g[3].flag) <= v
    BY <1>2, <1>4, <2>2 DEF Bounded
  <2> QED
    BY <1>4, <2>1, <2>2 DEF Bounded
<1> QED
  BY <1>3, <1>4

LEMMA CallKeeps ==
  ASSUME NEW p, NEW r, NEW q, NEW t, Grown(p, r, q, t), A!Assumptions,
         NEW st, NEW cl, NEW sn, CallBounded(st, cl, sn, p, r)
  PROVE  CallBounded(st, cl, sn, q, t)
BY GrownKeeps DEF CallBounded

LEMMA DraftKeeps ==
  ASSUME NEW p, NEW r, NEW q, NEW t, Grown(p, r, q, t), A!Assumptions,
         NEW d, DraftBounded(d, p, r)
  PROVE  DraftBounded(d, q, t)
BY GrownKeeps DEF DraftBounded

\* Indexing keeps the rows, and every revision there is.
LEMMA IndexedGrows ==
  ASSUME A!Assumptions, RowTypes, NEW new, A!Indexed(new), UNCHANGED text
  PROVE  RowTypes' /\ Grown(past, rows, past', rows')
<1> DEFINE Changed(s) == text[s] # None /\ (rows[s].deleted \/ rows[s].text # text[s])
<1>1. /\ rows' = [s \in AnswerSources |->
                IF text[s] = None THEN [rows[s] EXCEPT !.deleted = TRUE]
                ELSE IF Changed(s)
                THEN [rev |-> Len(past[s]) + 1, text |-> text[s], deleted |-> FALSE]
                ELSE rows[s]]
      /\ past' = [s \in AnswerSources |-> IF Changed(s) THEN Append(past[s], text[s])
                                          ELSE past[s]]
  BY DEF A!Indexed
<1>2. ASSUME NEW s \in AnswerSources
      PROVE  /\ rows'[s] \in [rev : Nat, text : AnswerTexts, deleted : BOOLEAN]
             /\ past'[s] \in Seq(AnswerTexts) /\ past'[s] # <<>>
             /\ rows'[s].rev = Len(past'[s])
             /\ past'[s][Len(past'[s])] = rows'[s].text
             /\ \A n \in DOMAIN past[s] : /\ n \in DOMAIN past'[s]
                                          /\ past'[s][n] = past[s][n]
                                          /\ rows'[s].rev = n => rows[s].rev = n
  <2>1. /\ past[s] \in Seq(AnswerTexts) /\ past[s] # <<>> /\ rows[s].rev = Len(past[s])
        /\ past[s][Len(past[s])] = rows[s].text
        /\ rows[s] \in [rev : Nat, text : AnswerTexts, deleted : BOOLEAN]
    BY DEF RowTypes
  <2>2. CASE Changed(s)
    <3>1. text[s] \in AnswerTexts
      BY <2>2 DEF RowTypes
    <3>2. /\ rows'[s] = [rev |-> Len(past[s]) + 1, text |-> text[s], deleted |-> FALSE]
          /\ past'[s] = Append(past[s], text[s])
      BY <1>1, <2>2
    <3> HIDE DEF Changed
    <3> QED
      BY <2>1, <3>1, <3>2
  <2>3. CASE ~Changed(s) /\ text[s] = None
    <3>1. rows'[s] = [rows[s] EXCEPT !.deleted = TRUE] /\ past'[s] = past[s]
      BY <1>1, <2>3
    <3>2. /\ rows'[s] \in [rev : Nat, text : AnswerTexts, deleted : BOOLEAN]
          /\ rows'[s].rev = rows[s].rev /\ rows'[s].text = rows[s].text
      BY <2>1, <3>1
    <3> HIDE DEF Changed
    <3> QED
      BY <2>1, <3>1, <3>2
  <2>4. CASE ~Changed(s) /\ text[s] # None
    <3>1. rows'[s] = rows[s] /\ past'[s] = past[s]
      BY <1>1, <2>4
    <3> HIDE DEF Changed
    <3> QED
      BY <2>1, <3>1
  <2> QED
    BY <2>2, <2>3, <2>4
<1>3. /\ text' \in [AnswerSources -> AnswerTexts \cup {None}]
      /\ DOMAIN rows' = AnswerSources /\ DOMAIN past' = AnswerSources
      /\ rows' = [s \in AnswerSources |-> rows'[s]]
      /\ past' = [s \in AnswerSources |-> past'[s]]
  BY <1>1 DEF RowTypes
<1> HIDE DEF Changed
<1> QED
  BY <1>2, <1>3 DEF RowTypes, Grown

LEMMA RowsStay ==
  ASSUME RowTypes, UNCHANGED <<rows, past>>,
         text' \in [AnswerSources -> AnswerTexts \cup {None}]
  PROVE  RowTypes' /\ Grown(past, rows, past', rows')
BY DEF RowTypes, Grown

LEMMA RowStep ==
  ASSUME A!Assumptions, AnswerInv, [A!Next]_answerVars
  PROVE  RowTypes' /\ Grown(past, rows, past', rows')
<1>1. RowTypes /\ text \in [AnswerSources -> AnswerTexts \cup {None}]
  BY DEF AnswerInv, RowTypes
<1> USE DEF A!sources, A!notes
<1>2. CASE A!Sync
  BY <1>1, <1>2, IndexedGrows DEF A!Sync
<1>3. ASSUME NEW c \in AnswerCalls, A!WriteNote(c)
      PROVE  RowTypes' /\ Grown(past, rows, past', rows')
  <2>1. CASE UNCHANGED <<text, rows, past>>
    BY <1>1, <2>1, RowsStay
  <2>2. CASE A!Indexed(note') /\ UNCHANGED text
    BY <1>1, <2>2, IndexedGrows
  <2> QED
    BY <1>3, <2>1, <2>2 DEF A!WriteNote
<1>4. ASSUME NEW d \in drafts, A!ApplyDraft(d)
      PROVE  RowTypes' /\ Grown(past, rows, past', rows')
  BY <1>1, <1>4, IndexedGrows DEF A!ApplyDraft
<1>5. ASSUME NEW s \in AnswerSources, A!EditSource(s)
      PROVE  RowTypes' /\ Grown(past, rows, past', rows')
  <2>1. PICK t \in {A!Text(f, changes') : f \in Flags} \cup {None} :
          text' = [text EXCEPT ![s] = t]
    BY <1>5 DEF A!EditSource
  <2>2. changes' \in Nat
    BY <1>5 DEF A!EditSource, A!Edit, AnswerInv, CallTypes
  <2>3. t \in AnswerTexts \cup {None}
    BY <2>1, <2>2 DEF A!Text, AnswerTexts
  <2>4. UNCHANGED <<rows, past>>
    BY <1>5 DEF A!EditSource
  <2> QED
    BY <1>1, <2>1, <2>3, <2>4, RowsStay
<1>6. CASE UNCHANGED <<text, rows, past>>
  BY <1>1, <1>6, RowsStay
<1>7. ASSUME NEW c \in AnswerCalls,
             \/ \E a \in SavedAnswers : \/ \E private \in BOOLEAN : A!BeginSave(c, a, private)
                                        \/ A!BeginPromotion(c, a)
             \/ A!ValidateSave(c) \/ A!RecordNote(c) \/ A!Judge(c)
             \/ A!PersistDraft(c) \/ A!FinishPromotion(c) \/ A!Die(c)
      PROVE  UNCHANGED <<text, rows, past>>
  BY <1>7 DEF A!BeginSave, A!BeginPromotion, A!Enter, A!ValidateSave, A!RecordNote, A!Judge,
              A!PersistDraft, A!FinishPromotion, A!Die
<1>8. ASSUME A!EditTarget \/ \E a \in SavedAnswers : A!EditNote(a)
      PROVE  UNCHANGED <<text, rows, past>>
  BY <1>8 DEF A!EditTarget, A!EditNote
<1>9. CASE UNCHANGED answerVars
  BY <1>6, <1>9 DEF answerVars
<1> QED
  BY <1>2, <1>3, <1>4, <1>5, <1>6, <1>7, <1>8, <1>9 DEF A!Next

LEMMA CallTypesStep ==
  ASSUME A!Assumptions, AnswerInv, [A!Next]_answerVars PROVE CallTypes'
<1>1. CallTypes
  BY DEF AnswerInv
<1> USE DEF CallTypes, A!sources, A!notes
<1>2. MaxAnswerEdits \in Nat /\ MaxAnswerCalls \in Nat /\ changes \in Nat /\ calls \in Nat
  BY <1>1 DEF A!Assumptions
<1>3. ASSUME NEW c \in AnswerCalls, NEW a, NEW private, NEW to, NEW gs,
             to \in {"validate", "judge"}, A!Enter(c, a, private, to, gs)
      PROVE  CallTypes'
  <2>1. calls' \in 0..MaxAnswerCalls
    BY <1>2, <1>3 DEF A!Enter
  <2>2. /\ DOMAIN seen' = AnswerCalls
        /\ \A e \in AnswerCalls : DOMAIN seen'[e] = {"guards", "key", "promote"}
    BY <1>1, <1>3 DEF A!Enter, A!Nothing
  <2> QED
    BY <1>1, <1>3, <2>1, <2>2 DEF A!Enter, A!Goto
<1>4. ASSUME NEW c \in AnswerCalls, NEW a \in SavedAnswers, NEW private,
             A!BeginSave(c, a, private) \/ A!BeginPromotion(c, a)
      PROVE  CallTypes'
  <2>1. \E to \in {"validate", "judge"} : \E b, gs : A!Enter(c, a, b, to, gs)
    BY <1>4 DEF A!BeginSave, A!BeginPromotion
  <2> QED
    BY <1>3, <2>1
<1>5. ASSUME NEW c \in AnswerCalls, A!End(c), UNCHANGED <<note, target, changes, calls>>
      PROVE  CallTypes'
  BY <1>1, <1>5 DEF A!End, A!Goto, A!Nothing
<1>6. ASSUME NEW c \in AnswerCalls, NEW to \in {"write", "record", "persist", "finish"},
             A!Goto(c, to), UNCHANGED <<call, target, changes, calls>>,
             seen' = seen \/ \E k, b : seen' = [seen EXCEPT ![c].key = k, ![c].promote = b],
             note' = note \/ note' = [note EXCEPT ![call[c].answer] = A!Written]
      PROVE  CallTypes'
  <2>1. /\ DOMAIN seen' = AnswerCalls
        /\ \A e \in AnswerCalls : DOMAIN seen'[e] = {"guards", "key", "promote"}
    BY <1>1, <1>6
  <2>2. note' \in [SavedAnswers -> {None, A!Written, A!ByHand}]
    BY <1>1, <1>6
  <2> QED
    BY <1>1, <1>6, <2>1, <2>2 DEF A!Goto
<1>7. ASSUME NEW c \in AnswerCalls,
             A!ValidateSave(c) \/ A!WriteNote(c) \/ A!RecordNote(c) \/ A!Judge(c)
               \/ A!PersistDraft(c) \/ A!FinishPromotion(c) \/ A!Die(c)
      PROVE  CallTypes'
  <2>1. CASE A!ValidateSave(c)
    BY <1>5, <1>6, <2>1 DEF A!ValidateSave
  <2>2. CASE A!WriteNote(c)
    BY <1>5, <1>6, <2>2 DEF A!WriteNote
  <2>3. CASE A!RecordNote(c) \/ A!FinishPromotion(c) \/ A!Die(c)
    BY <1>5, <2>3 DEF A!RecordNote, A!FinishPromotion, A!Die
  <2>4. CASE A!Judge(c)
    BY <1>5, <1>6, <2>4 DEF A!Judge
  <2>5. CASE A!PersistDraft(c)
    BY <1>6, <2>5 DEF A!PersistDraft
  <2> QED
    BY <1>7, <2>1, <2>2, <2>3, <2>4, <2>5
<1>8. ASSUME NEW d \in drafts, A!ApplyDraft(d) PROVE CallTypes'
  <2>1. d.visibility \in 0..2
    BY DEF AnswerInv, DraftBounded, Bounded
  <2>2. target'.visibility \in 0..2
    BY <1>8, <2>1 DEF A!ApplyDraft
  <2> QED
    BY <1>1, <1>8, <2>2 DEF A!ApplyDraft
<1>9. ASSUME NEW s \in AnswerSources, A!EditSource(s) PROVE CallTypes'
  BY <1>1, <1>2, <1>9 DEF A!EditSource, A!Edit
<1>10. ASSUME NEW a \in SavedAnswers, A!EditNote(a) PROVE CallTypes'
  BY <1>1, <1>2, <1>10 DEF A!EditNote, A!Edit
<1>11. CASE A!EditTarget
  BY <1>1, <1>2, <1>11 DEF A!EditTarget, A!Edit
<1>12. CASE A!Sync
  BY <1>1, <1>12 DEF A!Sync
<1>13. CASE UNCHANGED answerVars
  BY <1>1, <1>13 DEF answerVars
<1> HIDE DEF CallTypes
<1> QED
  BY <1>4, <1>7, <1>8, <1>9, <1>10, <1>11, <1>12, <1>13 DEF A!Next

\* The guards a call takes are of the revisions there are.
LEMMA GuardsKnown ==
  ASSUME A!Assumptions, RowTypes, NEW a \in SavedAnswers
  PROVE  Guarding(a, A!Guards(A!Cited(a)), past)
<1> DEFINE gs == A!Guards(A!Cited(a))
<1>1. \A e \in a.cites : e[1] \in AnswerSources
  BY DEF A!Assumptions
<1>2. ASSUME NEW e \in a.cites PROVE \E g \in gs : g[1] = e[1]
  <2>1. <<e[1], rows[e[1]].rev, rows[e[1]].text>> \in gs
    BY DEF A!Guards, A!Cited
  <2> QED
    BY <2>1
<1>3. ASSUME NEW g \in gs
      PROVE  /\ \E e \in a.cites : g[1] = e[1]
             /\ g[1] \in AnswerSources /\ g[2] \in DOMAIN past[g[1]]
             /\ g[3] = past[g[1]][g[2]]
  <2>1. PICK s \in A!Cited(a) : g = <<s, rows[s].rev, rows[s].text>>
    BY DEF A!Guards
  <2>2. (\E e \in a.cites : s = e[1]) /\ s \in AnswerSources
    BY <1>1 DEF A!Cited
  <2>3. /\ past[s] \in Seq(AnswerTexts) /\ past[s] # <<>> /\ rows[s].rev = Len(past[s])
        /\ past[s][Len(past[s])] = rows[s].text
    BY <2>2 DEF RowTypes
  <2>4. Len(past[s]) \in DOMAIN past[s]
    BY <2>3
  <2> QED
    BY <2>1, <2>2, <2>3, <2>4
<1> QED
  BY <1>2, <1>3 DEF Guarding

\* What was checked against the evidence bounds what is written of it.
LEMMA CheckedIsBounded ==
  ASSUME A!Assumptions, RowTypes, NEW a \in SavedAnswers, NEW gs, Guarding(a, gs, past),
         NEW private, A!ValidEvidence(a, private), NEW v \in 0..2,
         \A n \in A!Ranks(a) : n <= v
  PROVE  Bounded(a, gs, v, past, rows)
<1>1. ASSUME NEW e \in a.cites
      PROVE  e[2] \in DOMAIN past[e[1]] /\ A!Rank(past[e[1]][e[2]].flag) <= v
  BY DEF A!ValidEvidence, A!Resolves, A!Ranks
<1>2. ASSUME NEW g \in gs, rows[g[1]].rev = g[2] PROVE A!Rank(g[3].flag) <= v
  <2>1. g[1] \in AnswerSources /\ g[3] = past[g[1]][g[2]]
    BY DEF Guarding
  <2>2. g[3] = rows[g[1]].text
    BY <1>2, <2>1 DEF RowTypes
  <2>3. ASSUME NEW e \in a.cites, g[1] = e[1] PROVE A!Rank(g[3].flag) <= v
    <3>1. A!Rank(rows[e[1]].text.flag) \in A!Ranks(a)
      BY DEF A!Ranks
    <3> QED
      BY <2>2, <2>3, <3>1
  <2> QED
    BY <2>3 DEF Guarding
<1> QED
  BY <1>1, <1>2 DEF Bounded

\* One step of a call.
CallActs(c) == \/ \E a \in SavedAnswers : \/ \E private \in BOOLEAN : A!BeginSave(c, a, private)
                                          \/ A!BeginPromotion(c, a)
               \/ A!ValidateSave(c) \/ A!WriteNote(c) \/ A!RecordNote(c)
               \/ A!Judge(c) \/ A!PersistDraft(c) \/ A!FinishPromotion(c) \/ A!Die(c)

\* It is no step of the other calls.
LEMMA OtherCalls ==
  ASSUME CallTypes, NEW q \in AnswerCalls, CallActs(q), NEW c \in AnswerCalls, c # q
  PROVE  step'[c] = step[c] /\ call'[c] = call[c] /\ seen'[c] = seen[c]
<1> USE DEF CallTypes, A!Goto, A!End
<1>1. ASSUME NEW a, NEW private, NEW k, NEW gs, A!Enter(q, a, private, k, gs)
      PROVE  step'[c] = step[c] /\ call'[c] = call[c] /\ seen'[c] = seen[c]
  BY <1>1 DEF A!Enter
<1>2. ASSUME A!ValidateSave(q) \/ A!WriteNote(q) \/ A!RecordNote(q)
      PROVE  step'[c] = step[c] /\ call'[c] = call[c] /\ seen'[c] = seen[c]
  BY <1>2 DEF A!ValidateSave, A!WriteNote, A!RecordNote
<1>3. ASSUME A!Judge(q)
      PROVE  step'[c] = step[c] /\ call'[c] = call[c] /\ seen'[c] = seen[c]
  BY <1>3 DEF A!Judge
<1>4. ASSUME A!PersistDraft(q) \/ A!FinishPromotion(q) \/ A!Die(q)
      PROVE  step'[c] = step[c] /\ call'[c] = call[c] /\ seen'[c] = seen[c]
  BY <1>4 DEF A!PersistDraft, A!FinishPromotion, A!Die
<1> QED
  BY <1>1, <1>2, <1>3, <1>4 DEF CallActs, A!BeginSave, A!BeginPromotion

\* A call that goes on shows the bounds of its next step.
LEMMA ActingCall ==
  ASSUME A!Assumptions, AnswerInv, NEW c \in AnswerCalls, CallActs(c)
  PROVE  CallBounded(step'[c], call'[c], seen'[c], past, rows)
<1>1. CallBounded(step[c], call[c], seen[c], past, rows) /\ RowTypes /\ CallTypes
  BY DEF AnswerInv
<1> USE DEF A!Goto
<1>2. ASSUME A!End(c) PROVE CallBounded(step'[c], call'[c], seen'[c], past, rows)
  BY <1>1, <1>2 DEF A!End, CallTypes, CallBounded
<1>3. ASSUME NEW a \in SavedAnswers, NEW private, NEW k \in {"validate", "judge"},
             A!Enter(c, a, private, k, A!Guards(A!Cited(a)))
      PROVE  CallBounded(step'[c], call'[c], seen'[c], past, rows)
  <2>1. /\ step'[c] = k /\ call'[c].answer = a
        /\ seen'[c].guards = A!Guards(A!Cited(a))
    BY <1>1, <1>3 DEF A!Enter, CallTypes, A!Nothing
  <2> QED
    BY <1>1, <2>1, GuardsKnown DEF CallBounded
<1>4. CASE A!ValidateSave(c) /\ ~A!End(c)
  <2> DEFINE a == call[c].answer
  <2>1. /\ step[c] = "validate" /\ step'[c] = "write" /\ UNCHANGED <<call, seen>>
        /\ A!ValidEvidence(a, call[c].private)
        /\ a.visibility >= A!Strictest(A!Ranks(a))
    BY <1>1, <1>4 DEF A!ValidateSave, CallTypes
  <2>2. a \in SavedAnswers /\ Guarding(a, seen[c].guards, past)
    BY <1>1, <2>1 DEF CallBounded
  <2>3. a.visibility \in 0..2
    BY <2>2 DEF A!Assumptions
  <2>4. A!Ranks(a) \subseteq 0..2 /\ A!Ranks(a) # {}
    BY RankIs DEF A!Ranks
  <2>5. \A n \in A!Ranks(a) : n <= a.visibility
    <3>1. /\ A!Strictest(A!Ranks(a)) \in 0..2
          /\ \A n \in A!Ranks(a) : n <= A!Strictest(A!Ranks(a))
      BY <2>4, StrictestIs
    <3> QED
      BY <2>1, <2>3, <2>4, <3>1
  <2>6. Bounded(a, seen[c].guards, a.visibility, past, rows)
    <3> HIDE DEF a
    <3> QED
      BY <1>1, <2>1, <2>2, <2>3, <2>5, CheckedIsBounded
  <2> QED
    BY <2>1, <2>2, <2>6 DEF CallBounded
<1>5. CASE A!WriteNote(c) /\ ~A!End(c)
  <2>1. step[c] = "write" /\ step'[c] = "record" /\ UNCHANGED <<call, seen>>
    BY <1>1, <1>5 DEF A!WriteNote, CallTypes
  <2> QED
    BY <1>1, <2>1 DEF CallBounded
<1>6. CASE A!Judge(c) /\ ~A!End(c)
  <2> DEFINE a   == call[c].answer
             v   == A!Strictest(A!PromotionRanks(a))
             key == [answer |-> a, guards |-> seen[c].guards,
                     status |-> {A!Stale(e) : e \in a.cites}, visibility |-> v]
  <2>1. /\ step[c] = "judge" /\ step'[c] = "persist" /\ UNCHANGED call
        /\ A!Served(a, TRUE)
        /\ \E b \in BOOLEAN : seen' = [seen EXCEPT ![c].key = key, ![c].promote = b]
    BY <1>1, <1>6 DEF A!Judge, CallTypes
  <2>2. seen'[c].key = key /\ seen'[c].guards = seen[c].guards
    <3> HIDE DEF key
    <3> QED
      BY <1>1, <2>1 DEF CallTypes
  <2>3. a \in SavedAnswers /\ Guarding(a, seen[c].guards, past)
    BY <1>1, <2>1 DEF CallBounded
  <2>4. A!PromotionRanks(a) \subseteq 0..2 /\ A!PromotionRanks(a) # {}
    <3>1. a.visibility \in 0..2
      BY <2>3 DEF A!Assumptions
    <3> QED
      BY <3>1, RankIs DEF A!PromotionRanks, A!Ranks
  <2>5. v \in 0..2 /\ \A n \in A!Ranks(a) : n <= v
    <3>1. v \in 0..2 /\ \A n \in A!PromotionRanks(a) : n <= v
      BY <2>4, StrictestIs
    <3> QED
      BY <3>1 DEF A!PromotionRanks
  <2>6. Bounded(a, seen[c].guards, v, past, rows)
    <3>1. A!ValidEvidence(a, TRUE)
      BY <2>1 DEF A!Served
    <3> HIDE DEF a, v
    <3> QED
      BY <1>1, <2>3, <2>5, <3>1, CheckedIsBounded
  <2>7. key.answer = a /\ key.visibility = v
    OBVIOUS
  <2> HIDE DEF a, v, key
  <2>8. call'[c].answer = a
    BY <2>1 DEF a
  <2> QED
    BY <2>1, <2>2, <2>3, <2>6, <2>7, <2>8 DEF CallBounded
<1>7. CASE A!PersistDraft(c)
  <2>1. step'[c] = "finish"
    BY <1>1, <1>7 DEF A!PersistDraft, CallTypes
  <2> QED
    BY <2>1 DEF CallBounded
<1>8. ASSUME A!RecordNote(c) \/ A!FinishPromotion(c) \/ A!Die(c) PROVE A!End(c)
  BY <1>8 DEF A!RecordNote, A!FinishPromotion, A!Die
<1> QED
  BY <1>2, <1>3, <1>4, <1>5, <1>6, <1>7, <1>8 DEF CallActs, A!BeginSave, A!BeginPromotion

\* The steps that are no call's leave the calls where they are.
LEMMA CallsStay ==
  ASSUME [A!Next]_answerVars, \A c \in AnswerCalls : ~CallActs(c)
  PROVE  UNCHANGED <<step, call, seen>>
BY DEF CallActs, A!Next, A!Sync, A!EditTarget, A!EditSource, A!EditNote, A!ApplyDraft, answerVars

LEMMA CallStep ==
  ASSUME A!Assumptions, AnswerInv, [A!Next]_answerVars, NEW c \in AnswerCalls
  PROVE  CallBounded(step'[c], call'[c], seen'[c], past', rows')
<1>1. /\ CallBounded(step[c], call[c], seen[c], past, rows) /\ CallTypes
      /\ Grown(past, rows, past', rows')
  BY RowStep DEF AnswerInv
<1>2. CallBounded(step'[c], call'[c], seen'[c], past, rows)
  <2>1. CASE CallActs(c)
    BY <2>1, ActingCall
  <2>2. ASSUME NEW q \in AnswerCalls, q # c, CallActs(q)
        PROVE  CallBounded(step'[c], call'[c], seen'[c], past, rows)
    <3>1. step'[c] = step[c] /\ call'[c] = call[c] /\ seen'[c] = seen[c]
      BY <1>1, <2>2, OtherCalls
    <3> QED
      BY <1>1, <3>1
  <2>3. CASE \A q \in AnswerCalls : ~CallActs(q)
    <3>1. UNCHANGED <<step, call, seen>>
      BY <2>3, CallsStay
    <3> QED
      BY <1>1, <3>1
  <2> QED
    BY <2>1, <2>2, <2>3
<1> QED
  BY <1>1, <1>2, CallKeeps

\* What a draft is bounded by stays; a new one has it from the judgement.
LEMMA DraftStep ==
  ASSUME A!Assumptions, AnswerInv, [A!Next]_answerVars, NEW d \in drafts'
  PROVE  DraftBounded(d, past', rows')
<1>1. \A e \in drafts : DraftBounded(e, past, rows)
  BY DEF AnswerInv
<1>2. SUFFICES DraftBounded(d, past, rows)
  BY RowStep, DraftKeeps
<1>3. CASE d \in drafts
  BY <1>1, <1>3
<1>4. ASSUME NEW c \in AnswerCalls, A!PersistDraft(c), d \notin drafts
      PROVE  DraftBounded(d, past, rows)
  <2> DEFINE key == seen[c].key
             v   == IF target = None THEN key.visibility
                    ELSE A!Strictest({key.visibility, target.visibility})
  <2>1. step[c] = "persist"
    BY <1>4 DEF A!PersistDraft
  <2>2. /\ call[c].answer \in SavedAnswers /\ key.answer = call[c].answer
        /\ Guarding(key.answer, seen[c].guards, past)
        /\ Bounded(key.answer, seen[c].guards, key.visibility, past, rows)
    BY <2>1 DEF AnswerInv, CallBounded
  <2>3. d = [key |-> key, base |-> target, applied |-> FALSE, guards |-> seen[c].guards,
             visibility |-> v]
    BY <1>4 DEF A!PersistDraft
  <2>4. v \in 0..2 /\ key.visibility <= v /\ key.visibility \in 0..2
    <3>1. key.visibility \in 0..2
      BY <2>2 DEF Bounded
    <3>2. CASE target = None
      BY <3>1, <3>2
    <3>3. CASE target # None
      <4>1. target.visibility \in 0..2
        BY <3>3 DEF AnswerInv, CallTypes
      <4>2. {key.visibility, target.visibility} \subseteq 0..2
        BY <3>1, <4>1
      <4> QED
        BY <3>3, <4>2, StrictestIs
    <3> QED
      BY <3>2, <3>3
  <2>5. Bounded(key.answer, seen[c].guards, v, past, rows)
    <3> HIDE DEF v, key
    <3>1. \A f : A!Rank(f) <= key.visibility => A!Rank(f) <= v
      BY <2>4, RankIs
    <3> QED
      BY <2>2, <2>4, <3>1 DEF Bounded
  <2>6. /\ DOMAIN d = {"key", "base", "applied", "guards", "visibility"}
        /\ d.key = key /\ d.guards = seen[c].guards /\ d.visibility = v
    <3> HIDE DEF v, key
    <3> QED
      BY <2>3
  <2> HIDE DEF v, key
  <2> QED
    BY <2>2, <2>5, <2>6 DEF DraftBounded
<1>5. ASSUME NEW e \in drafts, A!ApplyDraft(e), d \notin drafts
      PROVE  DraftBounded(d, past, rows)
  <2>1. d = [e EXCEPT !.applied = TRUE] /\ DraftBounded(e, past, rows)
    BY <1>1, <1>5 DEF A!ApplyDraft
  <2>2. /\ DOMAIN d = {"key", "base", "applied", "guards", "visibility"}
        /\ d.key = e.key /\ d.guards = e.guards /\ d.visibility = e.visibility
    BY <2>1 DEF DraftBounded
  <2> QED
    BY <2>1, <2>2 DEF DraftBounded
<1>6. CASE UNCHANGED drafts
  BY <1>3, <1>6
<1>7. ASSUME NEW c \in AnswerCalls, CallActs(c), ~A!PersistDraft(c) PROVE UNCHANGED drafts
  BY <1>7 DEF CallActs, A!BeginSave, A!BeginPromotion, A!Enter, A!ValidateSave, A!WriteNote,
              A!RecordNote, A!Judge, A!FinishPromotion, A!Die
<1>8. ASSUME A!Sync \/ A!EditTarget \/ (\E s \in AnswerSources : A!EditSource(s))
               \/ (\E a \in SavedAnswers : A!EditNote(a)) \/ UNCHANGED answerVars
      PROVE  UNCHANGED drafts
  BY <1>8 DEF A!Sync, A!EditTarget, A!EditSource, A!EditNote, answerVars
<1> QED
  BY <1>3, <1>4, <1>5, <1>6, <1>7, <1>8 DEF A!Next, CallActs

LEMMA AnswerInit == ASSUME A!Assumptions, A!Init PROVE AnswerInv
<1>1. PICK flag \in [AnswerSources -> Flags] :
        text = [s \in AnswerSources |-> A!Text(flag[s], 0)]
  BY DEF A!Init
<1>2. RowTypes
  <2>1. ASSUME NEW s \in AnswerSources
        PROVE  text[s] \in AnswerTexts /\ past[s] = <<text[s]>>
               /\ rows[s] = [rev |-> 1, text |-> text[s], deleted |-> FALSE]
               /\ rows[s].rev = 1 /\ rows[s].text = text[s]
    BY <1>1 DEF A!Init, A!Text, AnswerTexts
  <2>2. text \in [AnswerSources -> AnswerTexts \cup {None}]
    BY <1>1, <2>1
  <2>3. rows \in [AnswerSources -> [rev : Nat, text : AnswerTexts, deleted : BOOLEAN]]
    BY <2>1 DEF A!Init
  <2>4. past \in [AnswerSources -> Seq(AnswerTexts)]
    BY <2>1 DEF A!Init
  <2>5. ASSUME NEW s \in AnswerSources
        PROVE  /\ past[s] # <<>> /\ rows[s].rev = Len(past[s])
               /\ past[s][Len(past[s])] = rows[s].text
    <3>1. PICK x \in AnswerTexts : x = text[s]
      BY <2>1
    <3>2. past[s] = <<x>> /\ Len(<<x>>) = 1 /\ <<x>>[1] = x
      BY <2>1, <3>1
    <3>3. rows[s].rev = 1 /\ rows[s].text = x
      BY <2>1, <3>1
    <3>4. Len(past[s]) = 1 /\ past[s][1] = x
      BY <3>2
    <3>5. past[s] # <<>>
      BY <3>2
    <3> QED
      BY <3>3, <3>4, <3>5
  <2> QED
    BY <2>2, <2>3, <2>4, <2>5 DEF RowTypes
<1>3. CallTypes
  BY DEF A!Init, A!Assumptions, CallTypes, A!Nothing, A!NoCall
<1>4. \A c \in AnswerCalls : CallBounded(step[c], call[c], seen[c], past, rows)
  BY DEF A!Init, CallBounded
<1> QED
  BY <1>2, <1>3, <1>4 DEF AnswerInv, A!Init

LEMMA AnswerStep ==
  ASSUME A!Assumptions, AnswerInv, [A!Next]_answerVars PROVE AnswerInv'
BY RowStep, CallTypesStep, CallStep, DraftStep DEF AnswerInv

LEMMA AnswerTyped == ASSUME AnswerInv PROVE A!TypeOK
BY DEF AnswerInv, RowTypes, CallTypes, A!TypeOK

\* visibility_rank makes of a flag no less than the policy of visibility.rs: of
\* every flag but a visibility the policy does not know, which MCAnswersRank has.
WellFormedFlags == \A f \in Flags : A!Visibility(f) <= A!Rank(f)

\* Guards that hold, and bounds on what they guard, are bounds on the files.
LEMMA GuardedIsBounded ==
  ASSUME A!Assumptions, WellFormedFlags, RowTypes, NEW a \in SavedAnswers, NEW gs, NEW v,
         Guarding(a, gs, past), Bounded(a, gs, v, past, rows), A!GuardsHold(gs)
  PROVE  A!AsRestrictive(a, v)
<1>1. ASSUME NEW x \in AnswerTexts, A!Rank(x.flag) <= v PROVE v >= A!Visibility(x.flag)
  <2>1. A!Visibility(x.flag) <= A!Rank(x.flag)
    BY DEF WellFormedFlags, AnswerTexts
  <2>2. A!Visibility(x.flag) \in 0..2 /\ A!Rank(x.flag) \in 0..2 /\ v \in 0..2
    BY RankIs DEF A!Visibility, Bounded
  <2> QED
    BY <1>1, <2>1, <2>2
<1>2. ASSUME NEW e \in a.cites
      PROVE  /\ text[e[1]] # None /\ v >= A!Visibility(text[e[1]].flag)
             /\ v >= A!Visibility(past[e[1]][e[2]].flag)
  <2>1. PICK g \in gs : g[1] = e[1]
    BY DEF Guarding
  <2>2. /\ g[1] \in AnswerSources /\ text[g[1]] = g[3] /\ rows[g[1]].rev = g[2]
        /\ g[2] \in DOMAIN past[g[1]] /\ g[3] = past[g[1]][g[2]]
    BY DEF Guarding, A!GuardsHold
  <2>3. past[g[1]] \in Seq(AnswerTexts)
    BY <2>2 DEF RowTypes
  <2>4. g[3] \in AnswerTexts /\ A!Rank(g[3].flag) <= v
    BY <2>2, <2>3 DEF Bounded
  <2>5. past[e[1]][e[2]] \in AnswerTexts /\ A!Rank(past[e[1]][e[2]].flag) <= v
    BY <2>1, <2>3 DEF Bounded
  <2>6. None \notin AnswerTexts
    BY DEF A!Assumptions, AnswerTexts
  <2> QED
    BY <1>1, <2>1, <2>2, <2>4, <2>5, <2>6
<1> QED
  BY <1>2 DEF A!AsRestrictive

LEMMA AnswersRestrict ==
  ASSUME A!Assumptions, WellFormedFlags, AnswerInv, [A!Next]_answerVars
  PROVE  A!WritesNoLess /\ A!AppliesNoLess
<1>1. RowTypes /\ CallTypes
  BY DEF AnswerInv
<1>2. ASSUME NEW a \in SavedAnswers, note[a] = None, note'[a] = A!Written
      PROVE  A!AsRestrictive(a, a.visibility)
  <2>1. note' # note
    BY <1>2 DEF A!Assumptions
  <2>2. PICK c \in AnswerCalls : A!WriteNote(c)
    <3>1. ASSUME NEW b \in SavedAnswers PROVE ~A!EditNote(b)
      BY <1>1, <1>2 DEF A!EditNote, CallTypes, A!Assumptions
    <3> QED
      BY <2>1, <3>1
      DEF A!Next, A!Sync, A!EditTarget, A!EditSource, A!ApplyDraft, A!BeginSave,
          A!BeginPromotion, A!Enter, A!ValidateSave, A!RecordNote, A!Judge,
          A!PersistDraft, A!FinishPromotion, A!Die, A!notes, answerVars
  <2>3. step[c] = "write" /\ A!GuardsHold(seen[c].guards)
        /\ note' = [note EXCEPT ![call[c].answer] = A!Written]
    BY <2>1, <2>2 DEF A!WriteNote, A!Guarded, A!notes
  <2>4. call[c].answer = a
    BY <1>1, <1>2, <2>3 DEF CallTypes, A!Assumptions
  <2>5. /\ Guarding(a, seen[c].guards, past)
        /\ Bounded(a, seen[c].guards, a.visibility, past, rows)
    BY <2>3, <2>4 DEF AnswerInv, CallBounded
  <2> QED
    BY <1>1, <2>3, <2>5, GuardedIsBounded
<1>3. ASSUME target' # target, target'.from # None
      PROVE  A!AsRestrictive(target'.from.answer, target'.visibility)
  <2>1. PICK d \in drafts : A!ApplyDraft(d)
    <3>1. ~A!EditTarget
      BY <1>3 DEF A!EditTarget
    <3> QED
      BY <1>3, <3>1
      DEF A!Next, A!Sync, A!EditNote, A!EditSource, A!BeginSave,
          A!BeginPromotion, A!Enter, A!ValidateSave, A!WriteNote, A!RecordNote, A!Judge,
          A!PersistDraft, A!FinishPromotion, A!Die, answerVars
  <2>2. /\ target'.from = d.key /\ target'.visibility = d.visibility
        /\ A!GuardsHold(d.guards)
    BY <2>1 DEF A!ApplyDraft
  <2>3. DraftBounded(d, past, rows)
    BY DEF AnswerInv
  <2> QED
    BY <1>1, <2>2, <2>3, GuardedIsBounded DEF DraftBounded
<1> QED
  BY <1>2, <1>3 DEF A!WritesNoLess, A!AppliesNoLess
-----------------------------------------------------------------------------
(***************************************************************************)
(* Derived files.  A batch says what each of its files must hold before    *)
(* it, and that is a revision once the batch is recorded; a check makes    *)
(* sure that the file still holds it, and that the articles behind it are  *)
(* as they were; nobody but a person comes between the check and the       *)
(* replacement.  A manifest comes last in its batch, and files before the  *)
(* cursor of a batch are done.                                             *)
(***************************************************************************)
Listed(s) == \E D : s \in Seq(D)

\* What was made from an article was made from a public one.
MadeOfPublic(gs) == \A g \in gs : g[1] \in MetaArticles /\ g[2].text \in MetaTexts \ Hidden

\* A manifest lists files that its batch installs before it.
ManifestLast(arts, i, n) ==
    LET listed == arts[i].content[2][2]
    IN  /\ arts[i].content[1] = "generation" /\ arts[i].content[2][1] = n
        /\ \A f \in DOMAIN listed :
             \E j \in 1..i - 1 : arts[j].file = f /\ arts[j].content = listed[f]

BatchIs(arts, n) ==
    /\ Listed(arts)
    /\ \A i, j \in DOMAIN arts : arts[i].file = arts[j].file => i = j
    /\ \A i \in DOMAIN arts :
         /\ arts[i].file \in P!Files
         /\ MadeOfPublic(arts[i].guards)
         /\ arts[i].file \in P!Generated =>
              \E x : arts[i].content = <<"model", <<x, arts[i].guards>>>>
         /\ arts[i].file = "manifest" => ManifestLast(arts, i, n)

Recorded(arts, ks) ==
    \A i \in DOMAIN arts :
      arts[i].file \in P!Generated \cup {"trails"} => <<arts[i].file, arts[i].expected>> \in ks

MetaTypes == /\ touched \in Nat
             /\ stage = [p \in Maintainers |-> stage[p]]
             /\ meta = [f \in P!Files |-> meta[f]]
             /\ cursor \in Nat \ {0}
             /\ Listed(batches)
             /\ \A k \in DOMAIN batches : DOMAIN batches[k] = {"artifacts", "done"}

LockHeld == \A p \in Maintainers : stage[p] \in {"replay", "act", "install"} => lock = p

CursorHome == lock = None \/ P!Pending = {} => cursor = 1

BatchesRight == \A k \in DOMAIN batches : /\ BatchIs(batches[k].artifacts, k)
                                          /\ Recorded(batches[k].artifacts, kept)

Unraced(a) == /\ meta[a.file] = a.expected \/ <<"file", a.file>> \in raced
              /\ raced = {} => P!Guarded(a)

CheckedBefore == \A p \in Maintainers : stage[p] = "install" =>
                   /\ P!Pending # {} /\ cursor \in DOMAIN batches[P!Next1].artifacts
                   /\ Unraced(P!Current)

HoldsOwn(a) == meta[a.file] = a.content \/ meta[a.file][1] = "human"

CarriedOut == P!Pending # {} =>
                \A i \in DOMAIN batches[P!Next1].artifacts :
                  i < cursor => HoldsOwn(batches[P!Next1].artifacts[i])

\* The manifest in place is that of a batch, and all earlier ones are done.
ManifestIs(bs, m, n) ==
    /\ n \in DOMAIN bs
    /\ \A k \in DOMAIN bs : k < n => bs[k].done
    /\ \E i \in DOMAIN bs[n].artifacts : /\ bs[n].artifacts[i].file = "manifest"
                                         /\ bs[n].artifacts[i].content = m

InPlace == LET m == meta["manifest"]
           IN  m[1] = "generation" =>
                 ManifestIs(batches, m, m[2][1]) /\ P!WholeGeneration

ActsOnNone == \A p \in Maintainers : stage[p] = "act" => P!Pending = {}

MetaInv == /\ MetaTypes /\ LockHeld /\ CursorHome /\ BatchesRight /\ ActsOnNone
           /\ CheckedBefore /\ CarriedOut /\ InPlace

\* The sequences of batches and artifacts, one longer or changed in one place.
LEMMA Lengthened ==
  ASSUME NEW s, Listed(s), NEW e
  PROVE  /\ Listed(Append(s, e)) /\ Len(s) \in Nat /\ DOMAIN s = 1..Len(s)
         /\ Len(Append(s, e)) = Len(s) + 1 /\ DOMAIN Append(s, e) = 1..Len(s) + 1
         /\ \A k \in 1..Len(s) : Append(s, e)[k] = s[k]
         /\ Append(s, e)[Len(s) + 1] = e
<1>1. PICK D : s \in Seq(D)
  BY DEF Listed
<1>2. s \in Seq(D \cup {e}) /\ e \in D \cup {e}
  BY <1>1
<1>3. Append(s, e) \in Seq(D \cup {e})
  BY <1>2
<1>4. Listed(Append(s, e))
  BY <1>3 DEF Listed
<1> QED
  BY <1>2, <1>4

LEMMA ChangedAt ==
  ASSUME NEW s, Listed(s), NEW n \in DOMAIN s, NEW e
  PROVE  /\ Listed([s EXCEPT ![n] = e]) /\ DOMAIN [s EXCEPT ![n] = e] = DOMAIN s
         /\ [s EXCEPT ![n] = e][n] = e
         /\ \A k \in DOMAIN s : k # n => [s EXCEPT ![n] = e][k] = s[k]
<1>1. PICK D : s \in Seq(D)
  BY DEF Listed
<1>2. [s EXCEPT ![n] = e] \in Seq(D \cup {e})
  BY <1>1
<1> QED
  BY <1>1, <1>2 DEF Listed

\* The first pending batch.
First(n) == n \in P!Pending /\ \A l \in P!Pending : n <= l

LEMMA NextIsFirst ==
  ASSUME MetaTypes, P!Pending # {} PROVE First(P!Next1)
<1>1. P!Pending \subseteq Nat
  BY Lengthened DEF MetaTypes, P!Pending
<1>2. \E m \in P!Pending : \A l \in P!Pending : m <= l
  BY <1>1, Least
<1> QED
  BY <1>2 DEF First, P!Next1

LEMMA NextIsFirstThen ==
  ASSUME MetaTypes', P!Pending' # {} PROVE First(P!Next1)'
<1>1. P!Pending' \subseteq Nat
  BY Lengthened DEF MetaTypes, P!Pending
<1>2. \E m \in P!Pending' : \A l \in P!Pending' : m <= l
  BY <1>1, Least
<1> QED
  BY <1>2 DEF First, P!Next1

\* There is only one.
LEMMA OneFirst ==
  ASSUME MetaTypes, NEW m, NEW n, First(m), First(n) PROVE m = n
<1>1. m \in Nat /\ n \in Nat
  BY Lengthened DEF First, MetaTypes, P!Pending
<1> QED
  BY <1>1 DEF First

LEMMA SameBatches ==
  ASSUME batches' = batches
  PROVE  P!Pending' = P!Pending /\ P!Next1' = P!Next1
  BY DEF P!Pending, P!Next1

LEMMA FilesAre ==
  P!Files = {"aliases", "backlinks", "manifest", "taxonomy", "entities", "base",
             "lang", "trails", "sources"}
<1>1. P!Range(P!FullBatch) = {"aliases", "backlinks", "manifest"}
  BY DEF P!Range, P!FullBatch
<1> QED
  BY <1>1 DEF P!Files, P!Generated

\* Who is at a step of a locked section has the lock, and nobody else is.
LEMMA AloneLocked ==
  ASSUME P!Assumptions, MetaInv, NEW p \in Maintainers,
         stage[p] \in {"replay", "act", "install"}
  PROVE  /\ lock = p /\ lock # None
         /\ \A q \in Maintainers : stage[q] \in {"replay", "act", "install"} => q = p
  BY DEF P!Assumptions, MetaInv, LockHeld

LEMMA NoneLocked ==
  ASSUME P!Assumptions, MetaInv, lock = None, NEW p \in Maintainers
  PROVE  stage[p] \notin {"replay", "act", "install"}
  BY DEF P!Assumptions, MetaInv, LockHeld

LEMMA MetaInit == ASSUME P!Assumptions, P!Init PROVE MetaInv
<1>1. batches = <<>> /\ Listed(batches) /\ P!Pending = {}
  <2>1. <<>> \in Seq({})
    OBVIOUS
  <2> QED
    BY <2>1 DEF P!Init, P!Pending, Listed
<1>2. MetaTypes
  BY <1>1 DEF P!Init, P!NoFiles, MetaTypes
<1>3. meta["manifest"] = <<"none", 0>>
  BY FilesAre DEF P!Init, P!NoFiles, P!Missing
<1> QED
  BY <1>1, <1>2, <1>3
  DEF P!Init, MetaInv, LockHeld, CursorHome, BatchesRight, ActsOnNone, CheckedBefore,
      CarriedOut, InPlace

\* A process goes on, takes the lock, or lets go of it; no file is touched.
Moves(p, x) ==
    /\ stage' = [stage EXCEPT ![p] = x] /\ x # "install"
    /\ x = "act" => P!Pending = {}
    /\ UNCHANGED <<meta, batches, kept, touched, pages>>
    /\ \/ /\ UNCHANGED <<lock, cursor, raced, index>>
          /\ x \in {"replay", "act"} => lock = p
       \/ /\ lock = None /\ lock' = p
          /\ UNCHANGED <<cursor, raced, index>>
       \/ /\ lock = p /\ lock' = None /\ cursor' = 1 /\ raced' = {}
          /\ x \notin {"replay", "act"}

LEMMA MovesKeep ==
  ASSUME P!Assumptions, MetaInv, NEW p \in Maintainers, NEW x, Moves(p, x)
  PROVE  MetaInv'
<1>1. P!Pending' = P!Pending /\ P!Next1' = P!Next1
  BY SameBatches DEF Moves
<1>2. /\ stage'[p] = x
      /\ \A q \in Maintainers : q # p => stage'[q] = stage[q]
      /\ stage' = [q \in Maintainers |-> stage'[q]]
  BY DEF MetaInv, MetaTypes, Moves
<1>3. MetaTypes'
  BY <1>2 DEF MetaInv, MetaTypes, Moves
<1>4. LockHeld'
  <2> SUFFICES ASSUME NEW q \in Maintainers, stage'[q] \in {"replay", "act", "install"}
               PROVE  lock' = q
    BY DEF LockHeld
  <2>1. CASE q = p
    BY <1>2, <2>1 DEF Moves
  <2>2. CASE q # p
    <3>1. lock = q /\ lock # None
      BY <1>2, <2>2, AloneLocked
    <3> QED
      BY <2>2, <3>1 DEF Moves
  <2> QED
    BY <2>1, <2>2
<1>5. CursorHome'
  BY <1>1 DEF MetaInv, CursorHome, Moves
<1>6. BatchesRight'
  BY DEF MetaInv, BatchesRight, Moves
<1>7. ActsOnNone'
  BY <1>1, <1>2 DEF MetaInv, ActsOnNone, Moves
<1>8. CheckedBefore'
  <2> SUFFICES ASSUME NEW q \in Maintainers, stage'[q] = "install"
               PROVE  /\ P!Pending' # {} /\ cursor' \in DOMAIN batches'[P!Next1'].artifacts
                      /\ Unraced(P!Current)'
    BY DEF CheckedBefore
  <2>1. q # p /\ stage[q] = "install"
    BY <1>2 DEF Moves
  <2>2. lock = q /\ lock # None
    BY <2>1, AloneLocked
  <2>3. UNCHANGED <<cursor, raced, index, pages, meta, batches>>
    BY <2>1, <2>2 DEF Moves
  <2>4. /\ P!Pending # {} /\ cursor \in DOMAIN batches[P!Next1].artifacts
        /\ Unraced(P!Current)
    BY <2>1 DEF MetaInv, CheckedBefore
  <2>5. P!Current' = P!Current
    BY <1>1, <2>3 DEF P!Current
  <2> QED
    BY <1>1, <2>3, <2>4, <2>5 DEF Unraced, P!Guarded
<1>9. CarriedOut'
  <2>1. cursor' = cursor \/ cursor' = 1
    BY DEF Moves
  <2>2. \A i \in Nat \ {0} : ~(i < 1)
    OBVIOUS
  <2>3. CASE cursor' = cursor
    BY <1>1, <2>3 DEF MetaInv, CarriedOut, HoldsOwn, Moves
  <2>4. CASE cursor' = 1
    <3>1. ASSUME P!Pending # {}, NEW i \in DOMAIN batches[P!Next1].artifacts
          PROVE  i \in Nat \ {0}
      <4>1. Listed(batches[P!Next1].artifacts)
        BY <3>1, NextIsFirst DEF MetaInv, BatchesRight, BatchIs, First, P!Pending
      <4> QED
        BY <3>1, <4>1, Lengthened
    <3> QED
      BY <1>1, <2>2, <2>4, <3>1 DEF CarriedOut, Moves
  <2> QED
    BY <2>1, <2>3, <2>4
<1>10. InPlace'
  BY DEF MetaInv, InPlace, ManifestIs, P!WholeGeneration, Moves
<1> QED
  BY <1>3, <1>4, <1>5, <1>6, <1>7, <1>8, <1>9, <1>10 DEF MetaInv

\* A batch is recorded behind the others; whoever recorded it carries it out.
Adds(p, arts) ==
    /\ lock = None \/ stage[p] = "act"
    /\ batches' = Append(batches, [artifacts |-> arts, done |-> FALSE])
    /\ stage' = [stage EXCEPT ![p] = "replay"] /\ lock' = p
    /\ UNCHANGED <<meta, index, pages, cursor, raced, touched>>
    /\ kept \subseteq kept'
    /\ BatchIs(arts, P!Number) /\ Recorded(arts, kept')

LEMMA AddsKeeps ==
  ASSUME P!Assumptions, MetaInv, NEW p \in Maintainers, NEW arts, Adds(p, arts)
  PROVE  MetaInv'
<1> DEFINE new == [artifacts |-> arts, done |-> FALSE]
           n == Len(batches)
<1>1. /\ n \in Nat /\ DOMAIN batches = 1..n /\ P!Number = n + 1
      /\ Listed(batches') /\ DOMAIN batches' = 1..n + 1 /\ Len(batches') = n + 1
      /\ \A k \in 1..n : batches'[k] = batches[k]
      /\ batches'[n + 1] = new
  BY Lengthened DEF MetaInv, MetaTypes, Adds, P!Number
<1> HIDE DEF n
<1>2. \A q \in Maintainers : stage'[q] = IF q = p THEN "replay" ELSE stage[q]
  BY DEF MetaInv, MetaTypes, Adds
<1>3. \A q \in Maintainers : stage[q] \in {"replay", "act", "install"} => q = p /\ stage[q] = "act"
  BY AloneLocked, NoneLocked DEF Adds
<1>4. cursor = 1
  BY DEF Adds, MetaInv, CursorHome, ActsOnNone
<1>5. MetaTypes'
  <2>1. stage' = [q \in Maintainers |-> stage'[q]]
    BY DEF MetaInv, MetaTypes, Adds
  <2>2. \A k \in DOMAIN batches' : DOMAIN batches'[k] = {"artifacts", "done"}
    <3> SUFFICES ASSUME NEW k \in 1..n + 1
                 PROVE  DOMAIN batches'[k] = {"artifacts", "done"}
      BY <1>1
    <3>1. CASE k \in 1..n
      BY <1>1, <3>1 DEF MetaInv, MetaTypes
    <3>2. CASE k = n + 1
      BY <1>1, <3>2
    <3> QED
      BY <1>1, <3>1, <3>2
  <2> QED
    BY <1>1, <2>1, <2>2 DEF MetaInv, MetaTypes, Adds
<1>6. LockHeld'
  BY <1>2, <1>3 DEF LockHeld, Adds
<1>7. n + 1 \in P!Pending'
  BY <1>1 DEF P!Pending
<1>8. CursorHome'
  BY <1>7, <1>4 DEF CursorHome, Adds
<1>9. BatchesRight'
  <2> SUFFICES ASSUME NEW k \in 1..n + 1
               PROVE  /\ BatchIs(batches'[k].artifacts, k)
                      /\ Recorded(batches'[k].artifacts, kept')
    BY <1>1 DEF BatchesRight, BatchIs, Recorded, ManifestLast, MadeOfPublic
  <2>1. CASE k \in 1..n
    BY <1>1, <2>1 DEF MetaInv, BatchesRight, Recorded, Adds
  <2>2. CASE k = n + 1
    BY <1>1, <2>2 DEF Adds
  <2> QED
    BY <1>1, <2>1, <2>2
<1>10. ActsOnNone' /\ CheckedBefore'
  <2>1. \A q \in Maintainers : stage'[q] \notin {"act", "install"}
    BY <1>2, <1>3
  <2> QED
    BY <2>1 DEF ActsOnNone, CheckedBefore
<1>11. CarriedOut'
  <2> SUFFICES ASSUME P!Pending' # {}, NEW i \in DOMAIN batches'[P!Next1'].artifacts
               PROVE  ~(i < cursor')
    BY DEF CarriedOut
  <2>1. P!Next1' \in DOMAIN batches'
    BY <1>5, NextIsFirstThen DEF First, P!Pending
  <2>2. Listed(batches'[P!Next1'].artifacts)
    BY <1>9, <2>1 DEF BatchesRight, BatchIs
  <2>3. i \in Nat \ {0}
    BY <2>2, Lengthened
  <2> QED
    BY <1>4, <2>3 DEF Adds
<1>12. InPlace'
  <2> SUFFICES ASSUME meta["manifest"][1] = "generation"
               PROVE  /\ ManifestIs(batches', meta["manifest"], meta["manifest"][2][1])
                      /\ P!WholeGeneration'
    BY DEF InPlace, Adds
  <2> DEFINE g == meta["manifest"][2][1]
             listed == meta["manifest"][2][2]
  <2>1. ManifestIs(batches, meta["manifest"], g) /\ P!WholeGeneration /\ meta' = meta
    BY DEF MetaInv, InPlace, Adds
  <2>2. g \in 1..n
    BY <1>1, <2>1 DEF ManifestIs
  <2>3. \A k \in 1..n + 1 : k < g => k \in 1..n
    BY <1>1, <2>2
  <2>4. ManifestIs(batches', meta["manifest"], g)
    <3>1. /\ g \in DOMAIN batches'
          /\ \A k \in DOMAIN batches' : k < g => batches'[k].done
          /\ batches'[g] = batches[g]
      BY <1>1, <2>1, <2>2, <2>3 DEF ManifestIs
    <3> HIDE DEF g
    <3> QED
      BY <2>1, <3>1 DEF ManifestIs
  <2>5. \A f \in DOMAIN listed :
          \/ meta[f] = listed[f] \/ meta[f][1] = "human"
          \/ \E k \in g+1..n : \E a \in P!Range(batches[k].artifacts) : a.file = f
    BY <2>1 DEF P!WholeGeneration, n
  <2>6. \A k \in g+1..n : k \in 1..n /\ k \in g+1..n + 1
    BY <1>1, <2>2
  <2>7. \A f \in DOMAIN listed :
          \/ meta'[f] = listed[f] \/ meta'[f][1] = "human"
          \/ \E k \in g+1..Len(batches') :
               \E a \in P!Range(batches'[k].artifacts) : a.file = f
    BY <1>1, <2>1, <2>5, <2>6
  <2>8. P!WholeGeneration'
    BY <2>1, <2>7 DEF P!WholeGeneration, P!Range
  <2> QED
    BY <2>1, <2>4, <2>8
<1> QED
  BY <1>5, <1>6, <1>8, <1>9, <1>10, <1>11, <1>12 DEF MetaInv

\* What is recorded: a rebuild, a file on its own, a generation.
RebuiltFile(i) == P!Artifact(P!FullBatch[i], meta[P!FullBatch[i]], P!Content(P!FullBatch[i]), {})

LEMMA RebuiltIs == BatchIs(P!Rebuilt, P!Number) /\ \A ks : Recorded(P!Rebuilt, ks)
<1> DEFINE arts == P!Rebuilt
<1>1. DOMAIN P!FullBatch = 1..3
  BY DEF P!FullBatch
<1>2. arts = [i \in 1..3 |-> RebuiltFile(i)]
  BY <1>1 DEF P!Rebuilt, P!Whole, RebuiltFile
<1> HIDE DEF arts
<1>3. arts \in Seq({RebuiltFile(i) : i \in 1..3}) /\ DOMAIN arts = 1..3
  BY <1>2
<1>4. /\ arts[1].file = "aliases" /\ arts[2].file = "backlinks" /\ arts[3].file = "manifest"
      /\ \A i \in 1..3 : arts[i].guards = {}
  BY <1>2 DEF RebuiltFile, P!Artifact, P!FullBatch
<1>5. /\ arts[1].content = P!Made["aliases"] /\ arts[2].content = P!Made["backlinks"]
      /\ arts[3].content = <<"generation", <<P!Number, P!Made>>>>
  BY <1>2 DEF RebuiltFile, P!Artifact, P!FullBatch, P!Content
<1>6. DOMAIN P!Made = {"aliases", "backlinks"}
  BY DEF P!Made
<1>7. ManifestLast(arts, 3, P!Number)
  BY <1>4, <1>5, <1>6 DEF ManifestLast
<1>8. \A i \in 1..3 : i = 1 \/ i = 2 \/ i = 3
  OBVIOUS
<1>9. BatchIs(arts, P!Number)
  <2>1. \A i \in DOMAIN arts : arts[i].file = "manifest" => ManifestLast(arts, i, P!Number)
    BY <1>3, <1>4, <1>7, <1>8
  <2>2. \A i, j \in DOMAIN arts : arts[i].file = arts[j].file => i = j
    BY <1>3, <1>4, <1>8
  <2>3. \A i \in DOMAIN arts :
          /\ arts[i].file \in P!Files \ P!Generated /\ MadeOfPublic(arts[i].guards)
    BY <1>3, <1>4, <1>8, FilesAre DEF P!Generated, MadeOfPublic
  <2> QED
    BY <1>3, <2>1, <2>2, <2>3 DEF BatchIs, Listed
<1>10. \A ks : Recorded(arts, ks)
  BY <1>3, <1>4, <1>8 DEF Recorded, P!Generated
<1> QED
  BY <1>9, <1>10 DEF arts

LEMMA SingleIs ==
  ASSUME NEW f \in {"backlinks", "sources", "trails"}, NEW e, NEW c, NEW ks,
         f = "trails" => <<f, e>> \in ks
  PROVE  /\ BatchIs(<<P!Artifact(f, e, c, {})>>, P!Number)
         /\ Recorded(<<P!Artifact(f, e, c, {})>>, ks)
<1> DEFINE a == P!Artifact(f, e, c, {})
           arts == <<a>>
<1>1. /\ arts \in Seq({a}) /\ DOMAIN arts = {1} /\ arts[1] = a
  OBVIOUS
<1>2. a.file = f /\ a.guards = {} /\ a.expected = e
  BY DEF P!Artifact
<1> HIDE DEF arts, a
<1>3. BatchIs(arts, P!Number)
  BY <1>1, <1>2, FilesAre DEF BatchIs, Listed, P!Generated, MadeOfPublic
<1>4. Recorded(arts, ks)
  BY <1>1, <1>2 DEF Recorded, P!Generated
<1> QED
  BY <1>3, <1>4 DEF arts, a

\* The files of one generation, none of them twice.
LEMMA GenerationIs ==
  ASSUME NEW files \in {<<"taxonomy">>, <<"entities">>, <<"lang">>, <<"base", "lang">>},
         NEW e, NEW x, NEW gs, MadeOfPublic(gs), NEW ks,
         LET made == [i \in DOMAIN files |->
                        P!Artifact(files[i], e[files[i]], <<"model", <<x, gs>>>>, gs)]
         IN  \A a \in P!Range(made) : <<a.file, a.expected>> \in ks
  PROVE  LET made == [i \in DOMAIN files |->
                        P!Artifact(files[i], e[files[i]], <<"model", <<x, gs>>>>, gs)]
         IN  BatchIs(made, P!Number) /\ Recorded(made, ks)
<1> DEFINE made == [i \in DOMAIN files |->
                      P!Artifact(files[i], e[files[i]], <<"model", <<x, gs>>>>, gs)]
<1> DEFINE Ordered(n) == /\ DOMAIN files = 1..n
                         /\ \A i \in 1..n : files[i] \in P!Generated
                         /\ \A i, j \in 1..n : files[i] = files[j] => i = j
<1>1. \E n \in Nat : Ordered(n)
  <2>1. CASE files \in {<<"taxonomy">>, <<"entities">>, <<"lang">>}
    <3>1. DOMAIN files = 1..1 /\ files[1] \in P!Generated
      BY <2>1 DEF P!Generated
    <3> QED
      BY <3>1
  <2>2. CASE files = <<"base", "lang">>
    <3>1. DOMAIN files = 1..2 /\ files[1] = "base" /\ files[2] = "lang"
      BY <2>2
    <3>2. Ordered(2)
      BY <3>1 DEF P!Generated
    <3> QED
      BY <3>2
  <2> QED
    BY <2>1, <2>2
<1>2. PICK n \in Nat : Ordered(n)
  BY <1>1
<1>3. DOMAIN made = 1..n /\ \A i \in 1..n :
        /\ made[i].file = files[i] /\ made[i].expected = e[files[i]]
        /\ made[i].content = <<"model", <<x, gs>>>> /\ made[i].guards = gs
        /\ made[i] \in P!Range(made)
  BY <1>2 DEF P!Artifact, P!Range
<1>4. made \in Seq({made[i] : i \in 1..n})
  BY <1>2
<1> HIDE DEF made
<1>5. BatchIs(made, P!Number)
  <2>1. \A f \in P!Generated : f \in P!Files /\ f # "manifest"
    BY FilesAre DEF P!Generated
  <2> QED
    BY <1>2, <1>3, <1>4, <2>1 DEF BatchIs, Listed
<1>6. \A a \in P!Range(made) : <<a.file, a.expected>> \in ks
  BY DEF made
<1>7. Recorded(made, ks)
  BY <1>3, <1>6 DEF Recorded
<1> QED
  BY <1>5, <1>7 DEF made

\* One file of the first pending batch is looked at.
LEMMA CheckKeeps ==
  ASSUME P!Assumptions, MetaInv, NEW p \in Maintainers, P!Check(p)
  PROVE  MetaInv'
<1> DEFINE n == P!Next1
           arts == batches[n].artifacts
<1>1. P!Pending' = P!Pending /\ P!Next1' = P!Next1
  BY SameBatches DEF P!Check, P!library
<1>2. /\ stage[p] = "replay" /\ lock' = lock /\ lock = p /\ lock # None
      /\ UNCHANGED <<meta, batches, kept, index, pages, touched>> /\ raced' = {}
      /\ P!Pending # {} /\ P!Guarded(P!Current)
  BY AloneLocked DEF P!Check, P!library
<1>3. \A q \in Maintainers : q # p => stage[q] \notin {"replay", "act", "install"}
  BY <1>2, AloneLocked
<1>4. n \in DOMAIN batches /\ Listed(arts) /\ DOMAIN arts = 1..Len(arts) /\ Len(arts) \in Nat
  BY <1>2, NextIsFirst, Lengthened DEF MetaInv, BatchesRight, BatchIs, First, P!Pending
<1>5. cursor \in DOMAIN arts /\ cursor \in Nat
  BY <1>4 DEF P!Check, MetaInv, MetaTypes
<1>6. P!Current = arts[cursor]
  BY DEF P!Current
<1> HIDE DEF n, arts
<1>a. BatchesRight' /\ InPlace'
  BY <1>2 DEF MetaInv, BatchesRight, InPlace, ManifestIs, P!WholeGeneration
<1>7. CASE meta[P!Current.file] = P!Current.content /\ cursor' = cursor + 1 /\ UNCHANGED stage
  <2>1. MetaTypes' /\ LockHeld' /\ CursorHome' /\ ActsOnNone'
    BY <1>1, <1>2, <1>5, <1>7
    DEF MetaInv, MetaTypes, LockHeld, CursorHome, ActsOnNone
  <2>2. CheckedBefore'
    BY <1>2, <1>3, <1>7 DEF CheckedBefore
  <2>3. CarriedOut'
    <3> SUFFICES ASSUME NEW i \in DOMAIN arts, i < cursor + 1 PROVE HoldsOwn(arts[i])'
      BY <1>1, <1>2, <1>7 DEF CarriedOut, n, arts
    <3>1. i < cursor \/ i = cursor
      BY <1>4, <1>5
    <3>2. HoldsOwn(arts[i])
      BY <1>2, <1>6, <1>7, <3>1 DEF MetaInv, CarriedOut, HoldsOwn, n, arts
    <3> QED
      BY <1>1, <1>2, <3>2 DEF HoldsOwn, n, arts
  <2> QED
    BY <1>a, <2>1, <2>2, <2>3 DEF MetaInv
<1>8. CASE /\ P!Expected(P!Current) /\ UNCHANGED cursor
           /\ stage' = [stage EXCEPT ![p] = "install"]
  <2>1. \A q \in Maintainers : stage'[q] = IF q = p THEN "install" ELSE stage[q]
    BY <1>8 DEF MetaInv, MetaTypes
  <2>2. stage' = [q \in Maintainers |-> stage'[q]]
    BY <1>8 DEF MetaInv, MetaTypes
  <2>3. MetaTypes' /\ LockHeld' /\ CursorHome' /\ ActsOnNone'
    BY <1>1, <1>2, <1>3, <1>8, <2>1, <2>2
    DEF MetaInv, MetaTypes, LockHeld, CursorHome, ActsOnNone
  <2>4. P!Current' = P!Current
    BY <1>1, <1>2, <1>8 DEF P!Current
  <2>5. Unraced(P!Current)'
    BY <1>2, <1>8, <2>4 DEF Unraced, P!Expected, P!Guarded
  <2>6. CheckedBefore'
    BY <1>1, <1>2, <1>5, <1>8, <2>5 DEF CheckedBefore, n, arts
  <2>7. CarriedOut'
    BY <1>1, <1>2, <1>8 DEF MetaInv, CarriedOut, HoldsOwn
  <2> QED
    BY <1>a, <2>3, <2>6, <2>7 DEF MetaInv
<1> QED
  BY <1>7, <1>8 DEF P!Check, P!Goto

\* The file is replaced by that of the batch.
LEMMA InstallKeeps ==
  ASSUME P!Assumptions, MetaInv, NEW p \in Maintainers, P!Install(p)
  PROVE  MetaInv'
<1> DEFINE n == P!Next1
           arts == batches[n].artifacts
           own == arts[cursor]
<1>1. P!Pending' = P!Pending /\ P!Next1' = P!Next1
  BY SameBatches DEF P!Install
<1>2. /\ stage[p] = "install" /\ lock' = lock /\ lock = p /\ lock # None
      /\ UNCHANGED <<batches, kept, index, pages, raced, touched>>
      /\ P!Pending # {} /\ cursor \in DOMAIN arts /\ cursor' = cursor + 1
      /\ meta' = [meta EXCEPT ![own.file] = own.content]
      /\ stage' = [stage EXCEPT ![p] = "replay"]
  BY AloneLocked DEF P!Install, P!Goto, P!Current, MetaInv, CheckedBefore
<1>3. \A q \in Maintainers : stage'[q] \notin {"act", "install"}
                             /\ (stage'[q] = "replay" => q = p)
  BY <1>2, AloneLocked DEF MetaInv, MetaTypes
<1>4. First(n) /\ n \in DOMAIN batches /\ BatchIs(arts, n) /\ ~batches[n].done
  BY <1>2, NextIsFirst DEF MetaInv, BatchesRight, First, P!Pending
<1>5. DOMAIN arts = 1..Len(arts) /\ Len(arts) \in Nat /\ cursor \in Nat \ {0} /\ own.file \in P!Files
  BY <1>2, <1>4, Lengthened DEF BatchIs, MetaInv, MetaTypes
<1>6. DOMAIN batches = 1..Len(batches) /\ Len(batches) \in Nat
  BY Lengthened DEF MetaInv, MetaTypes
<1>7. \A f \in P!Files : meta'[f] = IF f = own.file THEN own.content ELSE meta[f]
  BY <1>2 DEF MetaInv, MetaTypes
<1> HIDE DEF n, arts, own
<1>8. MetaTypes'
  <2>1. /\ stage' = [q \in Maintainers |-> stage'[q]]
        /\ meta' = [f \in P!Files |-> meta'[f]]
    BY <1>2 DEF MetaInv, MetaTypes
  <2> QED
    BY <1>2, <1>5, <2>1 DEF MetaInv, MetaTypes
<1>9. LockHeld' /\ CursorHome' /\ ActsOnNone' /\ CheckedBefore' /\ BatchesRight'
  BY <1>1, <1>2, <1>3
  DEF MetaInv, LockHeld, CursorHome, ActsOnNone, CheckedBefore, BatchesRight
\* What the files before the cursor hold, they hold still.
<1>10. \A i \in DOMAIN arts : i <= cursor =>
         meta'[arts[i].file] = arts[i].content \/ meta'[arts[i].file][1] = "human"
  <2> SUFFICES ASSUME NEW i \in DOMAIN arts, i <= cursor
               PROVE  meta'[arts[i].file] = arts[i].content \/ meta'[arts[i].file][1] = "human"
    OBVIOUS
  <2>1. arts[i].file \in P!Files
    BY <1>4 DEF BatchIs
  <2>2. CASE i = cursor
    BY <1>7, <2>1, <2>2 DEF own
  <2>3. CASE i # cursor
    <3>1. i < cursor /\ arts[i].file # own.file
      BY <1>2, <1>4, <1>5, <2>3 DEF BatchIs, own
    <3>2. HoldsOwn(arts[i])
      BY <1>2, <3>1 DEF MetaInv, CarriedOut, n, arts
    <3> QED
      BY <1>7, <2>1, <3>1, <3>2 DEF HoldsOwn
  <2> QED
    BY <2>2, <2>3
<1>11. CarriedOut'
  <2> SUFFICES ASSUME NEW i \in DOMAIN arts, i < cursor + 1 PROVE HoldsOwn(arts[i])'
    BY <1>1, <1>2 DEF CarriedOut, n, arts
  <2>1. i <= cursor
    BY <1>5
  <2> QED
    BY <1>1, <1>2, <1>10, <2>1 DEF HoldsOwn, n, arts
<1>12. InPlace'
  <2> DEFINE m == meta'["manifest"]
             g == m[2][1]
             listed == m[2][2]
  <2> SUFFICES ASSUME m[1] = "generation"
               PROVE  ManifestIs(batches', m, g) /\ P!WholeGeneration'
    BY DEF InPlace
  <2>0. "manifest" \in P!Files
    BY FilesAre
  <2>1. CASE own.file = "manifest"
    <3>1. m = own.content /\ ManifestLast(arts, cursor, n)
      BY <1>2, <1>4, <1>7, <2>0, <2>1 DEF BatchIs, own
    <3>2. g = n /\ \A f \in DOMAIN listed :
                      \E j \in 1..cursor - 1 : arts[j].file = f /\ arts[j].content = listed[f]
      BY <3>1 DEF ManifestLast, own
    <3>3. \A f \in DOMAIN listed : meta'[f] = listed[f] \/ meta'[f][1] = "human"
      <4> SUFFICES ASSUME NEW f \in DOMAIN listed
                   PROVE  meta'[f] = listed[f] \/ meta'[f][1] = "human"
        OBVIOUS
      <4>1. PICK j \in 1..cursor - 1 : arts[j].file = f /\ arts[j].content = listed[f]
        BY <3>2
      <4>2. j \in DOMAIN arts /\ j <= cursor
        BY <1>2, <1>5
      <4> QED
        BY <1>10, <4>1, <4>2
    <3>4. P!WholeGeneration'
      BY <3>3 DEF P!WholeGeneration
    <3>5. \A k \in DOMAIN batches : k < n => batches[k].done
      BY <1>4, <1>6 DEF First, P!Pending
    <3>6. ManifestIs(batches', m, n)
      <4>1. arts[cursor].file = "manifest" /\ arts[cursor].content = m
        BY <2>1, <3>1 DEF own
      <4>2. batches' = batches /\ batches[n].artifacts = arts
        BY <1>2 DEF arts
      <4> HIDE DEF m
      <4> QED
        BY <1>2, <1>4, <3>5, <4>1, <4>2 DEF ManifestIs
    <3> QED
      BY <3>2, <3>4, <3>6
  <2>2. CASE own.file # "manifest"
    <3>1. m = meta["manifest"] /\ ManifestIs(batches, m, g) /\ P!WholeGeneration
      BY <1>7, <2>0, <2>2 DEF MetaInv, InPlace
    <3>2. ManifestIs(batches', m, g)
      BY <1>2, <3>1
    <3>3. g \in 1..Len(batches) /\ n \in 1..Len(batches) /\ g <= n
      BY <1>4, <1>6, <3>1 DEF ManifestIs
    <3> HIDE DEF g
    <3>4. PICK i \in DOMAIN batches[g].artifacts :
            /\ batches[g].artifacts[i].file = "manifest"
            /\ batches[g].artifacts[i].content = m
      BY <3>1 DEF ManifestIs
    <3>5. ManifestLast(batches[g].artifacts, i, g) /\ BatchIs(batches[g].artifacts, g)
          /\ Listed(batches[g].artifacts)
      BY <1>6, <3>3, <3>4 DEF MetaInv, BatchesRight, BatchIs
    <3>a. /\ DOMAIN batches[g].artifacts = 1..Len(batches[g].artifacts)
          /\ Len(batches[g].artifacts) \in Nat
      BY <3>5, Lengthened
    <3>6. ASSUME NEW f \in DOMAIN listed
          PROVE  \/ meta'[f] = listed[f] \/ meta'[f][1] = "human"
                 \/ \E k \in g+1..Len(batches) :
                      \E a \in P!Range(batches[k].artifacts) : a.file = f
      <4>1. PICK j \in 1..i - 1 : /\ batches[g].artifacts[j].file = f
                                  /\ batches[g].artifacts[j].content = listed[f]
        BY <3>4, <3>5 DEF ManifestLast
      <4>2. j \in DOMAIN batches[g].artifacts
        BY <3>4, <3>a
      <4>3. f \in P!Files
        BY <3>5, <4>1, <4>2 DEF BatchIs
      <4>4. CASE f # own.file
        BY <1>2, <1>7, <3>1, <4>3, <4>4 DEF P!WholeGeneration, g
      <4>5. CASE f = own.file /\ g = n
        <5>1. j = cursor
          BY <1>2, <3>5, <4>1, <4>2, <4>5 DEF BatchIs, own, arts
        <5> QED
          BY <1>7, <4>1, <4>3, <4>5, <5>1 DEF own, arts
      <4>6. CASE f = own.file /\ g # n
        <5>1. n \in g+1..Len(batches)
          BY <3>3, <4>6
        <5>2. own \in P!Range(arts)
          BY <1>2 DEF own, P!Range
        <5> QED
          BY <4>6, <5>1, <5>2 DEF arts
      <4> QED
        BY <4>4, <4>5, <4>6
    <3>7. P!WholeGeneration'
      BY <1>2, <3>6 DEF P!WholeGeneration, P!Range, g
    <3> QED
      BY <3>2, <3>7
  <2> QED
    BY <2>1, <2>2
<1> QED
  BY <1>8, <1>9, <1>11, <1>12 DEF MetaInv

\* Every file of the batch is done.
LEMMA CompleteKeeps ==
  ASSUME P!Assumptions, MetaInv, NEW p \in Maintainers, P!Complete(p)
  PROVE  MetaInv'
<1> DEFINE n == P!Next1
           now == [batches[n] EXCEPT !.done = TRUE]
<1>1. /\ stage[p] = "replay" /\ lock' = lock /\ lock = p /\ lock # None
      /\ UNCHANGED <<meta, kept, index, pages, raced, touched, stage>> /\ cursor' = 1
      /\ P!Pending # {}
  BY AloneLocked DEF P!Complete
<1>2. \A q \in Maintainers : q # p => stage[q] \notin {"replay", "act", "install"}
  BY <1>1, AloneLocked
<1>3. n \in DOMAIN batches /\ Listed(batches)
  BY <1>1, NextIsFirst DEF MetaInv, MetaTypes, First, P!Pending
<1>4. batches' = [batches EXCEPT ![n] = now]
  BY DEF P!Complete
<1>5. /\ now.artifacts = batches[n].artifacts /\ now.done = TRUE
      /\ DOMAIN now = {"artifacts", "done"}
  BY <1>3 DEF MetaInv, MetaTypes
<1> HIDE DEF n, now
<1>6. /\ Listed(batches') /\ DOMAIN batches' = DOMAIN batches /\ batches'[n] = now
      /\ \A k \in DOMAIN batches : k # n => batches'[k] = batches[k]
  BY <1>3, <1>4, ChangedAt
<1>7. \A k \in DOMAIN batches : /\ batches'[k].artifacts = batches[k].artifacts
                                /\ batches[k].done => batches'[k].done
  BY <1>5, <1>6
<1>8. MetaTypes'
  BY <1>1, <1>5, <1>6 DEF MetaInv, MetaTypes
<1>9. LockHeld' /\ CursorHome'
  BY <1>1 DEF MetaInv, LockHeld, CursorHome
<1>10. BatchesRight'
  BY <1>1, <1>6, <1>7 DEF MetaInv, BatchesRight
<1>11. ActsOnNone' /\ CheckedBefore'
  BY <1>1, <1>2 DEF ActsOnNone, CheckedBefore
<1>12. CarriedOut'
  <2> SUFFICES ASSUME P!Pending' # {}, NEW i \in DOMAIN batches'[P!Next1'].artifacts
               PROVE  ~(i < cursor')
    BY DEF CarriedOut
  <2>1. P!Next1' \in DOMAIN batches'
    BY <1>8, NextIsFirstThen DEF First, P!Pending
  <2>2. Listed(batches'[P!Next1'].artifacts)
    BY <1>10, <2>1 DEF BatchesRight, BatchIs
  <2>3. i \in Nat \ {0}
    BY <2>2, Lengthened
  <2> QED
    BY <1>1, <2>3
<1>13. InPlace'
  <2> DEFINE m == meta["manifest"]
             g == m[2][1]
  <2> SUFFICES ASSUME m[1] = "generation"
               PROVE  ManifestIs(batches', m, g) /\ P!WholeGeneration'
    BY <1>1 DEF InPlace
  <2>1. ManifestIs(batches, m, g) /\ P!WholeGeneration
    BY DEF MetaInv, InPlace
  <2>2. ManifestIs(batches', m, g)
    <3> HIDE DEF m, g
    <3> QED
      BY <1>6, <1>7, <2>1 DEF ManifestIs
  <2>3. Len(batches') = Len(batches) /\ DOMAIN batches = 1..Len(batches) /\ Len(batches) \in Nat
    <3>1. /\ DOMAIN batches = 1..Len(batches) /\ Len(batches) \in Nat
          /\ DOMAIN batches' = 1..Len(batches') /\ Len(batches') \in Nat
      BY <1>3, <1>6, Lengthened
    <3> QED
      BY <1>6, <3>1
  <2>4. g \in Nat /\ \A k \in g+1..Len(batches) : k \in DOMAIN batches
    BY <2>1, <2>3 DEF ManifestIs
  <2>5. P!WholeGeneration'
    BY <1>1, <1>7, <2>1, <2>3, <2>4 DEF P!WholeGeneration, P!Range
  <2> QED
    BY <2>2, <2>5
<1> QED
  BY <1>8, <1>9, <1>10, <1>11, <1>12, <1>13 DEF MetaInv

\* A person edits an article or a derived file.
LEMMA EditKeeps ==
  ASSUME P!Assumptions, MetaInv,
         \/ \E a \in MetaArticles, t \in MetaTexts : P!EditArticle(a, t)
         \/ \E f \in P!Files, a \in MetaArticles : P!EditFile(f, a)
  PROVE  MetaInv'
<1> DEFINE Edited ==
      /\ UNCHANGED <<index, batches, kept, lock, cursor, stage>>
      /\ touched' = touched + 1
      /\ raced \subseteq raced' /\ raced' # {}
      /\ meta' = [f \in P!Files |-> meta'[f]]
      /\ \A f \in P!Files : \/ meta'[f] = meta[f]
                            \/ meta'[f][1] = "human" /\ <<"file", f>> \in raced'
<1>0. meta = [f \in P!Files |-> meta[f]]
  BY DEF MetaInv, MetaTypes
<1>1. Edited
  <2>1. ASSUME NEW a \in MetaArticles, NEW t \in MetaTexts, P!EditArticle(a, t) PROVE Edited
    BY <1>0, <2>1 DEF P!EditArticle, P!process
  <2>2. ASSUME NEW f \in P!Files, NEW a \in MetaArticles, P!EditFile(f, a) PROVE Edited
    BY <1>0, <2>2 DEF P!EditFile, P!process
  <2> QED
    BY <2>1, <2>2
<1>2. P!Pending' = P!Pending /\ P!Next1' = P!Next1 /\ P!Current' = P!Current
  BY <1>1, SameBatches DEF P!Current
<1>3. MetaTypes' /\ LockHeld' /\ CursorHome' /\ BatchesRight' /\ ActsOnNone'
  BY <1>1, <1>2
  DEF MetaInv, MetaTypes, LockHeld, CursorHome, BatchesRight, ActsOnNone
<1>4. \A k \in DOMAIN batches : \A i \in DOMAIN batches[k].artifacts :
        batches[k].artifacts[i].file \in P!Files
  BY DEF MetaInv, BatchesRight, BatchIs
<1>5. P!Pending # {} => P!Next1 \in DOMAIN batches
  BY NextIsFirst DEF MetaInv, First, P!Pending
<1>6. CheckedBefore'
  <2> SUFFICES ASSUME NEW q \in Maintainers, stage[q] = "install"
               PROVE  /\ P!Pending # {} /\ cursor \in DOMAIN batches[P!Next1].artifacts
                      /\ Unraced(P!Current)'
    BY <1>1, <1>2 DEF CheckedBefore
  <2>1. /\ P!Pending # {} /\ cursor \in DOMAIN batches[P!Next1].artifacts
        /\ Unraced(P!Current)
    BY DEF MetaInv, CheckedBefore
  <2>2. P!Current.file \in P!Files
    BY <1>4, <1>5, <2>1 DEF P!Current
  <2> QED
    BY <1>1, <1>2, <2>1, <2>2 DEF Unraced
<1>7. CarriedOut'
  BY <1>1, <1>2, <1>4, <1>5 DEF MetaInv, CarriedOut, HoldsOwn
<1>8. InPlace'
  <2> DEFINE m == meta["manifest"]
             g == m[2][1]
             listed == m[2][2]
  <2>0. "manifest" \in P!Files
    BY FilesAre
  <2>1. CASE meta'["manifest"][1] = "human"
    BY <2>1 DEF InPlace
  <2>2. CASE meta'["manifest"] = m /\ m[1] = "generation"
    <3>1. ManifestIs(batches, m, g) /\ P!WholeGeneration
      BY <2>2 DEF MetaInv, InPlace
    <3>2. \A f \in DOMAIN listed : f \in P!Files
      <4> HIDE DEF m, g
      <4>1. PICK i \in DOMAIN batches[g].artifacts :
              /\ batches[g].artifacts[i].file = "manifest"
              /\ batches[g].artifacts[i].content = m
        BY <3>1 DEF ManifestIs
      <4>2. BatchIs(batches[g].artifacts, g) /\ ManifestLast(batches[g].artifacts, i, g)
        BY <3>1, <4>1 DEF ManifestIs, MetaInv, BatchesRight, BatchIs
      <4>3. i \in Nat /\ DOMAIN batches[g].artifacts = 1..Len(batches[g].artifacts)
            /\ Len(batches[g].artifacts) \in Nat
        BY <4>1, <4>2, Lengthened DEF BatchIs
      <4>4. \A j \in 1..i - 1 : j \in DOMAIN batches[g].artifacts
        BY <4>1, <4>3
      <4> QED
        BY <4>1, <4>2, <4>4 DEF ManifestLast, BatchIs
    <3>3. \A f \in DOMAIN listed :
            meta'[f] = meta[f] \/ meta'[f][1] = "human"
      BY <1>1, <3>2
    <3>4. P!WholeGeneration'
      BY <1>1, <2>2, <3>1, <3>3 DEF P!WholeGeneration, P!Range
    <3> QED
      BY <1>1, <2>2, <3>1, <3>4 DEF InPlace
  <2>3. CASE meta'["manifest"] = m /\ m[1] # "generation"
    BY <2>3 DEF InPlace
  <2> QED
    BY <1>1, <2>0, <2>1, <2>2, <2>3
<1> QED
  BY <1>3, <1>6, <1>7, <1>8 DEF MetaInv

\* What the model saw was public when it is published.
LEMMA PublishKeeps ==
  ASSUME P!Assumptions, MetaInv, NEW p \in Maintainers, NEW o,
         NEW files \in {<<"taxonomy">>, <<"entities">>, <<"lang">>, <<"base", "lang">>},
         P!Publishes(p, o, files)
  PROVE  MetaInv'
<1> DEFINE made == [i \in DOMAIN files |->
                      P!Artifact(files[i], prev[p][files[i]],
                                 <<"model", <<P!Number, saw[p]>>>>, saw[p])]
<1>1. P!Commit(made) /\ P!KeepBoth(made)
  BY DEF P!Publishes
<1>2. MadeOfPublic(saw[p])
  BY DEF P!Publishes, P!Snapshot, P!Public, MadeOfPublic
<1>3. \A a \in P!Range(made) : <<a.file, a.expected>> \in kept'
  BY <1>1 DEF P!KeepBoth
<1>4. BatchIs(made, P!Number) /\ Recorded(made, kept')
  BY <1>2, <1>3, GenerationIs
<1>5. kept \subseteq kept'
  BY <1>1 DEF P!KeepBoth
<1> HIDE DEF made
<1>6. Adds(p, made)
  BY <1>1, <1>4, <1>5 DEF Adds, P!Publishes, P!Commit, P!Goto
<1> QED
  BY <1>6, AddsKeeps

LEMMA RecordKeeps ==
  ASSUME P!Assumptions, MetaInv, NEW p \in Maintainers,
         P!RecordAll(p) \/ P!RecordBacklinks(p) \/ P!RecordSources(p) \/ P!RecordTrails(p)
  PROVE  MetaInv'
<1>0. stage[p] = "act" => lock = p
  BY AloneLocked
<1>1. CASE P!RecordAll(p)
  <2>1. Adds(p, P!Rebuilt)
    BY <1>0, <1>1, RebuiltIs DEF Adds, P!RecordAll, P!Recording, P!Commit, P!Goto
  <2> QED
    BY <2>1, AddsKeeps
<1>2. CASE P!RecordBacklinks(p)
  <2> DEFINE arts == <<P!Artifact("backlinks", meta["backlinks"], <<"view", P!Snapshot>>, {})>>
  <2>1. BatchIs(arts, P!Number) /\ Recorded(arts, kept')
    BY SingleIs
  <2> HIDE DEF arts
  <2>2. Adds(p, arts)
    BY <1>0, <1>2, <2>1 DEF Adds, P!RecordBacklinks, P!Recording, P!Commit, P!Goto, arts
  <2> QED
    BY <2>2, AddsKeeps
<1>3. CASE P!RecordSources(p)
  <2> DEFINE arts == <<P!Artifact("sources", meta["sources"], <<"keys", P!Number>>, {})>>
  <2>1. BatchIs(arts, P!Number) /\ Recorded(arts, kept')
    BY SingleIs
  <2> HIDE DEF arts
  <2>2. Adds(p, arts)
    BY <1>0, <1>3, <2>1 DEF Adds, P!RecordSources, P!Recording, P!Commit, P!Goto, arts
  <2> QED
    BY <2>2, AddsKeeps
<1>4. CASE P!RecordTrails(p)
  <2> DEFINE a == P!Artifact("trails", meta["trails"], <<"trail", P!Number>>, {})
  <2>1. P!TrailBatch = <<a>>
    BY DEF P!TrailBatch
  <2>2. a \in P!Range(<<a>>) /\ a.file = "trails" /\ a.expected = meta["trails"]
    BY DEF P!Range, P!Artifact
  <2>3. kept \subseteq kept' /\ <<"trails", meta["trails"]>> \in kept'
    <3> HIDE DEF a
    <3> QED
      BY <1>4, <2>1, <2>2 DEF P!RecordTrails, P!KeepBoth
  <2>4. BatchIs(<<a>>, P!Number) /\ Recorded(<<a>>, kept')
    BY <2>3, SingleIs
  <2>5. Adds(p, P!TrailBatch)
    BY <1>0, <1>4, <2>1, <2>3, <2>4 DEF Adds, P!RecordTrails, P!Recording, P!Commit, P!Goto
  <2> QED
    BY <2>5, AddsKeeps
<1> QED
  BY <1>1, <1>2, <1>3, <1>4

\* The steps that touch no file and record nothing.
LEMMA OthersMove ==
  ASSUME P!Assumptions, MetaInv, NEW p \in Maintainers,
         \/ \E o \in MetaOps : P!Start(p, o)
         \/ P!AfterReplay(p) \/ P!Scan(p) \/ P!Reenter(p) \/ P!GiveUp(p)
         \/ P!CaptureTaxonomy(p) \/ P!CaptureEntities(p) \/ P!CaptureIntroduction(p)
         \/ P!Refuse(p) \/ P!Crash(p)
  PROVE  MetaInv'
<1> USE DEF P!library, P!Goto, P!Release
<1>0. stage[p] \in {"replay", "act"} => lock = p
  BY AloneLocked
<1>1. ASSUME NEW o \in MetaOps, P!Start(p, o) PROVE Moves(p, "replay")
  BY <1>1 DEF P!Start, Moves
<1>2. ASSUME P!AfterReplay(p) PROVE Moves(p, "idle") \/ Moves(p, "act")
  BY <1>0, <1>2 DEF P!AfterReplay, Moves
<1>3. ASSUME P!Scan(p) PROVE Moves(p, "synced")
  BY <1>0, <1>3 DEF P!Scan, Moves
<1>4. ASSUME P!Reenter(p) PROVE Moves(p, "replay")
  BY <1>4 DEF P!Reenter, Moves
<1>5. ASSUME P!GiveUp(p) PROVE Moves(p, "idle")
  BY <1>5 DEF P!GiveUp, Moves
<1>6. ASSUME NEW o, P!Captures(p, o) PROVE Moves(p, "model")
  BY <1>6 DEF P!Captures, Moves
<1>7. ASSUME P!Refuse(p) PROVE Moves(p, "idle")
  BY <1>0, <1>7 DEF P!Refuse, Moves
<1>8. ASSUME P!Crash(p) PROVE Moves(p, "idle")
  BY <1>8 DEF P!Crash, Moves
<1> QED
  BY <1>1, <1>2, <1>3, <1>4, <1>5, <1>6, <1>7, <1>8, MovesKeep
  DEF P!CaptureTaxonomy, P!CaptureEntities, P!CaptureIntroduction

\* The library's derived files keep their invariant.
LEMMA MetaStep == ASSUME P!Assumptions, MetaInv, [P!Next]_metaVars PROVE MetaInv'
<1>1. ASSUME NEW p \in Maintainers, P!Step(p) PROVE MetaInv'
  <2>1. ASSUME P!PublishTaxonomy(p) \/ P!PublishEntities(p) \/ P!PublishIntroduction(p)
        PROVE  MetaInv'
    BY <2>1, PublishKeeps
    DEF P!PublishTaxonomy, P!PublishEntities, P!PublishIntroduction
  <2> QED
    BY <1>1, <2>1, OthersMove, RecordKeeps, CheckKeeps, InstallKeeps, CompleteKeeps DEF P!Step
<1>2. ASSUME UNCHANGED <<meta, index, pages, batches, kept, lock, cursor, stage, raced>>,
             touched' \in Nat
      PROVE  MetaInv'
  <2>1. P!Pending' = P!Pending /\ P!Next1' = P!Next1 /\ P!Current' = P!Current
    BY <1>2, SameBatches DEF P!Current
  <2> QED
    BY <1>2, <2>1
    DEF MetaInv, MetaTypes, LockHeld, CursorHome, BatchesRight, ActsOnNone,
        CheckedBefore, Unraced, P!Guarded, CarriedOut, HoldsOwn, InPlace,
        P!WholeGeneration
<1>3. CASE P!LockTaxonomy
  BY <1>2, <1>3 DEF P!LockTaxonomy, P!process, MetaInv, MetaTypes
<1>4. CASE UNCHANGED metaVars
  BY <1>2, <1>4 DEF metaVars, MetaInv, MetaTypes
<1> QED
  BY <1>1, <1>3, <1>4, EditKeeps DEF P!Next

\* A replacement is of a batch whose file was just checked.
LEMMA MetaInstalls ==
  ASSUME P!Assumptions, MetaInv, [P!Next]_metaVars, NEW f, P!Replaces(f), f \in P!Files
  PROVE  /\ P!Pending # {} /\ UNCHANGED <<index, pages>>
         /\ \E i \in DOMAIN batches[P!Next1].artifacts :
              LET a == batches[P!Next1].artifacts[i]
              IN  a.file = f /\ Unraced(a) /\ meta'[f] = a.content
<1>1. touched \in Nat /\ meta = [g \in P!Files |-> meta[g]]
  BY DEF MetaInv, MetaTypes
<1>2. meta' # meta /\ touched' = touched
  BY DEF P!Replaces
<1>3. ASSUME NEW p \in Maintainers, P!Step(p) PROVE P!Install(p)
  <2>1. P!Install(p) \/ UNCHANGED meta
    BY <1>3
    DEF P!Step, P!Start, P!AfterReplay, P!Scan, P!Reenter, P!RecordAll, P!RecordBacklinks,
        P!RecordSources, P!RecordTrails, P!Recording, P!GiveUp, P!CaptureTaxonomy,
        P!CaptureEntities, P!CaptureIntroduction, P!Captures, P!PublishTaxonomy,
        P!PublishEntities, P!PublishIntroduction, P!Publishes, P!Check, P!Complete,
        P!Refuse, P!Crash, P!library
  <2> QED
    BY <1>2, <2>1
<1>4. \A a \in MetaArticles, t \in MetaTexts : ~P!EditArticle(a, t)
  BY <1>1, <1>2 DEF P!EditArticle
<1>5. \A g \in P!Files, a \in MetaArticles : ~P!EditFile(g, a)
  BY <1>1, <1>2 DEF P!EditFile
<1>6. PICK p \in Maintainers : P!Install(p)
  BY <1>2, <1>3, <1>4, <1>5 DEF P!Next, P!LockTaxonomy, metaVars
<1>7. /\ P!Pending # {} /\ cursor \in DOMAIN batches[P!Next1].artifacts
      /\ Unraced(P!Current)
  BY <1>6 DEF P!Install, MetaInv, CheckedBefore
<1>8. f = P!Current.file /\ meta'[f] = P!Current.content
  BY <1>1, <1>6 DEF P!Install, P!Replaces
<1> QED
  BY <1>6, <1>7, <1>8 DEF P!Install, P!Current

LEMMA MetaReplaces ==
  ASSUME P!Assumptions, MetaInv, [P!Next]_metaVars
  PROVE  P!KeepsReplaced /\ P!InstallsFresh
<1>1. ASSUME NEW f \in P!Generated \cup {"trails"}, P!Replaces(f)
      PROVE  <<f, meta[f]>> \in kept
  <2>1. f \in P!Files
    BY FilesAre DEF P!Generated
  <2>2. PICK i \in DOMAIN batches[P!Next1].artifacts :
          LET a == batches[P!Next1].artifacts[i]
          IN  a.file = f /\ Unraced(a) /\ meta'[f] = a.content
    BY <1>1, <2>1, MetaInstalls
  <2>3. P!Next1 \in DOMAIN batches
    BY <1>1, <2>1, MetaInstalls, NextIsFirst DEF MetaInv, First, P!Pending
  <2>4. Recorded(batches[P!Next1].artifacts, kept)
    BY <2>3 DEF MetaInv, BatchesRight
  <2> QED
    BY <1>1, <2>2, <2>4 DEF Recorded, Unraced, P!Replaces
<1>2. ASSUME NEW f \in P!Generated, P!Replaces(f), raced = {}, NEW g \in meta'[f][2][2]
      PROVE  index[g[1]] = g[2] /\ pages[g[1]] = g[2].text /\ P!Public(g[1])
  <2>1. f \in P!Files
    BY FilesAre DEF P!Generated
  <2>2. PICK i \in DOMAIN batches[P!Next1].artifacts :
          LET a == batches[P!Next1].artifacts[i]
          IN  a.file = f /\ Unraced(a) /\ meta'[f] = a.content
    BY <1>2, <2>1, MetaInstalls
  <2>3. P!Next1 \in DOMAIN batches
    BY <1>2, <2>1, MetaInstalls, NextIsFirst DEF MetaInv, First, P!Pending
  <2> DEFINE a == batches[P!Next1].artifacts[i]
  <2>4. MadeOfPublic(a.guards) /\ \E x : a.content = <<"model", <<x, a.guards>>>>
    BY <2>2, <2>3 DEF MetaInv, BatchesRight, BatchIs
  <2>5. g \in a.guards
    BY <2>2, <2>4
  <2>6. P!Guarded(a)
    BY <1>2, <2>2 DEF Unraced
  <2> QED
    BY <2>4, <2>5, <2>6 DEF P!Guarded, P!Public, MadeOfPublic
<1> QED
  BY <1>1, <1>2 DEF P!KeepsReplaced, P!InstallsFresh

-----------------------------------------------------------------------------
(***************************************************************************)
(* Repairs.  What was ever in a private article is in no public text, be   *)
(* it a file, a row or what a stage has read; a text made of several is    *)
(* private if one of them is.  Two that are merged are alike in privacy:   *)
(* of a public request because it sees no private one, of another because  *)
(* they were alike to begin with, and articles keep their privacy.         *)
(***************************************************************************)
Fields == {"parts", "made", "links", "private"}

ByName(f) == f = [n \in RepairNames |-> f[n]]

\* What no public text may hold; it stays what it is.
Forbidden == secret \cup {RepairSecret}

\* A text is an article's, and if public holds nothing of f.
Tight(t, f) == t # None => /\ DOMAIN t = Fields /\ t.private \in BOOLEAN
                           /\ ~t.private => (t.parts \cup t.made) \cap f = {}

\* Two articles that are there, in file and row, and as private as each other.
Alike(s) ==
    \A n, m \in {s[1], s[2]} :
       /\ article[n] # None /\ listing[n].text # None
       /\ article[n].private = article[m].private
       /\ listing[n].text.private = article[m].private

\* None is not taken for an article; no article looks like two others.
NoneIsNoArticle == DOMAIN None # Fields
PairsApart == \A s, t \in Twins : s # t => {s[1], s[2]} \cap {t[1], t[2]} = {}

\* A request for private inputs is carried out while nobody hides an article,
\* and over pairs that have no article in common.
Careful == private_inputs => TRUE \notin Hides /\ PairsApart /\ NoneIsNoArticle

Bans == IF Careful THEN {{}, Forbidden} ELSE {{}}

AllTight ==
    \A f \in Bans, n \in RepairNames :
       Tight(article[n], f) /\ Tight(listing[n].text, f) /\ Tight(read[n].text, f)

RepairTypes ==
    /\ ByName(article) /\ ByName(listing) /\ ByName(read)
    /\ private_inputs \in BOOLEAN
    /\ RepairAdded \notin Forbidden
    /\ phase = "next" => todo = {}
    /\ R!Mode = "slugs" => todo \subseteq RepairNames
    /\ R!Mode = "dedup" => todo \subseteq Twins

\* A pair under way is one of those that were found, and what is to replace it
\* has the text of both.
InMerge == {"links", "linking", "drop"}

IsMerge(i) == /\ i.kept \in RepairNames /\ i.kept # i.gone
              /\ DOMAIN i.merged = Fields
              /\ i.rest.parts \subseteq i.merged.parts

Merging ==
    /\ phase = "confirm" => /\ R!Mode = "dedup" /\ item \in Twins \ todo
                            /\ read[item[1]].text # None /\ read[item[2]].text # None
    /\ phase \in InMerge => R!Mode \in {"slugs", "dedup"}
    /\ phase = "drop" => R!Mode = "dedup"
    /\ phase \in InMerge /\ R!Mode = "dedup" => IsMerge(item)

\* The pair to be merged is alike, and so are, for a request for private
\* inputs, the pairs to come, which have no article in common with it.
DedupInv ==
    R!Mode = "dedup" =>
      /\ phase = "confirm" => read[item[1]].text.private = read[item[2]].text.private
      /\ private_inputs => \A s \in todo : Alike(s)
      /\ private_inputs /\ phase \in InMerge =>
           \A s \in todo : item.gone \notin {s[1], s[2]}

\* A job has changed files if and only if it has receipts, and what it says in
\* the end it says once.
RepairHonest == /\ intended = changed
                /\ status \in {"failed", "cancelled"} => phase = "done" /\ ~changed

RepairInv == RepairTypes /\ Merging /\ RepairHonest /\ AllTight /\ (Careful => DedupInv)

LEMMA PairIs ==
  ASSUME R!Assumptions, NEW s \in Twins
  PROVE  /\ R!Range(s) = {s[1], s[2]} /\ s[1] \in RepairNames /\ s[2] \in RepairNames
         /\ s[1] # s[2]
<1>1. s \in RepairNames \X RepairNames /\ s[1] # s[2]
  BY DEF R!Assumptions
<1>2. DOMAIN s = {1, 2} /\ s[1] \in RepairNames /\ s[2] \in RepairNames
  BY <1>1
<1>3. R!Range(s) = {s[i] : i \in {1, 2}}
  BY <1>2 DEF R!Range
<1> QED
  BY <1>1, <1>2, <1>3

\* The rows follow the files.
Follows == /\ ByName(listing')
           /\ \A n \in RepairNames : \/ listing'[n] = listing[n]
                                     \/ listing'[n].text = article'[n]

LEMMA IndexedFollows ==
  ASSUME listing' = R!Indexed(article') PROVE Follows
  BY DEF R!Indexed, Follows, ByName

LEMMA SameFollows ==
  ASSUME RepairTypes, listing' = listing PROVE Follows
  BY DEF RepairTypes, Follows

\* One text is written, or none.
Writes(n, t) == /\ Follows
                /\ article' = article \/ article' = [article EXCEPT ![n] = t]

LEMMA AcceptFollows ==
  ASSUME NEW files, R!Accept(files)
  PROVE  Follows /\ article' = files /\ (intended = changed => intended' = changed')
<1>1. article' = files /\ listing' = R!Indexed(files)
  BY DEF R!Accept
<1>2. Follows
  BY <1>1, IndexedFollows
<1>3. intended = changed => intended' = changed'
  <2> SUFFICES ASSUME intended = changed PROVE intended' = changed'
    OBVIOUS
  <2> DEFINE more == files # article
  <2>1. intended' = (intended \/ more) /\ changed' = (changed \/ more)
    BY DEF R!Accept
  <2> HIDE DEF more
  <2> QED
    BY <2>1
<1> QED
  BY <1>1, <1>2, <1>3

LEMMA RejectFollows ==
  ASSUME RepairTypes, R!Reject
  PROVE  Follows /\ UNCHANGED <<article, intended, changed>>
<1>1. UNCHANGED <<article, intended, changed>>
  BY DEF R!Reject
<1>2. listing' = R!Indexed(article') \/ listing' = listing
  BY <1>1 DEF R!Reject
<1> QED
  BY <1>1, <1>2, IndexedFollows, SameFollows

LEMMA AttemptWrites ==
  ASSUME RepairTypes, NEW gs, NEW n, NEW e, NEW t, R!Attempt(gs, n, e, t)
  PROVE  /\ Writes(n, t)
         /\ article' # article => R!Guards(gs, n, e)
         /\ intended = changed => intended' = changed'
<1>1. CASE R!Guards(gs, n, e)
  BY <1>1, AcceptFollows DEF R!Attempt, R!Write, Writes
<1>2. CASE ~R!Guards(gs, n, e)
  BY <1>2, RejectFollows DEF R!Attempt, Writes
<1> QED
  BY <1>1, <1>2

\* What is read is what was read, the row, or nothing.
Reads == /\ ByName(read')
         /\ \A n \in RepairNames : \/ read'[n].text = read[n].text
                                   \/ read'[n].text = listing[n].text
                                   \/ read'[n].text = None
                                   \/ read'[n] = listing'[n]

\* What is written is tight, so everything is.
LEMMA TightStays ==
  ASSUME AllTight, Follows, Reads, Bans' = Bans,
         \A f \in Bans, n \in RepairNames : Tight(article'[n], f)
  PROVE  AllTight'
<1>1. ASSUME NEW f \in Bans, NEW n \in RepairNames PROVE Tight(listing'[n].text, f)
  BY DEF AllTight, Follows
<1>2. ASSUME NEW f \in Bans, NEW n \in RepairNames PROVE Tight(read'[n].text, f)
  BY <1>1 DEF AllTight, Reads, Tight
<1> QED
  BY <1>1, <1>2 DEF AllTight

LEMMA WrittenByName ==
  ASSUME RepairTypes, NEW n, NEW t, Writes(n, t) PROVE ByName(article') /\ ByName(listing')
  BY DEF RepairTypes, ByName, Writes, Follows

LEMMA VisibleReads ==
  /\ ByName(R!Visible(listing))
  /\ \A n \in RepairNames : \/ R!Visible(listing)[n].text = listing[n].text
                            \/ R!Visible(listing)[n].text = None
  BY DEF R!Visible, ByName

\* A pair stays alike while its articles keep their privacy.
LEMMA AlikeStays ==
  ASSUME NEW s, s[1] \in RepairNames, s[2] \in RepairNames, Alike(s), Follows,
         \A n \in {s[1], s[2]} : article'[n] # None /\ article'[n].private = article[n].private
  PROVE  Alike(s)'
<1>1. \A n \in {s[1], s[2]} : listing'[n] = listing[n] \/ listing'[n].text = article'[n]
  BY DEF Follows
<1> QED
  BY <1>1 DEF Alike

\* What is left of a stage stays as it was, or is done with.
OnWithIt ==
    /\ UNCHANGED <<plan, private_inputs>> /\ todo' \subseteq todo
    /\ phase' = "next" => phase = "next"
    /\ phase' = "confirm" => phase = "confirm" /\ UNCHANGED <<item, todo, read>>
    /\ phase' \in InMerge =>
         \/ R!Mode = "slugs" /\ phase' # "drop"
         \/ /\ phase \in InMerge /\ item' = item
            /\ phase' = "drop" => phase = "drop" \/ R!Mode # "slugs"

LEMMA MergingStays == ASSUME Merging, OnWithIt PROVE Merging'
<1>1. R!Mode' = R!Mode
  BY DEF OnWithIt, R!Mode
<1> QED
  BY <1>1 DEF Merging, OnWithIt, InMerge

LEMMA DedupKeeps ==
  ASSUME DedupInv, OnWithIt,
         R!Mode = "dedup" /\ private_inputs => \A s \in todo' : Alike(s) => Alike(s)'
  PROVE  DedupInv'
<1> SUFFICES ASSUME R!Mode = "dedup"
             PROVE  DedupInv'
  BY DEF DedupInv, OnWithIt, R!Mode
<1>1. phase' = "confirm" => read'[item'[1]].text.private = read'[item'[2]].text.private
  BY DEF DedupInv, OnWithIt
<1>2. private_inputs' => \A s \in todo' : Alike(s)'
  BY DEF DedupInv, OnWithIt
<1>3. private_inputs' /\ phase' \in InMerge => \A s \in todo' : item'.gone \notin {s[1], s[2]}
  BY DEF DedupInv, OnWithIt
<1> QED
  BY <1>1, <1>2, <1>3 DEF DedupInv

LEMMA NotDedup == ASSUME plan' = plan, R!Mode # "dedup" PROVE DedupInv'
  BY DEF DedupInv, R!Mode

\* The steps that write no article.
Quiet == UNCHANGED <<article, listing, secret, private_inputs, intended, changed>>

LEMMA QuietReads ==
  ASSUME RepairTypes, Quiet, read' \in {read, listing, R!Visible(listing)}
  PROVE  Reads
<1>1. CASE read' = R!Visible(listing)
  BY <1>1, VisibleReads DEF Reads
<1>2. CASE read' \in {read, listing}
  BY <1>2 DEF Reads, RepairTypes
<1> QED
  BY <1>1, <1>2

LEMMA BansStay == ASSUME private_inputs' = private_inputs, Forbidden' = Forbidden
                  PROVE  Bans' = Bans /\ Careful' = Careful
  BY DEF Bans, Careful

LEMMA QuietTight ==
  ASSUME RepairTypes, AllTight, Quiet, read' \in {read, listing, R!Visible(listing)}
  PROVE  AllTight' /\ Careful' = Careful
<1>1. Reads /\ Follows
  BY QuietReads, SameFollows DEF Quiet
<1>2. Bans' = Bans /\ Careful' = Careful
  BY BansStay DEF Quiet, Forbidden
<1> QED
  BY <1>1, <1>2, TightStays DEF Quiet, AllTight

LEMMA QuietTypes ==
  ASSUME RepairTypes, Quiet, read' \in {read, listing, R!Visible(listing)},
         phase' = "next" => todo' = {},
         R!Mode' = "slugs" => todo' \subseteq RepairNames,
         R!Mode' = "dedup" => todo' \subseteq Twins
  PROVE  RepairTypes'
<1>1. Reads
  BY QuietReads
<1> QED
  BY <1>1 DEF RepairTypes, Reads, Quiet, Forbidden

LEMMA QuietHonest ==
  ASSUME RepairHonest, Quiet, status' = status, phase # "done" PROVE RepairHonest'
  BY DEF RepairHonest, Quiet

LEMMA QuietTodo ==
  ASSUME RepairTypes, OnWithIt
  PROVE  /\ phase' = "next" => todo' = {}
         /\ R!Mode' = "slugs" => todo' \subseteq RepairNames
         /\ R!Mode' = "dedup" => todo' \subseteq Twins
  BY DEF RepairTypes, OnWithIt, R!Mode

\* Nothing is written and nothing new taken up.
LEMMA QuietKeeps ==
  ASSUME RepairInv, Quiet, OnWithIt, read' \in {read, listing, R!Visible(listing)},
         RepairHonest'
  PROVE  RepairInv'
<1>1. RepairTypes'
  BY QuietTypes, QuietTodo DEF RepairInv
<1>2. Merging'
  BY MergingStays DEF RepairInv
<1>3. AllTight' /\ Careful' = Careful
  BY QuietTight DEF RepairInv
<1>4. ASSUME Careful PROVE DedupInv'
  <2>1. \A s \in todo' : Alike(s) => Alike(s)'
    BY DEF Alike, Quiet
  <2> QED
    BY <1>4, <2>1, DedupKeeps DEF RepairInv
<1> QED
  BY <1>1, <1>2, <1>3, <1>4 DEF RepairInv

\* A stage is left.
LEMMA RestartKeeps ==
  ASSUME RepairInv, Quiet, read' = read, status' = status, phase # "done",
         todo' = {}, phase' = "next"
  PROVE  RepairInv'
<1>1. RepairTypes' /\ Merging'
  BY QuietTypes DEF RepairInv, Merging, InMerge
<1>2. RepairHonest'
  BY QuietHonest DEF RepairInv
<1>3. AllTight' /\ DedupInv'
  BY QuietTight DEF RepairInv, DedupInv, InMerge
<1> QED
  BY <1>1, <1>2, <1>3 DEF RepairInv

LEMMA QuietStepKeeps ==
  ASSUME RepairInv, Quiet, OnWithIt, read' = read, status' = status, phase # "done"
  PROVE  RepairInv'
<1>1. RepairHonest'
  BY QuietHonest DEF RepairInv
<1> QED
  BY <1>1, QuietKeeps

LEMMA AbortKeeps ==
  ASSUME RepairInv, NEW error, R!Abort(error), phase # "done" PROVE RepairInv'
<1>1. Quiet /\ OnWithIt /\ read' = read /\ status' = status
  BY DEF R!Abort, R!content, R!world, Quiet, OnWithIt, InMerge
<1> QED
  BY <1>1, QuietStepKeeps

LEMMA QuietStep ==
  ASSUME RepairInv,
         \/ R!Stop \/ R!Exhausted \/ R!NoAnswer \/ R!Ask \/ R!TagsDone \/ R!Declined
         \/ R!LinksDone \/ R!NotSame \/ R!Refresh \/ R!LostBeforeRegeneration
         \/ R!Cancel \/ R!LoseLease \/ R!EndStage \/ R!Regenerate
  PROVE  RepairInv'
<1>1. CASE R!Stop
  BY <1>1, AbortKeeps DEF R!Stop
<1>2. CASE R!NoAnswer
  BY <1>2, AbortKeeps DEF R!NoAnswer
<1>3. CASE R!Exhausted
  <2>1. Quiet /\ OnWithIt /\ read' = read /\ status' = status /\ phase = "each"
    BY <1>3 DEF R!Exhausted, R!content, R!world, R!outcome, Quiet, OnWithIt, InMerge
  <2> QED
    BY <2>1, QuietStepKeeps
<1>4. CASE R!Ask
  <2>1. Quiet /\ OnWithIt /\ read' = read /\ status' = status /\ phase = "each"
    BY <1>4 DEF R!Ask, R!Take, R!content, R!world, R!outcome, Quiet, OnWithIt, InMerge
  <2> QED
    BY <2>1, QuietStepKeeps
<1>5. CASE R!TagsDone \/ R!Declined \/ R!NotSame
  <2>1. Quiet /\ OnWithIt /\ read' = read /\ status' = status /\ phase # "done"
    BY <1>5 DEF R!TagsDone, R!Declined, R!NotSame, R!Done, R!content, R!world, R!outcome,
                Quiet, OnWithIt, InMerge
  <2> QED
    BY <2>1, QuietStepKeeps
<1>6. CASE R!LinksDone
  <2>1. Quiet /\ OnWithIt /\ read' = read /\ status' = status /\ phase # "done"
    BY <1>6 DEF R!LinksDone, R!content, R!world, R!outcome, Quiet, OnWithIt, InMerge
  <2> QED
    BY <2>1, QuietStepKeeps
<1>7. CASE R!Refresh
  <2>1. CASE R!Mode = "dedup" /\ cancel
    BY <1>7, <2>1, AbortKeeps DEF R!Refresh
  <2>2. CASE \E n \in RepairNames : R!Exists(n) /\ article[n] # listing[n].text
    BY <1>7, <2>2, AbortKeeps DEF R!Refresh
  <2>3. ASSUME ~(R!Mode = "dedup" /\ cancel),
               ~\E n \in RepairNames : R!Exists(n) /\ article[n] # listing[n].text
        PROVE  RepairInv'
    <3>1. Quiet /\ OnWithIt /\ read' = read /\ status' = status /\ phase # "done"
      BY <1>7, <2>3 DEF R!Refresh, R!content, R!world, R!outcome, Quiet, OnWithIt, InMerge
    <3> QED
      BY <3>1, QuietStepKeeps
  <2> QED
    BY <2>1, <2>2, <2>3
<1>8. CASE R!LostBeforeRegeneration \/ R!Cancel \/ R!LoseLease
  <2>1. Quiet /\ OnWithIt /\ read' = read /\ status' = status /\ phase # "done"
    BY <1>8 DEF R!LostBeforeRegeneration, R!Cancel, R!LoseLease, R!content, R!world,
                R!outcome, R!work, Quiet, OnWithIt, InMerge
  <2> QED
    BY <2>1, QuietStepKeeps
<1>9. CASE R!EndStage
  <2>1. Quiet /\ read' = read /\ status' = status /\ phase # "done" /\ todo' = {}
        /\ phase' = "next"
    BY <1>9 DEF R!EndStage, R!content, R!world, R!outcome, Quiet
  <2> QED
    BY <2>1, RestartKeeps
<1>10. CASE R!Regenerate
  <2>1. Quiet /\ read' = read /\ status' = status /\ phase = "next" /\ todo' = todo
        /\ phase' = "next"
    BY <1>10 DEF R!Regenerate, R!world, Quiet
  <2>2. todo = {}
    BY <2>1 DEF RepairInv, RepairTypes
  <2> QED
    BY <2>1, <2>2, RestartKeeps
<1> QED
  BY <1>1, <1>2, <1>3, <1>4, <1>5, <1>6, <1>7, <1>8, <1>9, <1>10

\* What a request may read is there; with only public inputs, it is public.
LEMMA ScopeIs ==
  ASSUME NEW n \in R!Scope
  PROVE  /\ n \in RepairNames /\ listing[n].text # None
         /\ private_inputs \/ ~listing[n].text.private
         /\ R!Visible(listing)[n] = listing[n]
  BY DEF R!Scope, R!Exists, R!Visible

LEMMA BeginKeeps == ASSUME R!Assumptions, RepairInv, R!Begin PROVE RepairInv'
<1>1. /\ Quiet /\ read' = R!Visible(listing) /\ status' = status /\ phase # "done"
      /\ phase' = "each" /\ plan' = plan /\ todo' = R!Items /\ R!Live
  BY DEF R!Begin, R!content, R!world, R!outcome, Quiet
<1>2. R!Mode' = R!Mode
  BY <1>1 DEF R!Mode
<1>3. /\ R!Mode = "slugs" => todo' \subseteq RepairNames
      /\ R!Mode = "dedup" =>
           todo' = {s \in Twins : /\ R!Range(s) \subseteq R!Scope
                                  /\ listing[s[1]].text.private = listing[s[2]].text.private}
  BY <1>1 DEF R!Items, R!Scope
<1>4. RepairTypes' /\ RepairHonest'
  BY <1>1, <1>2, <1>3, QuietTypes, QuietHonest DEF RepairInv
<1>5. Merging'
  BY <1>1 DEF Merging, InMerge
<1>6. AllTight' /\ Careful' = Careful
  BY <1>1, QuietTight DEF RepairInv
<1>7. CASE R!Mode = "dedup"
  <2>1. ASSUME NEW s \in todo' PROVE Alike(s)'
    <3>1. {s[1], s[2]} \subseteq R!Scope
      BY <1>3, <1>7, <2>1, PairIs
    <3>2. \A n \in {s[1], s[2]} : listing[n].text # None /\ article[n] = listing[n].text
      BY <1>1, <3>1, ScopeIs DEF R!Live
    <3> QED
      BY <1>1, <1>3, <1>7, <3>2 DEF Alike, Quiet
  <2>2. DedupInv'
    BY <1>1, <2>1 DEF DedupInv, InMerge
  <2> QED
    BY <1>4, <1>5, <1>6, <2>2 DEF RepairInv
<1>8. CASE R!Mode # "dedup"
  BY <1>1, <1>4, <1>5, <1>6, <1>8, NotDedup DEF RepairInv
<1> QED
  BY <1>7, <1>8

LEMMA BeginLinksKeeps == ASSUME RepairInv, R!BeginLinks PROVE RepairInv'
<1>1. CASE ~R!Live
  BY <1>1, AbortKeeps DEF R!BeginLinks
<1>2. CASE R!Live
  <2>1. /\ Quiet /\ OnWithIt /\ read' = R!Visible(listing) /\ status' = status
        /\ phase # "done"
    BY <1>2 DEF R!BeginLinks, R!content, R!world, R!outcome, Quiet, OnWithIt, InMerge
  <2>2. RepairHonest'
    BY <2>1, QuietHonest DEF RepairInv
  <2> QED
    BY <2>1, <2>2, QuietKeeps
<1> QED
  BY <1>1, <1>2

LEMMA ReadPairKeeps == ASSUME R!Assumptions, RepairInv, R!ReadPair PROVE RepairInv'
<1>1. CASE cancel
  BY <1>1, AbortKeeps DEF R!ReadPair
<1>2. CASE ~cancel
  <2>1. PICK s \in todo :
          IF \E n \in R!Range(s) : R!Exists(n) /\ n \notin R!Scope THEN R!Abort("error")
          ELSE /\ todo' = todo \ {s} /\ item' = s /\ read' = listing
               /\ phase' = IF R!Range(s) \subseteq R!Scope THEN "confirm" ELSE "each"
               /\ UNCHANGED <<R!content, plan, renames, all, linking, notes, total,
                              R!outcome, R!world>>
    BY <1>2 DEF R!ReadPair
  <2>2. CASE \E n \in R!Range(s) : R!Exists(n) /\ n \notin R!Scope
    BY <2>1, <2>2, AbortKeeps DEF R!ReadPair
  <2>3. CASE ~\E n \in R!Range(s) : R!Exists(n) /\ n \notin R!Scope
    <3>1. /\ Quiet /\ read' = listing /\ status' = status /\ phase # "done"
          /\ plan' = plan /\ todo' = todo \ {s} /\ item' = s /\ R!Mode = "dedup"
          /\ phase' = IF R!Range(s) \subseteq R!Scope THEN "confirm" ELSE "each"
      BY <2>1, <2>3 DEF R!ReadPair, R!content, R!world, R!outcome, Quiet
    <3>2. todo \subseteq Twins /\ R!Mode' = "dedup"
      BY <3>1 DEF RepairInv, RepairTypes, R!Mode
    <3>3. RepairTypes' /\ RepairHonest'
      BY <3>1, <3>2, QuietTypes, QuietHonest DEF RepairInv
    <3>4. phase' = "confirm" => s[1] \in R!Scope /\ s[2] \in R!Scope
      BY <3>1, <3>2, PairIs
    <3>5. Merging'
      <4>1. phase' = "confirm" => read'[s[1]].text # None /\ read'[s[2]].text # None
        BY <3>1, <3>4, ScopeIs
      <4> QED
        BY <3>1, <3>2, <4>1 DEF Merging, InMerge
    <3>6. AllTight' /\ Careful' = Careful
      BY <3>1, QuietTight DEF RepairInv
    <3>7. ASSUME Careful PROVE DedupInv'
      <4>1. private_inputs => \A u \in todo : Alike(u)
        BY <3>1, <3>7 DEF RepairInv, DedupInv
      <4>2. \A u \in todo : Alike(u) => Alike(u)'
        BY <3>1 DEF Alike, Quiet
      <4>3. ASSUME phase' = "confirm"
            PROVE  listing[s[1]].text.private = listing[s[2]].text.private
        <5>1. CASE private_inputs
          BY <4>1, <5>1 DEF Alike
        <5>2. CASE ~private_inputs
          <6>1. \A n \in {s[1], s[2]} : /\ n \in RepairNames /\ listing[n].text # None
                                        /\ ~listing[n].text.private
            BY <3>4, <4>3, <5>2, ScopeIs
          <6>2. \A n \in {s[1], s[2]} : listing[n].text.private \in BOOLEAN
            BY <6>1 DEF RepairInv, AllTight, Tight, Bans
          <6> QED
            BY <6>1, <6>2
        <5> QED
          BY <5>1, <5>2
      <4> QED
        BY <3>1, <4>1, <4>2, <4>3 DEF DedupInv, Quiet, InMerge
    <3> QED
      BY <3>3, <3>5, <3>6, <3>7 DEF RepairInv
  <2> QED
    BY <2>2, <2>3
<1> QED
  BY <1>1, <1>2

\* A job says that it failed, or was cancelled, when it has no receipts.
LEMMA FinishKeeps == ASSUME RepairInv, R!Finish PROVE RepairInv'
<1>1. Quiet /\ OnWithIt /\ read' = read /\ phase # "done" /\ phase' = "done"
  BY DEF R!Finish, R!content, R!world, Quiet, OnWithIt, InMerge
<1>2. status' \in {"failed", "cancelled"} => status' = status \/ ~intended
  BY DEF R!Finish, R!HasEffects
<1>3. RepairHonest'
  BY <1>1, <1>2 DEF RepairInv, RepairHonest, Quiet
<1> QED
  BY <1>1, <1>3, QuietKeeps

\* What a writing step leaves alone.
Writing ==
    /\ UNCHANGED <<plan, private_inputs, status>> /\ Forbidden' = Forbidden
    /\ todo' \subseteq todo /\ phase # "done" /\ (phase' = "next" => phase = "next")
    /\ intended = changed => intended' = changed'

LEMMA FilesKeep ==
  ASSUME RepairInv, Writing, Follows, ByName(article'), Reads, Merging',
         \A f \in Bans, n \in RepairNames : Tight(article'[n], f),
         Careful /\ R!Mode = "dedup" => DedupInv'
  PROVE  RepairInv'
<1>1. RepairTypes'
  BY DEF RepairInv, RepairTypes, Writing, Follows, Reads, R!Mode
<1>2. RepairHonest'
  BY DEF RepairInv, RepairHonest, Writing
<1>3. Bans' = Bans /\ Careful' = Careful
  BY BansStay DEF Writing
<1>4. AllTight'
  BY <1>3, TightStays DEF RepairInv
<1>5. ASSUME Careful PROVE DedupInv'
  BY <1>5, NotDedup DEF Writing
<1> QED
  BY <1>1, <1>2, <1>3, <1>4, <1>5 DEF RepairInv

LEMMA AttemptKeeps ==
  ASSUME RepairInv, Writing, Reads, Merging', NEW gs, NEW n, NEW e, NEW t,
         R!Attempt(gs, n, e, t),
         ASSUME n \in RepairNames, R!Guards(gs, n, e), NEW f \in Bans PROVE Tight(t, f),
         Careful /\ R!Mode = "dedup" => DedupInv'
  PROVE  RepairInv'
<1>1. Writes(n, t) /\ (article' # article => R!Guards(gs, n, e))
  BY AttemptWrites DEF RepairInv
<1>2. ByName(article') /\ Follows
  BY <1>1, WrittenByName DEF RepairInv, Writes
<1>3. ASSUME NEW f \in Bans, NEW m \in RepairNames PROVE Tight(article'[m], f)
  <2>1. CASE article'[m] = article[m]
    BY <1>3, <2>1 DEF RepairInv, AllTight
  <2>2. CASE article'[m] # article[m]
    <3>1. m = n /\ article'[m] = t /\ article' # article
      BY <1>1, <1>3, <2>2 DEF Writes, RepairInv, RepairTypes, ByName
    <3> QED
      BY <1>1, <1>3, <3>1
  <2> QED
    BY <2>1, <2>2
<1> QED
  BY <1>2, <1>3, FilesKeep

LEMMA SameReads == ASSUME RepairInv, read' = read PROVE Reads
  BY DEF RepairInv, RepairTypes, Reads

LEMMA RenameKeeps == ASSUME RepairInv, R!RenameOne PROVE RepairInv'
<1> DEFINE n == item'
           c == Cleaner[n]
           ok == /\ article[c] = None /\ leased /\ R!Exists(n) /\ article[n] = read[n].text
                 /\ listing[n].text = read[n].text
           moved == [article EXCEPT ![c] = article[n], ![n] = None]
<1>1. /\ UNCHANGED <<plan, private_inputs, secret, status, read, phase>> /\ todo' \subseteq todo
      /\ phase = "each" /\ R!Mode = "slugs" /\ n \in RepairNames
  BY DEF R!RenameOne, R!Take, R!Rest, R!world, RepairInv, RepairTypes
<1>2. Merging' /\ Reads
  BY <1>1, SameReads DEF Merging, InMerge
<1>3. CASE ok
  <2>1. R!Accept(moved)
    BY <1>3 DEF R!RenameOne
  <2>2. Follows /\ article' = moved /\ Writing
    BY <1>1, <2>1, AcceptFollows DEF Writing, Forbidden
  <2>3. ByName(article') /\ \A m \in RepairNames : article'[m] \in {article[m], article[n], None}
    BY <2>2 DEF RepairInv, RepairTypes, ByName
  <2>4. \A f \in Bans, m \in RepairNames : Tight(article'[m], f)
    BY <1>1, <2>3 DEF RepairInv, AllTight, Tight
  <2> QED
    BY <1>1, <1>2, <2>2, <2>3, <2>4, FilesKeep
<1>4. CASE ~ok
  <2>1. R!Reject \/ UNCHANGED <<article, listing, intended, changed>>
    BY <1>4 DEF R!RenameOne
  <2>2. Follows /\ UNCHANGED <<article, intended, changed>>
    BY <2>1, RejectFollows, SameFollows DEF RepairInv
  <2>3. \A f \in Bans, m \in RepairNames : Tight(article'[m], f)
    BY <2>2 DEF RepairInv, AllTight
  <2>4. ByName(article') /\ Writing
    BY <1>1, <2>2 DEF RepairInv, RepairTypes, Writing, Forbidden
  <2> QED
    BY <1>1, <1>2, <2>2, <2>3, <2>4, FilesKeep
<1> QED
  BY <1>3, <1>4

LEMMA DeleteKeeps == ASSUME RepairInv, R!DeleteGarbage PROVE RepairInv'
<1>1. /\ UNCHANGED <<plan, private_inputs, secret, status, read, phase>> /\ todo' \subseteq todo
      /\ phase = "each" /\ R!Mode = "clean"
  BY DEF R!DeleteGarbage, R!Take, R!Rest, R!world
<1>2. /\ Follows /\ article' \in {article, R!Write(item', None)}
      /\ intended = changed => intended' = changed'
  <2>1. R!Accept(R!Write(item', None)) \/ R!Reject
    BY DEF R!DeleteGarbage
  <2> QED
    BY <2>1, AcceptFollows, RejectFollows DEF RepairInv
<1>3. ByName(article') /\ \A m \in RepairNames : article'[m] \in {article[m], None}
  BY <1>2 DEF R!Write, RepairInv, RepairTypes, ByName
<1>4. Reads /\ Writing /\ Merging'
  BY <1>1, <1>2, SameReads DEF Writing, Forbidden, Merging, InMerge
<1>5. \A f \in Bans, m \in RepairNames : Tight(article'[m], f)
  BY <1>3 DEF RepairInv, AllTight, Tight
<1> QED
  BY <1>1, <1>2, <1>3, <1>4, <1>5, FilesKeep

\* What a guard has found unmoved is there as it was read.
LEMMA UnmovedIs ==
  ASSUME RepairInv, NEW gs, NEW n, NEW e, R!Guards(gs, n, e), NEW g \in gs
  PROVE  /\ read[g].text # None /\ listing[g] = read[g] /\ article[g] = read[g].text
         /\ g \in RepairNames => \A f \in Bans : Tight(read[g].text, f)
  BY DEF R!Guards, R!Exists, R!Unmoved, RepairInv, AllTight

LEMMA WriteMetadataKeeps == ASSUME RepairInv, R!WriteMetadata PROVE RepairInv'
<1> DEFINE t == read[item].text
           made == [t EXCEPT !.made = t.parts]
<1>1. R!Attempt({item}, item, t, made)
  BY DEF R!WriteMetadata
<1>2. /\ UNCHANGED <<plan, private_inputs, secret, status, read, todo>>
      /\ phase = "ask" /\ phase' = "each" /\ R!Mode = "metadata"
  BY DEF R!WriteMetadata, R!Done, R!Rest, R!world
<1>3. Reads /\ Writing /\ Merging'
  BY <1>1, <1>2, AttemptWrites, SameReads DEF RepairInv, Writing, Forbidden, Merging, InMerge
<1>4. ASSUME item \in RepairNames, R!Guards({item}, item, t), NEW f \in Bans
      PROVE  Tight(made, f)
  <2>1. t # None /\ Tight(t, f)
    BY <1>4, UnmovedIs
  <2> QED
    BY <2>1 DEF Tight, Fields
<1> HIDE DEF t, made
<1> QED
  BY <1>1, <1>2, <1>3, <1>4, AttemptKeeps

LEMMA WriteTagsKeeps ==
  ASSUME RepairInv, NEW n \in RepairNames, R!WriteTags(n) PROVE RepairInv'
<1> DEFINE group == R!Group(item)
           t == read[n].text
           made == t.made \cup UNION {read[g].text.parts : g \in group}
           tagged == [t EXCEPT !.made = made]
<1>1. R!Attempt(group, n, t, tagged) /\ n \in group
  BY DEF R!WriteTags
<1>2. /\ UNCHANGED <<plan, private_inputs, secret, status, todo>>
      /\ phase = "ask" /\ phase' \in {"ask", "each"} /\ R!Mode = "normalize"
      /\ read' = read \/ read' = [read EXCEPT ![n] = listing'[n]]
  BY DEF R!WriteTags, R!Rest, R!world
<1>3. Reads /\ Merging'
  BY <1>2 DEF RepairInv, RepairTypes, Reads, ByName, Merging, InMerge
<1>4. Writing
  BY <1>1, <1>2, AttemptWrites DEF RepairInv, Writing, Forbidden
<1>5. ASSUME NEW f \in Bans PROVE Tight(tagged, f)
  <2>1. \A g \in group : /\ g \in RepairNames /\ read[g].text # None
                         /\ read[g].text.private = item /\ Tight(read[g].text, f)
    BY DEF R!Group, RepairInv, AllTight
  <2>2. DOMAIN t = Fields /\ t.private \in BOOLEAN /\ t.private = item
    BY <1>1, <2>1 DEF Tight
  <2>3. DOMAIN tagged = Fields /\ tagged.private = t.private /\ tagged.parts = t.parts
        /\ tagged.made = made
    BY <2>2 DEF Fields
  <2>4. ASSUME ~t.private PROVE (t.parts \cup made) \cap f = {}
    <3>1. \A g \in group : (read[g].text.parts \cup read[g].text.made) \cap f = {}
      BY <2>1, <2>2, <2>4 DEF Tight
    <3> QED
      BY <1>1, <3>1
  <2> HIDE DEF t, made, tagged
  <2> QED
    BY <2>2, <2>3, <2>4 DEF Tight
<1> HIDE DEF group, t, tagged
<1> QED
  BY <1>1, <1>2, <1>3, <1>4, <1>5, AttemptKeeps

LEMMA WriteStubKeeps == ASSUME RepairInv, R!WriteStub PROVE RepairInv'
<1> DEFINE supports == {n \in RepairNames : /\ read[n].text # None
                                            /\ item \in read[n].text.links}
           hidden == R!StubPrivate(supports)
           t == [parts   |-> UNION {read[n].text.parts : n \in supports},
                 made    |-> {}, links |-> {},
                 private |-> hidden]
<1>1. R!Attempt(supports, item, None, t)
  BY DEF R!WriteStub
<1>2. /\ UNCHANGED <<plan, private_inputs, secret, status, read, todo>>
      /\ phase = "ask" /\ phase' = "each" /\ R!Mode = "stubs"
  BY DEF R!WriteStub, R!Done, R!Rest, R!world
<1>3. Reads /\ Writing /\ Merging'
  BY <1>1, <1>2, AttemptWrites, SameReads DEF RepairInv, Writing, Forbidden, Merging, InMerge
<1>4. ASSUME NEW f \in Bans PROVE Tight(t, f)
  <2>1. hidden \in BOOLEAN /\ (~hidden => \A n \in supports : ~read[n].text.private)
    BY DEF R!StubPrivate
  <2>2. ASSUME ~hidden PROVE (t.parts \cup t.made) \cap f = {}
    <3>1. \A n \in supports : read[n].text.parts \cap f = {}
      BY <2>1, <2>2 DEF RepairInv, AllTight, Tight
    <3> QED
      BY <3>1
  <2> HIDE DEF supports, hidden
  <2>3. DOMAIN t = Fields /\ t.private = hidden
    BY DEF Fields
  <2> QED
    BY <2>1, <2>2, <2>3 DEF Tight
<1> HIDE DEF supports, t
<1> QED
  BY <1>1, <1>2, <1>3, <1>4, AttemptKeeps

\* Only links change, so a pair stays as alike as it was.
LEMMA RewriteKeeps ==
  ASSUME R!Assumptions, RepairInv, NEW n \in RepairNames, R!RewriteLinks(n) PROVE RepairInv'
<1> DEFINE t == read[n].text
           map == R!Scoped(t)
           linked == R!Rewrite(t, map)
<1>1. R!Attempt({n}, n, t, linked)
  BY DEF R!RewriteLinks
<1>2. /\ UNCHANGED <<plan, private_inputs, secret, status, read, todo, item, phase>>
      /\ phase = "linking"
  BY DEF R!RewriteLinks, R!Rest, R!world
<1>3. Reads /\ Writing /\ OnWithIt /\ Merging'
  <2>1. OnWithIt
    BY <1>2 DEF OnWithIt, InMerge
  <2> QED
    BY <1>1, <1>2, <2>1, AttemptWrites, SameReads, MergingStays DEF RepairInv, Writing, Forbidden
<1>4. ASSUME R!Guards({n}, n, t)
      PROVE  /\ DOMAIN linked = Fields /\ linked.private = t.private
             /\ \A f \in Bans : Tight(linked, f)
  <2>1. t # None /\ \A f \in Bans : Tight(t, f)
    BY <1>4, UnmovedIs
  <2>2. DOMAIN t = Fields
    BY <2>1 DEF Tight, Bans
  <2>3. DOMAIN linked = Fields /\ linked.private = t.private /\ linked.parts = t.parts
        /\ linked.made = t.made
    BY <2>2 DEF Fields, R!Rewrite
  <2> HIDE DEF t, linked
  <2> QED
    BY <2>1, <2>3 DEF Tight
<1>5. ASSUME Careful, R!Mode = "dedup" PROVE DedupInv'
  <2>1. Writes(n, linked) /\ (article' # article => R!Guards({n}, n, t))
    BY <1>1, AttemptWrites DEF RepairInv
  <2>2. ASSUME private_inputs, NEW s \in todo', Alike(s) PROVE Alike(s)'
    <3>1. s \in Twins
      BY <1>2, <1>5, <2>2 DEF RepairInv, RepairTypes
    <3>2. \A m \in {s[1], s[2]} : article'[m] # None /\ article'[m].private = article[m].private
      <4> SUFFICES ASSUME NEW m \in {s[1], s[2]}, article'[m] # article[m]
                   PROVE  article'[m] # None /\ article'[m].private = article[m].private
        BY <2>2 DEF Alike
      <4>1. m \in RepairNames
        BY <3>1, PairIs
      <4>2. m = n /\ article'[m] = linked /\ article' # article
        BY <2>1, <4>1 DEF Writes, RepairInv, RepairTypes, ByName
      <4>3. R!Guards({n}, n, t) /\ article[n] = t
        BY <2>1, <4>2 DEF R!Guards
      <4>4. DOMAIN linked = Fields /\ linked.private = t.private
        BY <1>4, <4>3
      <4> HIDE DEF linked, t
      <4> QED
        BY <1>5, <2>2, <4>2, <4>3, <4>4 DEF Careful, NoneIsNoArticle
    <3> QED
      BY <2>1, <2>2, <3>1, <3>2, AlikeStays, PairIs DEF Writes
  <2> QED
    BY <1>3, <1>5, <2>2, DedupKeeps DEF RepairInv
<1> HIDE DEF t, linked
<1> QED
  BY <1>1, <1>2, <1>3, <1>4, <1>5, AttemptKeeps

\* The two texts of a pair in one, as private as the one that is kept.
LEMMA MergeKeeps == ASSUME R!Assumptions, RepairInv, R!Merge PROVE RepairInv'
<1> DEFINE p == R!Primary(item)
           s == CHOOSE n \in R!Range(item) : n # p
           a == read[p].text
           b == read[s].text
           both == R!Merged(p, s)
           map == [n \in {s} |-> p]
           ok == R!Guards({p, s}, p, a)
<1>1. phase = "confirm" /\ item \in Twins /\ item \notin todo /\ R!Mode = "dedup"
      /\ read[item[1]].text # None /\ read[item[2]].text # None
  BY DEF R!Merge, RepairInv, Merging
<1>2. /\ {p, s} = {item[1], item[2]} /\ p # s /\ p \in RepairNames /\ s \in RepairNames
  <2>1. R!Range(item) = {item[1], item[2]} /\ item[1] # item[2]
        /\ item[1] \in RepairNames /\ item[2] \in RepairNames
    BY <1>1, PairIs
  <2>2. p \in {item[1], item[2]}
    BY DEF R!Primary
  <2>3. s \in R!Range(item) /\ s # p
    BY <2>1, <2>2
  <2> HIDE DEF p, s
  <2> QED
    BY <2>1, <2>2, <2>3
<1>3. R!Attempt({p, s}, p, a, both)
  BY DEF R!Merge
<1>4. UNCHANGED <<plan, private_inputs, secret, status, read, todo>>
  BY DEF R!Merge, R!Rest, R!world
<1>5. \/ /\ ok /\ phase' = "links"
         /\ item' = [kept |-> p, gone |-> s, merged |-> R!Rewrite(both, map),
                     rest |-> R!Rewrite(b, map)]
      \/ ~ok /\ phase' = "each"
  BY DEF R!Merge
<1>6. \A f \in Bans : Tight(a, f) /\ Tight(b, f)
  BY <1>2 DEF RepairInv, AllTight
<1>7. DOMAIN a = Fields /\ DOMAIN b = Fields /\ a.private \in BOOLEAN /\ b.private \in BOOLEAN
  <2>1. a # None /\ b # None
    BY <1>1, <1>2
  <2> HIDE DEF a, b
  <2> QED
    BY <1>6, <2>1 DEF Tight, Bans
<1>8. DOMAIN both = Fields /\ both.private = a.private /\ both.parts = a.parts \cup b.parts
      /\ both.made = a.made \cup b.made
  BY DEF R!Merged, R!Parts, Fields
<1>9. /\ DOMAIN R!Rewrite(both, map) = Fields
      /\ R!Rewrite(b, map).parts \subseteq R!Rewrite(both, map).parts
  <2> HIDE DEF a, b, both, map
  <2> QED
    BY <1>7, <1>8 DEF R!Rewrite, Fields
<1>10. ASSUME NEW f \in Bans PROVE Tight(both, f)
  <2>1. f = {} \/ (f = Forbidden /\ Careful)
    BY DEF Bans
  <2>2. Careful => a.private = b.private
    BY <1>1, <1>2 DEF RepairInv, DedupInv
  <2>3. a # None /\ b # None
    BY <1>1, <1>2
  <2> HIDE DEF a, b, both
  <2>4. ASSUME ~both.private PROVE (both.parts \cup both.made) \cap f = {}
    BY <1>6, <1>7, <1>8, <2>1, <2>2, <2>3, <2>4 DEF Tight
  <2> QED
    BY <1>7, <1>8, <2>4 DEF Tight
<1> HIDE DEF p, s, a, b, both, map, ok
<1>11. Reads /\ Writing
  BY <1>1, <1>3, <1>4, <1>5, AttemptWrites, SameReads DEF RepairInv, Writing, Forbidden
<1>12. Merging'
  <2>1. R!Mode' = "dedup"
    BY <1>1, <1>4 DEF R!Mode
  <2>2. CASE ok
    <3>1. IsMerge(item')
      BY <1>2, <1>5, <1>9, <2>2 DEF IsMerge
    <3> QED
      BY <1>5, <2>1, <2>2, <3>1 DEF Merging, InMerge
  <2>3. CASE ~ok
    BY <1>5, <2>1, <2>3 DEF Merging, InMerge
  <2> QED
    BY <2>2, <2>3
<1>13. ASSUME Careful PROVE DedupInv'
  <2>1. ASSUME private_inputs, NEW u \in todo
        PROVE  u \in Twins /\ {u[1], u[2]} \cap {p, s} = {} /\ Alike(u)
    BY <1>1, <1>2, <1>13, <2>1 DEF RepairInv, RepairTypes, DedupInv, Careful, PairsApart
  <2>2. Follows /\ (article' = article \/ article' = [article EXCEPT ![p] = both])
    BY <1>3, AttemptWrites DEF RepairInv, Writes
  <2>3. ASSUME private_inputs, NEW u \in todo PROVE Alike(u)'
    <3>1. u[1] \in RepairNames /\ u[2] \in RepairNames
      BY <2>1, <2>3, PairIs
    <3>2. \A m \in {u[1], u[2]} : article'[m] = article[m]
      <4>1. CASE article' = article
        BY <4>1
      <4>2. CASE article' = [article EXCEPT ![p] = both]
        <5>1. \A m \in {u[1], u[2]} : m \in RepairNames /\ m # p
          BY <2>1, <2>3, <3>1
        <5>2. ByName(article)
          BY DEF RepairInv, RepairTypes
        <5> QED
          BY <4>2, <5>1, <5>2 DEF ByName
      <4> QED
        BY <2>2, <4>1, <4>2
    <3> QED
      BY <2>1, <2>2, <2>3, <3>1, <3>2, AlikeStays DEF Alike
  <2>4. private_inputs /\ phase' \in InMerge => \A u \in todo : item'.gone \notin {u[1], u[2]}
    <3>1. phase' \in InMerge => item'.gone = s
      BY <1>5 DEF InMerge
    <3> QED
      BY <2>1, <3>1
  <2> QED
    BY <1>4, <1>5, <2>3, <2>4 DEF DedupInv
<1> QED
  BY <1>3, <1>10, <1>11, <1>12, <1>13, AttemptKeeps

\* The other article of a merge goes.
LEMMA DropKeeps == ASSUME R!Assumptions, RepairInv, R!Drop PROVE RepairInv'
<1>1. CASE R!Exists(item.gone) /\ item.gone \notin R!Scope
  BY <1>1, AbortKeeps DEF R!Drop
<1>2. CASE ~(R!Exists(item.gone) /\ item.gone \notin R!Scope)
  <2>1. /\ UNCHANGED <<plan, private_inputs, secret, status, read, todo, item>>
        /\ phase = "drop" /\ phase' = "each"
    BY <1>2 DEF R!Drop, R!Rest, R!world
  <2>2. /\ Follows /\ article' \in {article, R!Write(item.gone, None)}
        /\ intended = changed => intended' = changed'
    <3>1. \/ R!Accept(R!Write(item.gone, None))
          \/ UNCHANGED <<article, listing, intended, changed>>
      BY <1>2 DEF R!Drop
    <3> QED
      BY <3>1, AcceptFollows, SameFollows DEF RepairInv
  <2>3. ByName(article') /\ \A m \in RepairNames : \/ article'[m] = article[m]
                                                   \/ article'[m] = None /\ m = item.gone
    BY <2>2 DEF R!Write, RepairInv, RepairTypes, ByName
  <2>4. Reads /\ Writing /\ OnWithIt
    BY <2>1, <2>2, SameReads DEF Writing, Forbidden, OnWithIt, InMerge
  <2>5. \A f \in Bans, m \in RepairNames : Tight(article'[m], f)
    BY <2>3 DEF RepairInv, AllTight, Tight
  <2>6. ASSUME Careful, R!Mode = "dedup" PROVE DedupInv'
    <3>1. ASSUME private_inputs, NEW u \in todo, Alike(u) PROVE Alike(u)'
      <4>1. u[1] \in RepairNames /\ u[2] \in RepairNames
        BY <2>6, <3>1, PairIs DEF RepairInv, RepairTypes
      <4>2. item.gone \notin {u[1], u[2]}
        BY <2>1, <2>6, <3>1 DEF RepairInv, DedupInv, InMerge
      <4>3. \A m \in {u[1], u[2]} : article'[m] = article[m]
        BY <2>3, <4>1, <4>2
      <4> QED
        <5>1. \A m \in {u[1], u[2]} : article'[m] # None /\ article'[m].private = article[m].private
          BY <3>1, <4>3 DEF Alike
        <5> QED
          BY <2>2, <3>1, <4>1, <5>1, AlikeStays
    <3> QED
      BY <2>1, <2>4, <2>6, <3>1, DedupKeeps DEF RepairInv
  <2>7. Merging'
    BY <2>4, MergingStays DEF RepairInv
  <2> QED
    BY <2>2, <2>3, <2>4, <2>5, <2>6, <2>7, FilesKeep
<1> QED
  BY <1>1, <1>2

LEMMA SyncKeeps == ASSUME R!Assumptions, RepairInv, R!OtherSync PROVE RepairInv'
<1>1. /\ UNCHANGED <<article, plan, private_inputs, secret, status, read, todo, item, phase,
                     intended, changed>>
      /\ phase # "done" /\ listing' = R!Indexed(article')
  BY DEF R!OtherSync, R!work, R!outcome, R!world
<1>2. Follows /\ Reads
  BY <1>1, IndexedFollows, SameReads
<1>3. Writing /\ OnWithIt
  BY <1>1 DEF Writing, Forbidden, OnWithIt, RepairInv, Merging
<1>4. ByName(article') /\ \A f \in Bans, m \in RepairNames : Tight(article'[m], f)
  BY <1>1 DEF RepairInv, RepairTypes, AllTight
<1>5. ASSUME Careful, R!Mode = "dedup" PROVE DedupInv'
  <2>1. ASSUME NEW u \in todo, Alike(u) PROVE Alike(u)'
    <3>1. u[1] \in RepairNames /\ u[2] \in RepairNames
      BY <1>5, <2>1, PairIs DEF RepairInv, RepairTypes
    <3> QED
      BY <1>1, <1>2, <2>1, <3>1, AlikeStays DEF Alike
  <2> QED
    BY <1>1, <1>3, <1>5, <2>1, DedupKeeps DEF RepairInv
<1>6. Merging'
  BY <1>3, MergingStays DEF RepairInv
<1> QED
  BY <1>2, <1>3, <1>4, <1>5, <1>6, FilesKeep

\* What a person makes of an article, or writes anew.
LEMMA EditedIs ==
  ASSUME RepairInv, NEW n \in RepairNames, NEW t \in R!Edits(n)
  PROVE  /\ DOMAIN t = Fields /\ \A f \in Bans : Tight(t, f)
         /\ article[n] # None /\ private_inputs \notin Hides => t.private = article[n].private
<1> DEFINE old == article[n]
           fresh == [parts |-> {RepairAdded}, made |-> {}, links |-> {}, private |-> FALSE]
<1>1. \A f \in Bans : Tight(old, f) /\ RepairAdded \notin f
  BY DEF RepairInv, AllTight, Bans, RepairTypes
<1>2. CASE old = None
  <2>1. t = fresh
    BY <1>2 DEF R!Edits
  <2>2. DOMAIN t = Fields /\ t.private = FALSE /\ t.parts = {RepairAdded} /\ t.made = {}
    BY <2>1 DEF Fields
  <2> HIDE DEF fresh
  <2> QED
    BY <1>1, <1>2, <2>2 DEF Tight
<1>3. CASE old # None
  <2>1. DOMAIN old = Fields /\ old.private \in BOOLEAN
    BY <1>1, <1>3 DEF Tight, Bans
  <2>2. ~old.private
    BY <1>3 DEF R!Edits
  <2>3. \/ t = [old EXCEPT !.parts = @ \cup {RepairAdded}]
        \/ t = [old EXCEPT !.parts = {}]
        \/ /\ private_inputs \in Hides
           /\ t = [old EXCEPT !.parts = @ \cup {RepairSecret}, !.private = TRUE]
    BY <1>3, <2>2 DEF R!Edits
  <2> HIDE DEF old
  <2>4. DOMAIN t = Fields /\ t.made = old.made
        /\ \/ t.private = old.private /\ t.parts \subseteq old.parts \cup {RepairAdded}
           \/ private_inputs \in Hides /\ t.private = TRUE
    BY <2>1, <2>3 DEF Fields
  <2>5. \A f \in Bans : (old.parts \cup old.made) \cap f = {}
    BY <1>1, <1>3, <2>2 DEF Tight
  <2>6. \A f \in Bans : Tight(t, f)
    BY <1>1, <2>1, <2>4, <2>5 DEF Tight
  <2> QED
    BY <2>4, <2>6 DEF old
<1> QED
  BY <1>2, <1>3

LEMMA PersonEdits ==
  ASSUME R!Assumptions, RepairInv, NEW n \in RepairNames, R!Edit(n) PROVE RepairInv'
<1>1. PICK t \in R!Edits(n) : /\ article' = [article EXCEPT ![n] = t]
                              /\ secret' = IF t.private THEN secret \cup {RepairSecret} ELSE secret
  BY DEF R!Edit
<1>2. /\ UNCHANGED <<listing, plan, private_inputs, status, read, todo, item, phase,
                     intended, changed>>
      /\ phase # "done"
  BY DEF R!Edit, R!work, R!outcome
<1>3. /\ DOMAIN t = Fields /\ \A f \in Bans : Tight(t, f)
      /\ article[n] # None /\ private_inputs \notin Hides => t.private = article[n].private
  BY EditedIs
<1>4. Forbidden' = Forbidden
  BY <1>1 DEF Forbidden
<1>5. Follows /\ Reads
  BY <1>2, SameFollows, SameReads DEF RepairInv
<1>6. Writing /\ OnWithIt
  BY <1>2, <1>4 DEF Writing, OnWithIt, RepairInv, Merging
<1>7. /\ ByName(article') /\ article'[n] = t
      /\ \A m \in RepairNames : m # n => article'[m] = article[m]
  BY <1>1 DEF RepairInv, RepairTypes, ByName
<1>8. \A f \in Bans, m \in RepairNames : Tight(article'[m], f)
  BY <1>3, <1>7 DEF RepairInv, AllTight
<1>9. ASSUME Careful, R!Mode = "dedup" PROVE DedupInv'
  <2>1. ASSUME private_inputs, NEW u \in todo, Alike(u) PROVE Alike(u)'
    <3>1. u[1] \in RepairNames /\ u[2] \in RepairNames
      BY <1>9, <2>1, PairIs DEF RepairInv, RepairTypes
    <3>2. private_inputs \notin Hides /\ t # None
      BY <1>3, <1>9, <2>1 DEF Careful, NoneIsNoArticle, RepairInv, RepairTypes
    <3>3. \A m \in {u[1], u[2]} : article'[m] # None /\ article'[m].private = article[m].private
      BY <1>3, <1>7, <2>1, <3>1, <3>2 DEF Alike
    <3> QED
      BY <1>5, <2>1, <3>1, <3>3, AlikeStays
  <2> QED
    BY <1>2, <1>6, <1>9, <2>1, DedupKeeps DEF RepairInv
<1>10. Merging'
  BY <1>6, MergingStays DEF RepairInv
<1> QED
  BY <1>5, <1>6, <1>7, <1>8, <1>9, <1>10, FilesKeep

LEMMA RepairInit == ASSUME R!Assumptions, R!Init PROVE RepairInv
<1> DEFINE hidden == UNION {article[n].parts : n \in {m \in RepairNames :
                              article[m] # None /\ article[m].private}}
<1>1. /\ ByName(article) /\ RepairAdded \notin hidden \cup {RepairSecret}
      /\ \A n \in RepairNames : article[n] # None =>
           /\ DOMAIN article[n] = Fields /\ article[n].private \in BOOLEAN
           /\ ~article[n].private =>
                (article[n].parts \cup article[n].made) \cap (hidden \cup {RepairSecret}) = {}
  BY DEF R!Init, R!Assumptions, ByName, Fields
<1>2. /\ ByName(listing) /\ ByName(read) /\ secret = hidden
      /\ \A n \in RepairNames : listing[n].text = article[n] /\ read[n].text = article[n]
  BY DEF R!Init, ByName
<1>3. /\ private_inputs \in BOOLEAN /\ phase = "next" /\ todo = {}
      /\ intended = changed /\ status = "running"
  BY DEF R!Init
<1> HIDE DEF hidden
<1>4. Forbidden = hidden \cup {RepairSecret}
  BY <1>2 DEF Forbidden
<1>5. AllTight
  <2>1. ASSUME NEW f \in Bans, NEW n \in RepairNames PROVE Tight(article[n], f)
    BY <1>1, <1>4 DEF Tight, Bans
  <2> QED
    BY <1>2, <2>1 DEF AllTight
<1>6. RepairTypes
  BY <1>1, <1>2, <1>3, <1>4 DEF RepairTypes
<1> QED
  BY <1>3, <1>5, <1>6 DEF RepairInv, Merging, RepairHonest, DedupInv, InMerge

LEMMA RepairStep == ASSUME R!Assumptions, RepairInv, [R!Next]_repairVars PROVE RepairInv'
<1>1. CASE UNCHANGED repairVars
  <2>1. /\ Quiet /\ OnWithIt /\ read' = read /\ status' = status
    BY <1>1 DEF repairVars, Quiet, OnWithIt, RepairInv, Merging, InMerge
  <2>2. RepairHonest'
    BY <1>1 DEF repairVars, RepairInv, RepairHonest
  <2> QED
    BY <2>1, <2>2, QuietKeeps
<1>2. CASE R!Next
  BY <1>2, QuietStep, BeginKeeps, BeginLinksKeeps, ReadPairKeeps, FinishKeeps, RenameKeeps,
     DeleteKeeps, WriteMetadataKeeps, WriteTagsKeeps, WriteStubKeeps, RewriteKeeps,
     MergeKeeps, DropKeeps, SyncKeeps, PersonEdits
  DEF R!Next
<1> QED
  BY <1>1, <1>2

\* What a merge deletes is in the article it keeps.
LEMMA RepairPreserves ==
  ASSUME R!Assumptions, NoneIsNoArticle, RepairInv, [R!Next]_repairVars
  PROVE  R!PreservesContent
<1> SUFFICES ASSUME NEW n \in RepairNames, phase = "drop", article[n] # None,
                    article'[n] = None
             PROVE  \E k \in RepairNames : article'[k] # None
                                          /\ article[n].parts \subseteq article'[k].parts
  BY DEF R!PreservesContent
<1>1. ASSUME NEW m \in RepairNames, R!Edit(m) PROVE FALSE
  <2>1. PICK t \in R!Edits(m) : article' = [article EXCEPT ![m] = t]
    BY <1>1 DEF R!Edit
  <2>2. DOMAIN t = Fields
    BY EditedIs
  <2>3. article'[n] \in {article[n], t}
    BY <2>1 DEF RepairInv, RepairTypes, ByName
  <2> QED
    BY <2>2, <2>3 DEF NoneIsNoArticle
<1>2. CASE R!Drop
  <2>1. article' # article
    OBVIOUS
  <2>2. R!Accept(R!Write(item.gone, None)) /\ R!AsMerged
        /\ article[item.gone] = listing[item.gone].text
    BY <1>2, <2>1 DEF R!Drop, R!Abort, R!content
  <2>3. article' = [article EXCEPT ![item.gone] = None]
    BY <2>2 DEF R!Accept, R!Write
  <2>4. IsMerge(item)
    BY DEF RepairInv, Merging, InMerge
  <2>5. n = item.gone /\ article'[item.kept] = item.merged /\ article[n] = item.rest
    BY <2>2, <2>3, <2>4 DEF R!AsMerged, IsMerge, RepairInv, RepairTypes, ByName
  <2>6. item.merged # None
    BY <2>4 DEF IsMerge, NoneIsNoArticle
  <2> QED
    BY <2>4, <2>5, <2>6 DEF IsMerge
<1>3. CASE R!Next /\ ~R!Drop /\ ~\E m \in RepairNames : R!Edit(m)
  <2>1. article' = article
    BY <1>3
    DEF R!Next, R!Begin, R!Stop, R!Exhausted, R!EndStage, R!NoAnswer, R!RenameOne,
        R!DeleteGarbage, R!Take, R!Ask, R!WriteMetadata, R!WriteTags, R!TagsDone,
        R!WriteStub, R!Declined, R!BeginLinks, R!RewriteLinks, R!LinksDone, R!ReadPair,
        R!NotSame, R!Merge, R!Refresh, R!Regenerate, R!LostBeforeRegeneration, R!Finish,
        R!OtherSync, R!Cancel, R!LoseLease, R!content
  <2> QED
    BY <2>1
<1>4. CASE UNCHANGED repairVars
  BY <1>4 DEF repairVars
<1> QED
  BY <1>1, <1>2, <1>3, <1>4

\* A list of slugs under one category has each of them once.
LEMMA InSomeOrderIs ==
  ASSUME NEW c, NEW E, IsFiniteSet(E)
  PROVE  /\ R!InSomeOrder(c, E) \in Seq({c} \X E)
         /\ \A n \in E : \E i \in DOMAIN R!InSomeOrder(c, E) : R!InSomeOrder(c, E)[i][2] = n
         /\ \A i, j \in DOMAIN R!InSomeOrder(c, E) :
              R!InSomeOrder(c, E)[i] = R!InSomeOrder(c, E)[j] => i = j
<1> DEFINE N == Cardinality(E)
           Fits(q) == /\ \A n \in E : \E i \in DOMAIN q : q[i][2] = n
                      /\ \A i, j \in DOMAIN q : q[i] = q[j] => i = j
<1>1. N \in Nat /\ ExistsBijection(1..N, E)
  BY FS_CardinalityType
<1>2. PICK f \in [1..N -> E] : /\ \A n \in E : \E i \in 1..N : f[i] = n
                              /\ \A i, j \in 1..N : f[i] = f[j] => i = j
  BY <1>1 DEF ExistsBijection, Bijection, Injection, Surjection, IsInjective
<1> DEFINE p == [i \in 1..N |-> <<c, f[i]>>]
<1> HIDE DEF N
<1>3. p \in [1..N -> {c} \X E]
  BY <1>2
<1>4. \A i \in 1..N : p[i] = <<c, f[i]>>
  OBVIOUS
<1>5. DOMAIN p = 1..N
  OBVIOUS
<1> HIDE DEF p
<1>6. Fits(p)
  BY <1>2, <1>4, <1>5
<1>7. R!Cardinality(E) = N
  BY DEF R!Cardinality, Cardinality, N
<1> HIDE DEF Fits
<1>8. R!InSomeOrder(c, E) = CHOOSE q \in [1..N -> {c} \X E] : Fits(q)
  BY <1>7 DEF R!InSomeOrder, Fits
<1>9. R!InSomeOrder(c, E) \in [1..N -> {c} \X E] /\ Fits(R!InSomeOrder(c, E))
  BY <1>3, <1>6, <1>8
<1>10. R!InSomeOrder(c, E) \in Seq({c} \X E)
  BY <1>1, <1>9
<1> QED
  BY <1>9, <1>10 DEF Fits

\* What is not renamed stays what it is.
LEMMA TargetOfItself ==
  ASSUME IsFiniteSet(RepairNames), NEW n, n \notin DOMAIN all
  PROVE  R!Target(n) = n
<1> DEFINE N == R!Cardinality(RepairNames)
           after[i \in 0..N] == IF i = 0 THEN n ELSE R!Renamed(all, after[i - 1])
<1>1. N \in Nat
  <2>1. R!Cardinality(RepairNames) = Cardinality(RepairNames)
    BY DEF R!Cardinality, Cardinality
  <2> QED
    BY <2>1, FS_CardinalityType
<1>2. R!Target(n) = after[N]
  BY DEF R!Target
<1> HIDE DEF N
<1> DEFINE f == [i \in 0..N |-> n]
<1>3. f = [i \in 0..N |-> IF i = 0 THEN n ELSE R!Renamed(all, f[i - 1])]
  <2>1. \A i \in 0..N : i # 0 => i - 1 \in 0..N
    BY <1>1
  <2>2. \A i \in 0..N : i # 0 => f[i - 1] = n
    BY <2>1
  <2> QED
    BY <2>2 DEF R!Renamed
<1>4. after = [i \in 0..N |-> IF i = 0 THEN n ELSE R!Renamed(all, after[i - 1])]
  BY <1>3
<1> HIDE DEF after
<1> DEFINE T == {i \in Nat : i <= N => after[i] = n}
<1>5. 0 \in T
  BY <1>1, <1>4
<1>6. ASSUME NEW i \in Nat, i \in T, i + 1 <= N PROVE after[i + 1] = n
  <2>1. i + 1 \in 0..N /\ i + 1 # 0 /\ (i + 1) - 1 = i /\ i <= N
    BY <1>1, <1>6
  <2>2. after[i + 1] = R!Renamed(all, after[i])
    BY <1>4, <2>1
  <2> QED
    BY <1>6, <2>1, <2>2 DEF R!Renamed
<1>7. \A i \in Nat : i \in T => i + 1 \in T
  BY <1>6
<1> HIDE DEF T
<1>8. N \in T
  BY <1>1, <1>5, <1>7, Induction
<1> QED
  BY <1>1, <1>2, <1>8 DEF T

\* No slug is listed twice.
TaxInv ==
    /\ tax \in Seq({tax[i] : i \in DOMAIN tax})
    /\ \A i \in DOMAIN tax : tax[i] = <<tax[i][1], tax[i][2]>>
    /\ \A i, j \in DOMAIN tax : tax[i][2] = tax[j][2] => i = j

\* What the refresh has placed after the first n entries.
Seated(q, B, n) ==
    /\ q \in Seq(B)
    /\ \A k, l \in DOMAIN q : q[k][2] = q[l][2] => k = l
    /\ \A k \in DOMAIN q : q[k][2] \in R!Reserved => \E j \in 1..n : tax[j][2] = q[k][2]
    /\ \A j \in 1..n : tax[j][2] \in R!Reserved => \E k \in DOMAIN q : q[k] = tax[j]

LEMMA PlaceKeeps ==
  ASSUME TaxInv, IsFiniteSet(RepairNames), NEW n \in Nat, n + 1 \in DOMAIN tax,
         NEW B, <<tax[n + 1][1], R!Target(tax[n + 1][2])>> \in B,
         NEW q, Seated(q, B, n)
  PROVE  Seated(R!Place(q, tax[n + 1]), B, n + 1)
<1> DEFINE e == tax[n + 1]
           t == R!Target(e[2])
           new == <<e[1], t>>
           p == R!Place(q, e)
<1>1. e = <<e[1], e[2]>> /\ e[2] \in R!Listed /\ Len(tax) \in Nat /\ DOMAIN tax = 1..Len(tax)
  BY DEF TaxInv, R!Listed
<1>2. ASSUME e[2] \in R!Reserved PROVE t = e[2] /\ new = e /\ R!Exists(t)
  <2>1. e[2] \notin DOMAIN all /\ R!Exists(e[2])
    BY <1>2 DEF R!Reserved
  <2> QED
    BY <1>1, <2>1, TargetOfItself
<1>3. \A j \in 1..n : j \in DOMAIN tax /\ j # n + 1 /\ tax[j][2] # e[2] /\ j \in 1..n+1
  <2>1. \A j \in 1..n : j \in 1..Len(tax) /\ j # n + 1 /\ j \in 1..n+1
    BY <1>1
  <2> QED
    BY <1>1, <2>1 DEF TaxInv
<1>4. q \in Seq(B) /\ Len(q) \in Nat /\ DOMAIN q = 1..Len(q)
  BY DEF Seated
<1>5. n + 1 \in 1..n+1 /\ \A j \in 1..n+1 : j = n + 1 \/ j \in 1..n
  OBVIOUS
<1> HIDE DEF e, t
<1>6. CASE \/ ~R!Exists(t)
           \/ t # e[2] /\ t \in R!Reserved
           \/ \E i \in DOMAIN q : q[i][2] = t
  <2>1. p = q
    BY <1>6 DEF R!Place, t
  <2>2. ASSUME NEW k \in DOMAIN q, q[k][2] \in R!Reserved
        PROVE  \E j \in 1..n+1 : tax[j][2] = q[k][2]
    BY <1>3, <2>2 DEF Seated
  <2>3. ASSUME NEW j \in 1..n+1, tax[j][2] \in R!Reserved
        PROVE  \E k \in DOMAIN q : q[k] = tax[j]
    <3>1. CASE j \in 1..n
      BY <2>3, <3>1 DEF Seated
    <3>2. CASE j = n + 1
      <4>1. e[2] \in R!Reserved
        BY <2>3, <3>2 DEF e
      <4>2. PICK i \in DOMAIN q : q[i][2] = e[2]
        BY <1>2, <1>6, <4>1
      <4>3. PICK l \in 1..n : tax[l][2] = q[i][2]
        BY <4>1, <4>2 DEF Seated
      <4> QED
        BY <1>3, <4>2, <4>3
    <3> QED
      BY <1>5, <3>1, <3>2
  <2> QED
    BY <2>1, <2>2, <2>3 DEF Seated, e
<1>7. CASE /\ R!Exists(t) /\ ~(t # e[2] /\ t \in R!Reserved)
           /\ \A i \in DOMAIN q : q[i][2] # t
  <2>1. p = Append(q, new)
    BY <1>7 DEF R!Place, t
  <2>2. /\ p \in Seq(B) /\ DOMAIN p = 1..Len(q)+1
        /\ \A k \in DOMAIN q : k \in DOMAIN p /\ p[k] = q[k]
        /\ Len(q) + 1 \in DOMAIN p /\ p[Len(q) + 1] = new
    BY <1>4, <2>1 DEF e, t
  <2>3. \A k \in DOMAIN p : k \in DOMAIN q \/ k = Len(q) + 1
    BY <1>4, <2>2
  <2>4. new[2] = t
    OBVIOUS
  <2> HIDE DEF p, new
  <2>5. \A k, l \in DOMAIN p : p[k][2] = p[l][2] => k = l
    BY <1>7, <2>2, <2>3, <2>4 DEF Seated
  <2>6. ASSUME NEW k \in DOMAIN p, p[k][2] \in R!Reserved
        PROVE  \E j \in 1..n+1 : tax[j][2] = p[k][2]
    <3>1. CASE k \in DOMAIN q
      BY <1>3, <2>2, <2>6, <3>1 DEF Seated
    <3>2. CASE k = Len(q) + 1
      <4>1. t \in R!Reserved /\ p[k][2] = t
        BY <2>2, <2>4, <2>6, <3>2
      <4> QED
        BY <1>5, <1>7, <4>1 DEF e
    <3> QED
      BY <2>3, <3>1, <3>2
  <2>7. ASSUME NEW j \in 1..n+1, tax[j][2] \in R!Reserved
        PROVE  \E k \in DOMAIN p : p[k] = tax[j]
    <3>1. CASE j \in 1..n
      BY <2>2, <2>7, <3>1 DEF Seated
    <3>2. CASE j = n + 1
      <4>1. e[2] \in R!Reserved
        BY <2>7, <3>2 DEF e
      <4>2. new = e
        BY <1>2, <4>1
      <4>3. p[Len(q) + 1] = tax[j]
        BY <2>2, <3>2, <4>2 DEF e
      <4> QED
        BY <2>2, <4>3
    <3> QED
      BY <1>5, <3>1, <3>2
  <2> QED
    BY <2>2, <2>5, <2>6, <2>7 DEF Seated, p, e
<1> QED
  BY <1>6, <1>7

\* What the refresh keeps of the taxonomy, before it adds what is left.
LEMMA KeptIs ==
  ASSUME TaxInv, IsFiniteSet(RepairNames)
  PROVE  \E q, B : /\ Seated(q, B, Len(tax)) /\ \A a \in B : a = <<a[1], a[2]>>
                  /\ R!Refreshed =
                       q \o R!InSomeOrder("other",
                              {n \in RepairNames :
                                 /\ R!Exists(n)
                                 /\ ~listing[n].text.private \/ (private_inputs /\ accepted)
                                 /\ \A i \in DOMAIN q : q[i][2] # n})
<1> DEFINE N == Len(tax)
           B == {tax[i][1] : i \in DOMAIN tax} \X {R!Target(tax[i][2]) : i \in DOMAIN tax}
           X == Seq(B)
           nil == <<>>
           next(n, x) == R!Place(x, tax[n])
           g == [n \in 1..N |-> [x \in X |-> next(n, x)]]
<1>1. N \in Nat /\ DOMAIN tax = 1..N
  BY DEF TaxInv
<1>2. \A i \in 1..N : <<tax[i][1], R!Target(tax[i][2])>> \in B
  BY <1>1
<1>3. \A a \in B : a = <<a[1], a[2]>>
  OBVIOUS
<1> HIDE DEF B, N
<1>4. \A n \in 1..N, x \in X : next(n, x) \in X
  BY <1>2 DEF R!Place
<1>5. nil \in X
  OBVIOUS
<1> HIDE DEF X, next
<1>6. g \in [1..N -> [X -> X]] /\ \A n \in 1..N, x \in X : g[n][x] = next(n, x)
  BY <1>4
<1> HIDE DEF g, nil
<1>7. PICK f : Loops(f, X, nil, N, g)
  BY <1>1, <1>5, <1>6, Loop
<1>8. \A n \in 1..N : f[n] = next(n, f[n - 1])
  BY <1>6, <1>7 DEF Loops
<1>9. f = [n \in 0..N |-> IF n = 0 THEN nil ELSE next(n, f[n - 1])]
  <2>1. \A n \in 0..N : f[n] = IF n = 0 THEN nil ELSE next(n, f[n - 1])
    BY <1>1, <1>7, <1>8 DEF Loops
  <2> QED
    BY <1>7, <2>1 DEF Loops
<1>10. f = [n \in 0..N |-> IF n = 0 THEN <<>> ELSE R!Place(f[n - 1], tax[n])]
  BY <1>9 DEF nil, next
<1> DEFINE upto[n \in 0..N] == IF n = 0 THEN <<>> ELSE R!Place(upto[n - 1], tax[n])
<1>11. upto = [n \in 0..N |-> IF n = 0 THEN <<>> ELSE R!Place(upto[n - 1], tax[n])]
  BY <1>10
<1>12. R!Refreshed =
         upto[N] \o R!InSomeOrder("other",
                      {n \in RepairNames :
                         /\ R!Exists(n)
                         /\ ~listing[n].text.private \/ (private_inputs /\ accepted)
                         /\ \A i \in DOMAIN upto[N] : upto[N][i][2] # n})
  BY DEF R!Refreshed, N
<1> HIDE DEF upto
<1> DEFINE T == {n \in Nat : n <= N => Seated(upto[n], B, n)}
<1>13. 0 \in T
  <2>1. upto[0] = <<>>
    BY <1>1, <1>11
  <2>2. <<>> \in Seq(B) /\ DOMAIN <<>> = {} /\ 1..0 = {}
    OBVIOUS
  <2>3. Seated(<<>>, B, 0)
    BY <2>2 DEF Seated
  <2> QED
    BY <2>1, <2>3
<1>14. ASSUME NEW n \in Nat, n \in T, n + 1 <= N PROVE Seated(upto[n + 1], B, n + 1)
  <2>1. n + 1 \in 1..N /\ n + 1 \in 0..N /\ n + 1 # 0 /\ (n + 1) - 1 = n /\ n <= N
    BY <1>1, <1>14
  <2>2. upto[n + 1] = R!Place(upto[n], tax[n + 1])
    BY <1>11, <2>1
  <2>3. Seated(upto[n], B, n)
    BY <1>14, <2>1
  <2> QED
    BY <1>1, <1>2, <2>1, <2>2, <2>3, PlaceKeeps
<1>15. \A n \in Nat : n \in T => n + 1 \in T
  BY <1>14
<1> HIDE DEF T
<1>16. N \in T
  BY <1>1, <1>13, <1>15, Induction
<1>17. Seated(upto[N], B, N)
  BY <1>1, <1>16 DEF T
<1> QED
  BY <1>3, <1>12, <1>17 DEF N

\* A refresh lists no article twice, leaves out no public one and moves none.
LEMMA RefreshedKeeps ==
  ASSUME TaxInv, IsFiniteSet(RepairNames), tax' = R!Refreshed
  PROVE  /\ TaxInv'
         /\ \A n \in RepairNames : R!Exists(n) /\ ~listing[n].text.private =>
              \E i \in DOMAIN tax' : tax'[i][2] = n
         /\ \A i \in DOMAIN tax : tax[i][2] \in R!Reserved =>
              \E k \in DOMAIN tax' : tax'[k] = tax[i]
<1>1. PICK q, E :
        /\ Seated(q, E, Len(tax)) /\ \A a \in E : a = <<a[1], a[2]>>
        /\ R!Refreshed =
             q \o R!InSomeOrder("other",
                    {n \in RepairNames :
                       /\ R!Exists(n)
                       /\ ~listing[n].text.private \/ (private_inputs /\ accepted)
                       /\ \A i \in DOMAIN q : q[i][2] # n})
  BY KeptIs
<1> DEFINE left == {n \in RepairNames :
                      /\ R!Exists(n)
                      /\ ~listing[n].text.private \/ (private_inputs /\ accepted)
                      /\ \A i \in DOMAIN q : q[i][2] # n}
           r == R!InSomeOrder("other", left)
           B == E \cup ({"other"} \X left)
<1>2. IsFiniteSet(left)
  BY FS_Subset
<1>3. \A n \in left : \A i \in DOMAIN q : q[i][2] # n
  OBVIOUS
<1>4. \A n \in RepairNames :
        R!Exists(n) /\ ~listing[n].text.private =>
          n \in left \/ \E i \in DOMAIN q : q[i][2] = n
  OBVIOUS
<1>5. tax' = q \o r
  BY <1>1
<1> HIDE DEF left
<1>6. /\ r \in Seq({"other"} \X left)
      /\ \A n \in left : \E i \in DOMAIN r : r[i][2] = n
      /\ \A i, j \in DOMAIN r : r[i] = r[j] => i = j
  BY <1>2, InSomeOrderIs
<1> HIDE DEF r
<1>7. q \in Seq(E) /\ r \in Seq(B) /\ q \in Seq(B)
  BY <1>1, <1>6 DEF Seated
<1>8. \A b \in B : b = <<b[1], b[2]>>
  BY <1>1
<1>9. \A i \in DOMAIN r : r[i] = <<"other", r[i][2]>> /\ r[i][2] \in left
  BY <1>6
<1> HIDE DEF B
<1>10. /\ tax' \in Seq(B) /\ DOMAIN tax' = 1..Len(q)+Len(r)
       /\ \A i \in DOMAIN q : i \in DOMAIN tax' /\ tax'[i] = q[i]
       /\ \A i \in DOMAIN r : Len(q) + i \in DOMAIN tax' /\ tax'[Len(q) + i] = r[i]
  BY <1>5, <1>7
<1>11. \A i \in DOMAIN tax' :
         \/ i \in DOMAIN q
         \/ i - Len(q) \in DOMAIN r /\ Len(q) + (i - Len(q)) = i
  BY <1>7, <1>10
<1>12. \A i \in DOMAIN tax' :
         \/ i \in DOMAIN q /\ tax'[i] = q[i]
         \/ i - Len(q) \in DOMAIN r /\ tax'[i] = r[i - Len(q)] /\ Len(q) + (i - Len(q)) = i
  BY <1>10, <1>11
<1>13. \A i, j \in DOMAIN r : r[i][2] = r[j][2] => i = j
  BY <1>6, <1>9
<1>14. \A i, j \in DOMAIN q : q[i][2] = q[j][2] => i = j
  BY <1>1 DEF Seated
<1>15. ASSUME NEW i \in DOMAIN tax', NEW j \in DOMAIN tax', tax'[i][2] = tax'[j][2]
       PROVE  i = j
  BY <1>3, <1>9, <1>12, <1>13, <1>14, <1>15
<1>16. TaxInv'
  <2>1. \A i \in DOMAIN tax' : tax'[i] = <<tax'[i][1], tax'[i][2]>>
    BY <1>8, <1>10
  <2>2. tax' \in Seq({tax'[i] : i \in DOMAIN tax'})
    BY <1>10
  <2> QED
    BY <1>15, <2>1, <2>2 DEF TaxInv
<1>17. ASSUME NEW n \in RepairNames, R!Exists(n), ~listing[n].text.private
       PROVE  \E i \in DOMAIN tax' : tax'[i][2] = n
  BY <1>4, <1>6, <1>10, <1>17
<1>18. ASSUME NEW i \in DOMAIN tax, tax[i][2] \in R!Reserved
       PROVE  \E k \in DOMAIN tax' : tax'[k] = tax[i]
  <2>1. i \in 1..Len(tax)
    BY DEF TaxInv
  <2>2. PICK k \in DOMAIN q : q[k] = tax[i]
    BY <1>1, <1>18, <2>1 DEF Seated
  <2> QED
    BY <1>10, <2>2
<1> QED
  BY <1>16, <1>17, <1>18

\* Nothing but the refresh and a regeneration changes the taxonomy.
LEMMA TaxStep ==
  ASSUME TaxInv, IsFiniteSet(RepairNames), [R!Next]_repairVars
  PROVE  TaxInv' /\ R!KeepsPlaces
<1>1. CASE tax' = tax
  BY <1>1 DEF TaxInv, R!KeepsPlaces
<1>2. CASE R!Refresh /\ tax' # tax
  <2>1. tax' = R!Refreshed
    BY <1>2 DEF R!Refresh, R!Abort, R!content
  <2>2. \A i \in DOMAIN tax : R!Exists(tax[i][2]) /\ tax[i][2] \notin DOMAIN all =>
                             tax[i][2] \in R!Reserved
    BY DEF R!Reserved, R!Listed
  <2> QED
    BY <2>1, <2>2, RefreshedKeeps DEF R!KeepsPlaces, R!Range, TaxInv
<1>3. CASE R!Regenerate /\ tax' # tax
  <2>1. phase = "next" /\ tax' = R!InSomeOrder("new", R!Scope)
    BY <1>3 DEF R!Regenerate
  <2>2. IsFiniteSet(R!Scope)
    BY FS_Subset DEF R!Scope
  <2>3. /\ tax' \in Seq({"new"} \X R!Scope)
        /\ \A i, j \in DOMAIN tax' : tax'[i] = tax'[j] => i = j
    BY <2>1, <2>2, InSomeOrderIs
  <2>4. \A i \in DOMAIN tax' : tax'[i] = <<"new", tax'[i][2]>>
    BY <2>3
  <2>5. TaxInv'
    <3>1. tax' \in Seq({tax'[i] : i \in DOMAIN tax'})
      BY <2>3
    <3>2. \A i \in DOMAIN tax' : tax'[i] = <<tax'[i][1], tax'[i][2]>>
      BY <2>4
    <3>3. \A i, j \in DOMAIN tax' : tax'[i][2] = tax'[j][2] => i = j
      BY <2>3, <2>4
    <3> QED
      BY <3>1, <3>2, <3>3 DEF TaxInv
  <2> QED
    BY <2>1, <2>5 DEF R!KeepsPlaces
<1>4. CASE R!Next /\ ~R!Refresh /\ ~R!Regenerate
  <2>1. tax' = tax
    BY <1>4
    DEF R!Next, R!Begin, R!Stop, R!Exhausted, R!EndStage, R!NoAnswer, R!RenameOne,
        R!DeleteGarbage, R!Take, R!Ask, R!WriteMetadata, R!WriteTags, R!TagsDone,
        R!WriteStub, R!Declined, R!BeginLinks, R!RewriteLinks, R!LinksDone, R!ReadPair,
        R!NotSame, R!Merge, R!Drop, R!LostBeforeRegeneration, R!Finish, R!Abort,
        R!OtherSync, R!Edit, R!Cancel, R!LoseLease, R!content, R!Rest
  <2> QED
    BY <1>1, <2>1
<1>5. CASE UNCHANGED repairVars
  BY <1>1, <1>5 DEF repairVars
<1> QED
  BY <1>1, <1>2, <1>3, <1>4, <1>5

LEMMA TaxInit == ASSUME R!Assumptions, R!Init PROVE TaxInv
<1>1. PICK o \in TaxonomyOrders : tax = [i \in DOMAIN o |-> <<o[i], o[i]>>]
  BY DEF R!Init
<1>2. o \in Seq({o[i] : i \in DOMAIN o}) /\ \A i, j \in DOMAIN o : o[i] = o[j] => i = j
  BY DEF R!Assumptions
<1>3. Len(o) \in Nat /\ DOMAIN o = 1..Len(o)
  BY <1>2
<1>4. DOMAIN tax = DOMAIN o /\ \A i \in DOMAIN tax : tax[i] = <<o[i], o[i]>>
  BY <1>1
<1>5. tax \in [1..Len(o) -> {tax[i] : i \in DOMAIN tax}]
  BY <1>1, <1>3
<1>6. tax \in Seq({tax[i] : i \in DOMAIN tax})
  BY <1>3, <1>5
<1>7. \A i \in DOMAIN tax : tax[i] = <<tax[i][1], tax[i][2]>>
  BY <1>4
<1>8. \A i, j \in DOMAIN tax : tax[i][2] = tax[j][2] => i = j
  BY <1>2, <1>4
<1> QED
  BY <1>6, <1>7, <1>8 DEF TaxInv

-----------------------------------------------------------------------------
(* All the parts: the invariant of each while the behaviour is of it.      *)

StageRunInv == StageInv /\ LiveReads /\ Traced

AccessInv ==
    /\ part = "journal"     => JournalInv
    /\ part = "stage"       => StageRunInv
    /\ part = "server"      => ServerInv
    /\ part = "application" => AppInv
    /\ part = "answers"     => AnswerInv
    /\ part = "projections" => MetaInv
    /\ part = "repair"      => RepairInv /\ TaxInv
    /\ part = "migration"   => CopyInv
    /\ part = "ingest"      => DocumentInv

LEMMA AccessInit == ASSUME Init PROVE AccessInv
<1>1. S!Init => LiveReads /\ Traced
  BY DEF S!Init, LiveReads, Traced, Begun
<1>2. O!Init => AppInv
  BY DEF O!Init, AppInv, O!EffectsAreGranted, JobIsGranted
<1>3. J!Init => JournalInv
  BY Assumptions, JournalInit DEF Assumptions
<1>4. S!Init => StageRunInv
  BY <1>1, Assumptions, StageInit DEF Assumptions, StageRunInv
<1>5. K!Init => ServerInv
  BY Assumptions, ServerInit DEF Assumptions
<1>6. A!Init => AnswerInv
  BY Assumptions, AnswerInit DEF Assumptions
<1>7. P!Init => MetaInv
  BY Assumptions, MetaInit DEF Assumptions
<1>8. R!Init => RepairInv /\ TaxInv
  BY Assumptions, RepairInit, TaxInit DEF Assumptions
<1>9. G!Init => CopyInv
  BY Assumptions, CopyInit DEF Assumptions
<1>10. I!Init => DocumentInv
  BY Assumptions, DocumentInit DEF Assumptions
<1> QED
  BY <1>2, <1>3, <1>4, <1>5, <1>6, <1>7, <1>8, <1>9, <1>10 DEF Init, AccessInv

\* Each part keeps its invariant, by its own steps and while it is left alone.
LEMMA StageRunStep ==
  ASSUME StageRunInv, [S!Next]_stageVars PROVE StageRunInv'
<1>1. S!Assumptions
  BY Assumptions DEF Assumptions
<1>2. S!TypeOK' /\ LinksLeft'
  BY <1>1, StageTypes DEF StageRunInv, StageInv
<1>3. S!Trusted' => PidfileIsOwners'
  BY <1>1, StageOwners DEF StageRunInv, StageInv
<1>4. LiveReads' /\ Traced'
  BY <1>1, LiveStep, TracedStep DEF StageRunInv
<1> QED
  BY <1>2, <1>3, <1>4 DEF StageRunInv, StageInv

LEMMA AccessStep == ASSUME AccessInv, [Next]_vars PROVE AccessInv'
<1>1. UNCHANGED part
  BY DEF Next, vars
<1>2. CASE part = "journal"
  <2>1. [J!Next]_journalVars
    BY <1>2 DEF Next, vars
  <2> QED
    BY <1>1, <1>2, <2>1, Assumptions, JournalStep DEF AccessInv, Assumptions
<1>3. CASE part = "stage"
  <2>1. [S!Next]_stageVars
    BY <1>3 DEF Next, vars
  <2> QED
    BY <1>1, <1>3, <2>1, StageRunStep DEF AccessInv
<1>4. CASE part = "server"
  <2>1. [K!Next]_serverVars
    BY <1>4 DEF Next, vars
  <2>2. ServerInv'
    BY <1>4, <2>1, Assumptions, ServerStep DEF AccessInv, Assumptions
  <2> QED
    BY <1>1, <1>4, <2>2 DEF AccessInv
<1>5. CASE part = "application"
  <2>1. [O!Next]_appVars
    BY <1>5 DEF Next, vars
  <2>2. AppInv'
    BY <1>5, <2>1, Assumptions, AppStep DEF AccessInv, Assumptions
  <2> QED
    BY <1>1, <1>5, <2>2 DEF AccessInv
<1>6. CASE part = "answers"
  <2>1. [A!Next]_answerVars
    BY <1>6 DEF Next, vars
  <2>2. AnswerInv'
    BY <1>6, <2>1, Assumptions, AnswerStep DEF AccessInv, Assumptions
  <2> QED
    BY <1>1, <1>6, <2>2 DEF AccessInv
<1>7. CASE part = "projections"
  <2>1. [P!Next]_metaVars
    BY <1>7 DEF Next, vars
  <2>2. MetaInv'
    BY <1>7, <2>1, Assumptions, MetaStep DEF AccessInv, Assumptions
  <2> QED
    BY <1>1, <1>7, <2>2 DEF AccessInv
<1>8. CASE part = "repair"
  <2>1. [R!Next]_repairVars
    BY <1>8 DEF Next, vars
  <2>2. RepairInv'
    BY <1>8, <2>1, Assumptions, RepairStep DEF AccessInv, Assumptions
  <2>3. IsFiniteSet(RepairNames)
    <3>1. R!IsFiniteSet(RepairNames)
      BY Assumptions DEF Assumptions, R!Assumptions
    <3> QED
      BY <3>1 DEF R!IsFiniteSet, IsFiniteSet
  <2>4. TaxInv'
    BY <1>8, <2>1, <2>3, TaxStep DEF AccessInv
  <2> QED
    BY <1>1, <1>8, <2>2, <2>4 DEF AccessInv
<1>9. CASE part = "migration"
  <2>1. [G!Next]_copyVars
    BY <1>9 DEF Next, vars
  <2>2. CopyInv'
    BY <1>9, <2>1, Assumptions, CopyStep DEF AccessInv, Assumptions
  <2> QED
    BY <1>1, <1>9, <2>2 DEF AccessInv
<1>10. CASE part = "ingest"
  <2>1. [I!Next]_ingestVars
    BY <1>10 DEF Next, vars
  <2>2. DocumentInv'
    BY <1>10, <2>1, Assumptions, DocumentStep DEF AccessInv, Assumptions
  <2> QED
    BY <1>1, <1>10, <2>2 DEF AccessInv
<1>11. CASE part \notin {"journal", "stage", "server", "application", "answers",
                        "projections", "repair", "migration", "ingest"}
  BY <1>1, <1>11 DEF AccessInv
<1> QED
  BY <1>2, <1>3, <1>4, <1>5, <1>6, <1>7, <1>8, <1>9, <1>10, <1>11

\* The strengthening holds in every reachable state.
THEOREM Invariant == Spec => []AccessInv
<1>1. Init => AccessInv
  BY AccessInit
<1>2. AccessInv /\ [Next]_vars => AccessInv'
  BY AccessStep
<1> QED
  BY <1>1, <1>2, PTL DEF Spec

\* The type invariants of the parts, with the locks, leases, permits and rows
\* that go with each step (compat_io.rs, lock.py, http.rs, answers.rs).
THEOREM TypesCorrect == Spec => []TypesOK
<1>1. JournalInv => J!TypeOK
  BY JournalTyped DEF JournalInv
<1>2. StageRunInv => S!TypeOK
  BY DEF StageRunInv, StageInv
<1>3. ServerInv => K!TypeOK
  BY DEF ServerInv
<1>4. AccessInv => TypesOK
  BY <1>1, <1>2, <1>3, AnswerTyped DEF AccessInv, TypesOK
<1> QED
  BY <1>4, Invariant, PTL

\* A write refused as Busy or for a conflict has no row and no effect, whatever
\* is replayed later (compat_io.rs); and whoever asked for what was done, and
\* did it, had the capability for each effect (application.rs).
THEOREM RefusalsHaveNoEffect == Spec => []RefusedHasNoEffect
<1>1. JournalInv => J!RefusedHasNoEffect
  BY DEF JournalInv, ValuesAreOwn, J!RefusedHasNoEffect
<1>2. AppInv => O!EffectsAreGranted
  BY DEF AppInv
<1>3. AccessInv => RefusedHasNoEffect
  BY <1>1, <1>2 DEF AccessInv, RefusedHasNoEffect
<1> QED
  BY <1>3, Invariant, PTL

\* Two threads never hold a stage together (lock.py), if all are native, or if no
\* pidfile was broken by force and none by a breaker that judged one which had been
\* replaced since it was read; an id names the one question that has it, permits in
\* use and permits left are those the server began with, and only its own caller
\* cancels a question (http.rs).
THEOREM HeldByOne == Spec => []Exclusive
<1>1. ASSUME StageRunInv PROVE S!Exclusive
  <2>1. CASE S!Trusted
    BY <1>1, <2>1 DEF StageRunInv, StageInv, S!Exclusive, PidfileIsOwners, Owning, S!Holding
  <2>2. CASE native = Pids
    BY <1>1, <2>2, Assumptions
    DEF Assumptions, StageRunInv, StageInv, S!TypeOK, S!Exclusive, S!Holding, S!IsNative,
        S!Assumptions
  <2> QED
    BY <2>1, <2>2 DEF S!Exclusive, S!Guarded
<1>2. ServerInv => K!RegistryIsExact /\ K!PermitsReturn /\ K!CancelledByOwn
  BY DEF ServerInv
<1>3. AccessInv => Exclusive
  BY <1>1, <1>2 DEF AccessInv, Exclusive
<1> QED
  BY <1>3, Invariant, PTL

\* While a thread runs a stage its log says so, and while the log says so of a
\* run that died its pidfile is there to be found stale, unless the event that
\* resolves it was lost (driver.py, state.py, lock.py); if no pidfile was broken
\* as in HeldByOne.
THEOREM LogIsOfRuns == Spec => []LogTellsRuns
<1>1. ASSUME StageRunInv PROVE S!LiveRunReadsRunning /\ S!DeadRunIsTraced
  <2>1. S!Status = "running" <=> Begun
    BY <1>1, RunningIsBegun DEF StageRunInv, StageInv, S!TypeOK
  <2>2. S!LiveRunReadsRunning
    BY <1>1, <2>1 DEF StageRunInv, LiveReads, S!LiveRunReadsRunning
  <2>3. S!DeadRunIsTraced
    BY <1>1, <2>1 DEF StageRunInv, Traced, S!DeadRunIsTraced
  <2> QED
    BY <2>2, <2>3
<1>2. AccessInv => LogTellsRuns
  BY <1>1 DEF AccessInv, LogTellsRuns
<1> QED
  BY <1>2, Invariant, PTL

\* No write and no replay puts bytes over those of a write that took the file's
\* lock later, and the image a row keeps is what its write replaced
\* (compat_io.rs, recovery.rs).
THEOREM WritesKeepOrder == Spec => JournalKeepsOrder
<1>1. ASSUME AccessInv, [Next]_vars PROVE [OrderedStep]_vars
  <2>1. SUFFICES ASSUME part = "journal", vars' # vars PROVE OrderedStep
    BY DEF OrderedStep
  <2>2. J!Next /\ UNCHANGED <<part, stageVars, serverVars, appVars, answerVars, metaVars,
                                repairVars, copyVars, ingestVars>>
    BY <1>1, <2>1 DEF Next
  <2>3. journalVars' # journalVars
    BY <2>1, <2>2 DEF vars
  <2>4. J!NeverBackStep
    BY <1>1, <2>1, <2>2, <2>3, Assumptions, JournalStep DEF AccessInv, Assumptions
  <2>5. J!ImageIsReplacedStep
    BY <1>1, <2>1 DEF AccessInv, JournalInv, InOrder, WorkInOrder, J!ImageIsReplacedStep, J!At
  <2> QED
    BY <2>4, <2>5 DEF OrderedStep
<1> QED
  BY <1>1, Invariant, PTL DEF Spec, JournalKeepsOrder

\* A note, and an article promoted of an answer, is as restricted as each file
\* its answer cites is at the moment of the write and was when it was cited,
\* where flags are ranked no lower than the policy has them (answers.rs,
\* apply_draft of compile.rs).
THEOREM AnswersStayRestricted == WellFormedFlags => (Spec => AnswersAsRestrictive)
<1> SUFFICES ASSUME WellFormedFlags PROVE Spec => AnswersAsRestrictive
  OBVIOUS
<1>1. ASSUME AccessInv, [Next]_vars PROVE [RestrictiveStep]_vars
  <2>1. CASE part = "answers"
    <3>1. [A!Next]_answerVars
      BY <1>1, <2>1 DEF Next, vars
    <3>2. A!WritesNoLess /\ A!AppliesNoLess
      BY <1>1, <2>1, <3>1, Assumptions, AnswersRestrict DEF AccessInv, Assumptions
    <3> QED
      BY <3>2 DEF RestrictiveStep
  <2> QED
    BY <2>1 DEF RestrictiveStep
<1> QED
  BY <1>1, Invariant, PTL DEF Spec, AnswersAsRestrictive

\* A manifest in place describes the files beside it, each being what it lists,
\* a person's, or of a later batch: in every crash and whoever replays
\* (rebuild_metadata_inner, recover_projections_locked of maintenance.rs).
THEOREM ManifestsDescribe == Spec => []WholeGeneration
<1>1. MetaInv => P!WholeGeneration
  BY DEF MetaInv, InPlace, P!WholeGeneration
<1>2. AccessInv => WholeGeneration
  BY <1>1 DEF AccessInv, WholeGeneration
<1> QED
  BY <1>2, Invariant, PTL

\* What one step of the program does to a derived file.
LEMMA DerivedStep ==
  ASSUME AccessInv, [Next]_vars, part = "projections"
  PROVE  P!KeepsReplaced /\ P!InstallsFresh
<1>1. [P!Next]_metaVars
  BY DEF Next, vars
<1> QED
  BY <1>1, Assumptions, MetaReplaces DEF AccessInv, Assumptions

\* What the program takes out of a generated file or of the trails, a person's
\* version too, is a revision by then (install_projection of maintenance.rs).
THEOREM RevisionsKept == Spec => ReplacedIsKept
<1>1. ASSUME AccessInv, [Next]_vars
      PROVE  [part = "projections" => P!KeepsReplaced]_vars
  BY <1>1, DerivedStep
<1> QED
  BY <1>1, Invariant, PTL DEF Spec, ReplacedIsKept

\* A model's text goes into a file only while every article it was made from is
\* as the model saw it, in its row and on disk, and public, however late and by
\* whom it is carried out (recover_projections_locked of maintenance.rs).
THEOREM InstalledIsFresh == Spec => FreshWhenInstalled
<1>1. ASSUME AccessInv, [Next]_vars
      PROVE  [part = "projections" => P!InstallsFresh]_vars
  BY <1>1, DerivedStep
<1> QED
  BY <1>1, Invariant, PTL DEF Spec, FreshWhenInstalled

\* In a repair with public inputs nothing that was ever in a private article gets
\* into a public one, its stub or what is generated of it, whoever hides articles
\* in the meantime (maintenance_repair.rs).
THEOREM PublicRepairsLeakNothing ==
  Spec => [](part = "repair" /\ ~private_inputs => R!VisibilityKept)
<1>1. ASSUME RepairInv, Careful PROVE R!VisibilityKept
  BY <1>1 DEF RepairInv, AllTight, Tight, Bans, Forbidden, R!VisibilityKept
<1>2. AccessInv => (part = "repair" /\ ~private_inputs => R!VisibilityKept)
  BY <1>1 DEF AccessInv, Careful
<1> QED
  BY <1>2, Invariant, PTL

\* Nor in one with private inputs, if nobody hides an article while it is carried
\* out and none looks like two others: a merge asks once whether its two articles
\* are as private as each other, in its snapshot (deduplicate).
THEOREM NothingPrivateLeaks ==
  TRUE \notin Hides /\ PairsApart /\ NoneIsNoArticle => (Spec => []VisibilityKept)
<1> SUFFICES ASSUME TRUE \notin Hides, PairsApart, NoneIsNoArticle
             PROVE  Spec => []VisibilityKept
  OBVIOUS
<1>1. RepairInv => R!VisibilityKept
  BY DEF RepairInv, Careful, AllTight, Tight, Bans, Forbidden, R!VisibilityKept
<1>2. AccessInv => VisibilityKept
  BY <1>1 DEF AccessInv, VisibilityKept
<1> QED
  BY <1>2, Invariant, PTL

\* A repair that says it failed, or was cancelled, has changed no article, also
\* when an error threw away the notes of the stage that had (finish of
\* maintenance_repair.rs).  A copy with a receipt that it is complete is as its
\* manifest, file by file, as long as nobody used the copy and the source was not
\* changed twice over a file; what was restored is what the snapshot recorded; and
\* a copy cut short has a receipt (copy_first of migration.rs).  A job that brought
\* documents succeeds only with all of them, is partial only with some accepted
\* and some not, fails only with none written or a library that cannot be indexed;
\* and every document written had its original (accept_adapter_reply of plugins.rs,
\* ingest.rs).
THEOREM StatusesAreHonest == Spec => []StatusIsHonest
<1>1. RepairInv => R!StatusIsHonest
  BY DEF RepairInv, RepairHonest, R!StatusIsHonest
<1>2. CopyInv => G!CopiesAreWhole
  BY CopyWhole, Assumptions DEF Assumptions
<1>3. DocumentInv => I!JobIsHonest /\ I!OriginalIsStored
  BY DocumentsHonest
<1>4. AccessInv => StatusIsHonest
  BY <1>1, <1>2, <1>3 DEF AccessInv, StatusIsHonest
<1> QED
  BY <1>4, Invariant, PTL

\* What a merge deletes is, word for word, in the article it keeps, whatever
\* people did since it was read (deduplicate); a refresh of the taxonomy lists
\* every public article, none twice, and leaves each under the category it is in
\* (refresh_taxonomy); and without Private no private source is changed and none is
\* made (source_write, source_delete and source_rename of application.rs).
THEOREM WritesLoseNothing == NoneIsNoArticle => (Spec => WritesKeep)
<1> SUFFICES ASSUME NoneIsNoArticle PROVE Spec => WritesKeep
  OBVIOUS
<1>1. ASSUME AccessInv, [Next]_vars PROVE [KeepingStep]_vars
  <2>1. CASE part = "repair"
    <3>1. [R!Next]_repairVars
      BY <1>1, <2>1 DEF Next, vars
    <3>2. R!PreservesContent
      BY <1>1, <2>1, <3>1, Assumptions, RepairPreserves DEF AccessInv, Assumptions
    <3>3. IsFiniteSet(RepairNames)
      <4>1. R!IsFiniteSet(RepairNames)
        BY Assumptions DEF Assumptions, R!Assumptions
      <4> QED
        BY <4>1 DEF R!IsFiniteSet, IsFiniteSet
    <3>4. R!KeepsPlaces
      BY <1>1, <2>1, <3>1, <3>3, TaxStep DEF AccessInv
    <3> QED
      BY <2>1, <3>2, <3>4 DEF KeepingStep
  <2>2. CASE part = "application"
    <3>1. SUFFICES ASSUME vars' # vars PROVE O!PrivateLeftAlone
      BY <2>2 DEF KeepingStep
    <3>2. O!Next /\ UNCHANGED <<part, journalVars, stageVars, serverVars, answerVars,
                                metaVars, repairVars, copyVars, ingestVars>>
      BY <1>1, <2>2, <3>1 DEF Next
    <3>3. appVars' # appVars
      BY <3>1, <3>2 DEF vars
    <3>4. [O!PrivateLeftAlone]_appVars
      BY <1>1, <2>2, <3>2, Assumptions, AppStep DEF AccessInv, Assumptions
    <3> QED
      BY <3>3, <3>4
  <2> QED
    BY <2>1, <2>2 DEF KeepingStep
<1> QED
  BY <1>1, Invariant, PTL DEF Spec, WritesKeep
=============================================================================
