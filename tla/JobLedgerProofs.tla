--------------------------- MODULE JobLedgerProofs ---------------------------
(***************************************************************************)
(* Theorems about JobLedger, for every set of jobs, handles and tokens and *)
(* every lease length and clock bound the assumptions allow.               *)
(***************************************************************************)
EXTENDS JobLedger, FiniteSetTheorems, SequenceTheorems, TLAPS

-----------------------------------------------------------------------------
(***************************************************************************)
(* The rows and leases the statements build.                               *)
(***************************************************************************)

\* The delay before a retried job may be claimed is a number of seconds.
LEMMA BackoffType == ASSUME NEW n \in Nat PROVE Backoff(n) \in Nat
  BY DEF Backoff

\* Ending an attempt leaves a well-formed row.
LEMMA ReleasedType ==
  ASSUME NEW r \in Row, NEW s \in Statuses \ {"running"}
  PROVE  /\ Released(r, s) \in Row
         /\ Released(r, s).status = s
         /\ Released(r, s).attempts = r.attempts
         /\ Released(r, s).max = r.max
         /\ Released(r, s).result = r.result
         /\ Released(r, s).token = NoToken
  BY DEF Row, Released, Moved, Null

\* Starting an attempt leaves a well-formed row that the new token owns.
LEMMA StartedType ==
  ASSUME NEW r \in Row, NEW t \in Tokens, NEW u \in Nat
  PROVE  /\ Started(r, t, u) \in Row
         /\ Started(r, t, u).status = "running"
         /\ Started(r, t, u).attempts = r.attempts + 1
         /\ Started(r, t, u).max = r.max
         /\ Started(r, t, u).result = r.result
         /\ Started(r, t, u).token = t
  BY SentinelAssumption DEF Row, Started, Moved, Statuses, Outcomes, Null

\* A renewed lease is a well-formed row too.
LEMMA RenewedType ==
  ASSUME NEW r \in Row, r.status = "running", NEW u \in Nat
  PROVE  /\ [r EXCEPT !.until = u] \in Row
         /\ [r EXCEPT !.until = u].status = r.status
         /\ [r EXCEPT !.until = u].attempts = r.attempts
         /\ [r EXCEPT !.until = u].max = r.max
         /\ [r EXCEPT !.until = u].result = r.result
         /\ [r EXCEPT !.until = u].token = r.token
  BY DEF Row

\* A lease that starts at a clock value a handle read ends at a later second.
LEMMA LeaseEnds ==
  ASSUME TypeOK, NEW h \in Handles, clock[h] # Null
  PROVE  clock[h] \in Nat /\ clock[h] + Lease \in Nat
<1>1. Lease \in Nat
  BY NumberAssumption
<1> QED
  BY <1>1 DEF TypeOK, Null

-----------------------------------------------------------------------------
(***************************************************************************)
(* Type correctness.                                                       *)
(***************************************************************************)

\* Every transition keeps the types and the row shape.
LEMMA TypeStep == TypeOK /\ [Next]_vars => TypeOK'
<1> SUFFICES ASSUME TypeOK, [Next]_vars PROVE TypeOK'
  OBVIOUS
<1> USE SentinelAssumption, NumberAssumption
<1>0. Lease \in Nat \ {0} /\ Budgets \subseteq Nat \ {0}
  OBVIOUS
<1>a. \A h \in Handles : clock[h] # Null => clock[h] \in Nat /\ clock[h] + Lease \in Nat
  BY <1>0 DEF TypeOK, Null
<1>b. \A e \in Events, j \in Jobs : Append(events[j], e) \in Seq(Events)
  BY DEF TypeOK
<1>c. ASSUME NEW h \in Handles, Used(h) 
      PROVE  /\ clock' \in [Handles -> Int]
             /\ \A g \in Handles : clock'[g] = Null \/ clock'[g] >= 0
  BY <1>c DEF Used, TypeOK, Null
<1>d. ASSUME NEW j \in Jobs, NEW e \in Events, Log(j, e) PROVE events' \in [Jobs -> Seq(Events)]
  BY <1>d, <1>b DEF Log, TypeOK
<1>e. ASSUME NEW t \in Tokens, NEW j \in Jobs, NEW n \in Nat, NEW h \in Handles
      PROVE  [held EXCEPT ![t] = [job |-> j, attempt |-> n, by |-> h]]
               \in [Tokens -> HeldLease]
  BY DEF TypeOK, HeldLease
<1>1. CASE Tick
  BY <1>1 DEF Tick, TypeOK
<1>2. ASSUME NEW h \in Handles, ReadClock(h) PROVE TypeOK'
  BY <1>2 DEF ReadClock, TypeOK
<1>3. ASSUME NEW h \in Handles, GiveUp(h) PROVE TypeOK'
  BY <1>3, <1>c DEF GiveUp, TypeOK
<1>4. ASSUME NEW h \in Handles, NEW wanted \in SUBSET Jobs, ClaimNothing(h, wanted)
      PROVE TypeOK'
  <2>1. \A j \in Jobs : Released(row[j], "interrupted") \in Row
    BY ReleasedType DEF TypeOK, Statuses
  <2>2. row' \in [Jobs -> Row]
    BY <1>4, <2>1 DEF ClaimNothing, TypeOK
  <2>3. events' \in [Jobs -> Seq(Events)]
    BY <1>4, <1>b DEF ClaimNothing, TypeOK, Events
  <2> QED
    BY <1>4, <2>2, <2>3, <1>c DEF ClaimNothing, TypeOK
<1>5. ASSUME NEW h \in Handles, NEW wanted \in SUBSET Jobs,
             NEW j \in Jobs, NEW t \in Tokens, ClaimJob(h, wanted, j, t)
      PROVE TypeOK'
  <2>0. clock[h] # Null
    BY <1>5 DEF ClaimJob
  <2>1. \A i \in Jobs : Released(row[i], "interrupted") \in Row
    BY ReleasedType DEF TypeOK, Statuses
  <2>2. Started(row[j], t, clock[h] + Lease) \in Row
    BY <2>0, <1>a, StartedType DEF TypeOK
  <2>3. row' \in [Jobs -> Row]
    BY <1>5, <2>1, <2>2 DEF ClaimJob, TypeOK
  <2>4. events' \in [Jobs -> Seq(Events)]
    <3>1. \A i \in Jobs : /\ events[i] \in Seq(Events)
                          /\ Append(events[i], "interrupted") \in Seq(Events)
                          /\ Append(events[i], "start") \in Seq(Events)
      BY <1>b DEF TypeOK, Events
    <3> QED
      BY <1>5, <3>1 DEF ClaimJob
  <2>5. row[j].attempts + 1 \in Nat
    BY DEF TypeOK, Row
  <2>6. held' \in [Tokens -> HeldLease]
    BY <1>5, <1>e, <2>5 DEF ClaimJob
  <2> QED
    BY <1>5, <2>3, <2>4, <2>6, <1>c DEF ClaimJob, TypeOK
<1>6. ASSUME NEW j \in Jobs, NEW b \in Budgets, Enqueue(j, b) PROVE TypeOK'
  <2>1. [status |-> "queued", attempts |-> 0, max |-> b, available |-> now,
         until |-> Null, token |-> NoToken, result |-> NoToken] \in Row
    BY <1>6 DEF Enqueue, TypeOK, Row, Statuses, Outcomes, Null
  <2>2. row' \in [Jobs -> Row]
    BY <1>6, <2>1 DEF Enqueue, TypeOK
  <2> QED
    BY <1>6, <2>2, <1>d DEF Enqueue, TypeOK, Events
<1>7. ASSUME NEW h \in Handles, NEW j \in Jobs, NEW b \in Budgets, NEW t \in Tokens,
             EnqueueRunning(h, j, b, t)
      PROVE TypeOK'
  <2>1. clock[h] \in Nat /\ clock[h] + Lease \in Nat
    BY <1>7, <1>a DEF EnqueueRunning
  <2>2. [status |-> "running", attempts |-> 1, max |-> b, available |-> clock[h],
         until |-> clock[h] + Lease, token |-> t, result |-> NoToken] \in Row
    BY <2>1 DEF Row, Statuses, Outcomes, Null
  <2>3. row' \in [Jobs -> Row]
    BY <1>7, <2>2 DEF EnqueueRunning, TypeOK
  <2>4. events[j] \o <<"queued", "start">> \in Seq(Events)
    BY DEF TypeOK, Events
  <2>5. events' \in [Jobs -> Seq(Events)]
    BY <1>7, <2>4 DEF EnqueueRunning, TypeOK
  <2>6. held' \in [Tokens -> HeldLease]
    BY <1>7, <1>e DEF EnqueueRunning
  <2> QED
    BY <1>7, <2>3, <2>5, <2>6, <1>c DEF EnqueueRunning, TypeOK
<1>8. ASSUME NEW h \in Handles, NEW t \in Tokens, Heartbeat(h, t) PROVE TypeOK'
  <2>1. clock[h] + Lease \in Nat /\ held[t].job \in Jobs
    BY <1>8, <1>a DEF Heartbeat, Owns, Issued
  <2>2. [row[held[t].job] EXCEPT !.until = clock[h] + Lease] \in Row
    <3>1. row[held[t].job] \in Row /\ row[held[t].job].status = "running"
      BY <1>8, <2>1 DEF Heartbeat, Owns, TypeOK
    <3> QED
      BY <3>1, <2>1, RenewedType
  <2>3. row' \in [Jobs -> Row]
    BY <1>8, <2>1, <2>2 DEF Heartbeat, TypeOK
  <2> QED
    BY <1>8, <2>3, <1>c DEF Heartbeat, TypeOK
<1>9. ASSUME NEW t \in Tokens, NEW outcome \in Outcomes, NEW value \in {t, NoToken},
             Finish(t, outcome, value)
      PROVE TypeOK'
  <2>1. held[t].job \in Jobs
    BY <1>9 DEF Finish, ValidReport, Owns, Issued
  <2>2. Released(row[held[t].job], outcome) \in Row
    BY <2>1, ReleasedType DEF TypeOK, Outcomes, Statuses
  <2>3. [Released(row[held[t].job], outcome) EXCEPT !.result = value] \in Row
    BY <2>2 DEF Row
  <2>4. row' \in [Jobs -> Row]
    BY <1>9, <2>1, <2>3 DEF Finish, TypeOK
  <2>5. (IF outcome = "succeeded" THEN "ok" ELSE outcome) \in Events
    BY DEF Outcomes, Events
  <2>6. events' \in [Jobs -> Seq(Events)]
    BY <1>9, <2>1, <2>5, <1>d DEF Finish
  <2> QED
    BY <1>9, <2>4, <2>6 DEF Finish, TypeOK
<1>10. ASSUME NEW j \in Jobs, Cancel(j) PROVE TypeOK'
  <2>1. Released(row[j], "cancelled") \in Row
    BY ReleasedType DEF TypeOK, Statuses, Outcomes
  <2>2. row' \in [Jobs -> Row]
    BY <1>10, <2>1 DEF Cancel, TypeOK
  <2> QED
    BY <1>10, <2>2, <1>d DEF Cancel, TypeOK, Events
<1>11. ASSUME NEW j \in Jobs, Retry(j) PROVE TypeOK'
  <2>1. now + Backoff(row[j].attempts) \in Nat
    <3>1. now \in Nat /\ row[j].attempts \in Nat
      BY DEF TypeOK, Row
    <3>2. Backoff(row[j].attempts) \in Nat
      BY <3>1, BackoffType
    <3> QED
      BY <3>1, <3>2
  <2>0. Released(row[j], "queued") \in Row
    BY ReleasedType DEF TypeOK, Statuses
  <2>2. [Released(row[j], "queued") EXCEPT !.available = now + Backoff(row[j].attempts)]
          \in Row
    BY <2>0, <2>1 DEF Row
  <2>3. row' \in [Jobs -> Row]
    BY <1>11, <2>2 DEF Retry, CanRetry, TypeOK
  <2> QED
    BY <1>11, <2>3, <1>d DEF Retry, TypeOK, Events
<1>12. CASE UNCHANGED vars
  BY <1>12 DEF vars, TypeOK
<1> QED
  BY <1>1, <1>2, <1>3, <1>4, <1>5, <1>6, <1>7, <1>8, <1>9, <1>10, <1>11, <1>12
     DEF Next, Claim

\* The ledger's tables and leases always have the shapes the code reads back.
THEOREM TypeCorrect == Spec => []TypeOK
<1>1. Init => TypeOK
  BY SentinelAssumption
     DEF Init, TypeOK, Row, HeldLease, Statuses, Outcomes, Events, NoRow, NoLease, Null
<1>2. QED
  BY <1>1, TypeStep, PTL DEF Spec

-----------------------------------------------------------------------------
(***************************************************************************)
(* The inductive invariant.  LatestLeaseOwns alone is not inductive: that  *)
(* a new attempt outranks every lease already handed out needs the bound   *)
(* on those leases' attempt numbers (Ranked), also while the job waits in  *)
(* the queue; that an inline job starts with no older lease needs the      *)
(* absent rows to have none.                                               *)
(***************************************************************************)
Budgeted(j) == /\ row[j].attempts <= row[j].max
               /\ row[j].status = "queued" => row[j].attempts < row[j].max
Ranked(j)   == \A t \in Tokens : held[t].job = j =>
                  /\ row[j].status # "absent"
                  /\ held[t].attempt <= row[j].attempts
Fenced(j)   == row[j].status = "running" =>
                 /\ held[row[j].token].job = j
                 /\ held[row[j].token].attempt = row[j].attempts
                 /\ \A t \in Tokens : held[t].job = j /\ t # row[j].token =>
                       held[t].attempt < row[j].attempts
Sourced(j)  == /\ row[j].result # NoToken => held[row[j].result].job = j
               /\ row[j].status = "succeeded" =>
                     /\ row[j].result # NoToken
                     /\ held[row[j].result].attempt = row[j].attempts
Counted(j)  == /\ IsFiniteSet(LeasesOf(j))
               /\ Cardinality(LeasesOf(j)) = row[j].attempts

JobInv(j)   == Budgeted(j) /\ Ranked(j) /\ Fenced(j) /\ Sourced(j) /\ Counted(j)

IInv == TypeOK /\ \A j \in Jobs : JobInv(j)

\* A job whose leases stay and whose row keeps every column the invariant
\* speaks of keeps the invariant.  (An untouched row, and a renewed lease.)
LEMMA FrameJob ==
  ASSUME TypeOK, NEW i \in Jobs, JobInv(i),
         row'[i].status = row[i].status, row'[i].attempts = row[i].attempts,
         row'[i].max = row[i].max, row'[i].token = row[i].token,
         row'[i].result = row[i].result,
         \A t \in Tokens : held[t].job = i \/ held'[t].job = i => held'[t] = held[t]
  PROVE  JobInv(i)'
<1>1. LeasesOf(i)' = LeasesOf(i)
  BY DEF LeasesOf
<1>2. row[i].status = "running" => row[i].token \in Tokens
  BY DEF TypeOK, Row
<1>3. row[i].result # NoToken => row[i].result \in Tokens
  BY DEF TypeOK, Row
<1> QED
  BY <1>1, <1>2, <1>3 DEF JobInv, Budgeted, Ranked, Fenced, Sourced, Counted

\* Ending the attempt of an existing job keeps its invariant, when what it
\* stores as a success is what the owner of the row reported.
LEMMA ReleaseJob ==
  ASSUME TypeOK, NEW i \in Jobs, JobInv(i), held' = held,
         row[i].status # "absent", row'[i].status \notin {"absent", "queued", "running"},
         row'[i].attempts = row[i].attempts, row'[i].max = row[i].max,
         \/ row'[i].status # "succeeded" /\ row'[i].result \in {row[i].result, NoToken}
         \/ row[i].status = "running" /\ row'[i].result \in {row[i].token, NoToken}
              /\ (row'[i].status = "succeeded" => row'[i].result = row[i].token)
  PROVE  JobInv(i)'
<1>1. LeasesOf(i)' = LeasesOf(i)
  BY DEF LeasesOf
<1>2. Budgeted(i)' /\ Ranked(i)' /\ Fenced(i)' /\ Counted(i)'
  BY <1>1 DEF JobInv, Budgeted, Ranked, Fenced, Counted
<1>3. row[i].status = "running" => row[i].token # NoToken
  BY DEF TypeOK, Row
<1>4. Sourced(i)'
  BY <1>3 DEF JobInv, Fenced, Sourced
<1> QED
  BY <1>2, <1>4 DEF JobInv

\* The same while another job of the same claim receives a new lease.
LEMMA InterruptJob ==
  ASSUME TypeOK, NEW i \in Jobs, JobInv(i), row[i].status = "running",
         \A t \in Tokens : held[t].job = i \/ held'[t].job = i => held'[t] = held[t],
         row'[i] = Released(row[i], "interrupted")
  PROVE  JobInv(i)'
<1>1. LeasesOf(i)' = LeasesOf(i)
  BY DEF LeasesOf
<1>2. /\ row'[i].status = "interrupted" /\ row'[i].attempts = row[i].attempts
      /\ row'[i].max = row[i].max /\ row'[i].result = row[i].result
  BY ReleasedType DEF TypeOK, Statuses
<1>3. row[i].result # NoToken => row[i].result \in Tokens
  BY DEF TypeOK, Row
<1> QED
  BY <1>1, <1>2, <1>3 DEF JobInv, Budgeted, Ranked, Fenced, Sourced, Counted

\* A job that has no row yet has used no attempt.
LEMMA AbsentJob ==
  ASSUME TypeOK, NEW i \in Jobs, JobInv(i), row[i].status = "absent"
  PROVE  row[i].attempts = 0
<1>1. LeasesOf(i) = {}
  BY DEF JobInv, Ranked, LeasesOf
<1> QED
  BY <1>1, FS_EmptySet DEF JobInv, Counted

\* Putting a job in the queue with an attempt left keeps its invariant.
LEMMA QueueJob ==
  ASSUME TypeOK, NEW i \in Jobs, JobInv(i), held' = held,
         row'[i].status = "queued", row'[i].attempts = row[i].attempts,
         row'[i].attempts < row'[i].max, row'[i].max \in Nat,
         row'[i].result \in {row[i].result, NoToken}
  PROVE  JobInv(i)'
<1>1. LeasesOf(i)' = LeasesOf(i)
  BY DEF LeasesOf
<1>2. row[i].attempts \in Nat
  BY DEF TypeOK, Row
<1> QED
  BY <1>1, <1>2 DEF JobInv, Budgeted, Ranked, Fenced, Sourced, Counted

\* Starting an attempt under a fresh token keeps the invariant: the attempt
\* number it hands out is above that of every lease the job already had.
LEMMA StartJob ==
  ASSUME TypeOK, NEW i \in Jobs, JobInv(i), NEW t \in Tokens, NEW h \in Handles,
         row[i].status # "running", Fresh(t),
         held' = [held EXCEPT ![t] = [job |-> i, attempt |-> row[i].attempts + 1, by |-> h]],
         row'[i].status = "running", row'[i].attempts = row[i].attempts + 1,
         row'[i].attempts <= row'[i].max, row'[i].token = t,
         row'[i].result \in {row[i].result, NoToken}
  PROVE  JobInv(i)'
<1> USE SentinelAssumption
<1>1. held[t].job # i /\ row[i].attempts \in Nat
  BY DEF Fresh, TypeOK, Row
<1>2. held'[t].job = i /\ held'[t].attempt = row[i].attempts + 1
  BY DEF TypeOK
<1>3. \A u \in Tokens \ {t} : held'[u] = held[u]
  BY DEF TypeOK
<1>4. Budgeted(i)'
  BY DEF Budgeted
<1>5. \A u \in Tokens \ {t} : held[u].job = i => held[u].attempt < row[i].attempts + 1
  BY <1>1 DEF JobInv, Ranked, TypeOK, HeldLease
<1>6. Ranked(i)' /\ Fenced(i)'
  BY <1>1, <1>2, <1>3, <1>5 DEF Ranked, Fenced, TypeOK, HeldLease
<1>7. Sourced(i)'
  <2>1. row[i].result # NoToken => row[i].result \in Tokens \ {t}
    BY <1>1 DEF JobInv, Sourced, TypeOK, Row
  <2> QED
    BY <2>1, <1>3 DEF JobInv, Sourced
<1>8. Counted(i)'
  <2>1. LeasesOf(i)' = LeasesOf(i) \cup {t} /\ t \notin LeasesOf(i)
    BY <1>1, <1>2, <1>3 DEF LeasesOf
  <2>2. IsFiniteSet(LeasesOf(i)) /\ Cardinality(LeasesOf(i)) = row[i].attempts
    BY DEF JobInv, Counted
  <2>3. IsFiniteSet(LeasesOf(i) \cup {t})
        /\ Cardinality(LeasesOf(i) \cup {t}) = Cardinality(LeasesOf(i)) + 1
    BY <2>1, <2>2, FS_AddElement
  <2> QED
    BY <2>1, <2>2, <2>3 DEF Counted
<1> QED
  BY <1>4, <1>6, <1>7, <1>8 DEF JobInv

\* Every transition keeps the inductive invariant.
LEMMA InvStep == IInv /\ [Next]_vars => IInv'
<1> SUFFICES ASSUME IInv, [Next]_vars PROVE IInv'
  OBVIOUS
<1>a. TypeOK /\ TypeOK' /\ \A i \in Jobs : JobInv(i) /\ row[i] \in Row
  BY TypeStep DEF IInv, TypeOK
<1>b. ASSUME NEW i \in Jobs, row'[i] = row[i], held' = held PROVE JobInv(i)'
  BY <1>a, <1>b, FrameJob
<1>c. ASSUME NEW i \in Jobs, NEW c, Expired(i, c), held' = held,
             row'[i] = Released(row[i], "interrupted")
      PROVE  JobInv(i)'
  BY <1>a, <1>c, ReleasedType, ReleaseJob DEF Expired, Statuses
<1>1. CASE UNCHANGED <<row, held>>
  BY <1>1, <1>a, <1>b DEF IInv
<1>2. ASSUME NEW h \in Handles, NEW wanted \in SUBSET Jobs, ClaimNothing(h, wanted),
             NEW i \in Jobs
      PROVE  JobInv(i)'
  BY <1>2, <1>b, <1>c DEF ClaimNothing
<1>3. ASSUME NEW h \in Handles, NEW wanted \in SUBSET Jobs,
             NEW j \in Jobs, NEW t \in Tokens, ClaimJob(h, wanted, j, t),
             NEW i \in Jobs
      PROVE  JobInv(i)'
  <2>1. held' = [held EXCEPT ![t] = [job |-> j, attempt |-> row[j].attempts + 1, by |-> h]]
        /\ Fresh(t) /\ row[j].status = "queued" /\ row[j].attempts < row[j].max
    BY <1>3 DEF ClaimJob, Ready
  <2>2. CASE i = j
    <3>1. row'[j] = Started(row[j], t, clock[h] + Lease)
      BY <1>3, <2>1 DEF ClaimJob, Expired
    <3>2. clock[h] + Lease \in Nat
      BY <1>3, <1>a, LeaseEnds DEF ClaimJob
    <3>3. row[j] \in Row /\ row[j].attempts \in Nat /\ row[j].max \in Nat
      BY <1>a DEF Row
    <3>4. /\ row'[j].status = "running" /\ row'[j].attempts = row[j].attempts + 1
          /\ row'[j].max = row[j].max /\ row'[j].result = row[j].result
          /\ row'[j].token = t
      BY <3>1, <3>2, <3>3, StartedType
    <3>5. row'[j].attempts <= row'[j].max
      BY <2>1, <3>3, <3>4
    <3> QED
      BY <1>a, <2>1, <2>2, <3>4, <3>5, StartJob
  <2>3. CASE i # j
    <3>1. \A u \in Tokens : held[u].job = i \/ held'[u].job = i => held'[u] = held[u]
      BY <2>1, <2>3, <1>a, SentinelAssumption DEF Fresh, TypeOK
    <3>2. CASE Expired(i, clock[h])
      <4>1. row'[i] = Released(row[i], "interrupted")
        BY <1>3, <3>2 DEF ClaimJob
      <4> QED
        BY <4>1, <3>1, <3>2, <1>a, ReleasedType, InterruptJob DEF Expired, Statuses
    <3>3. CASE ~ Expired(i, clock[h])
      <4>1. row'[i] = row[i]
        BY <1>3, <3>3, <2>3 DEF ClaimJob
      <4> QED
        BY <4>1, <3>1, <1>a, FrameJob
    <3> QED
      BY <3>2, <3>3
  <2> QED
    BY <2>2, <2>3
<1>4. ASSUME NEW j \in Jobs, NEW b \in Budgets, Enqueue(j, b), NEW i \in Jobs
      PROVE  JobInv(i)'
  <2>1. CASE i = j
    <3>1. row[j].attempts = 0
      BY <1>4, <1>a, AbsentJob DEF Enqueue
    <3>2. b \in Nat \ {0}
      BY NumberAssumption
    <3>3. /\ row'[j].status = "queued" /\ row'[j].attempts = 0
          /\ row'[j].max = b /\ row'[j].result = NoToken /\ held' = held
      BY <1>4, <1>a DEF Enqueue, TypeOK
    <3> QED
      BY <1>a, <2>1, <3>1, <3>2, <3>3, QueueJob
  <2>2. CASE i # j
    BY <1>4, <1>a, <2>2, <1>b DEF Enqueue, TypeOK
  <2> QED
    BY <2>1, <2>2
<1>5. ASSUME NEW h \in Handles, NEW j \in Jobs, NEW b \in Budgets, NEW t \in Tokens,
             EnqueueRunning(h, j, b, t), NEW i \in Jobs
      PROVE  JobInv(i)'
  <2>1. CASE i = j
    <3>1. row[j].attempts = 0 /\ row[j].status = "absent"
      BY <1>5, <1>a, AbsentJob DEF EnqueueRunning
    <3>2. b \in Nat \ {0}
      BY NumberAssumption
    <3>3. /\ row'[j].status = "running" /\ row'[j].attempts = 1
          /\ row'[j].max = b /\ row'[j].result = NoToken /\ row'[j].token = t
      BY <1>5, <1>a DEF EnqueueRunning, TypeOK
    <3>4. held' = [held EXCEPT ![t] = [job |-> j, attempt |-> row[j].attempts + 1, by |-> h]]
          /\ Fresh(t)
      BY <1>5, <3>1 DEF EnqueueRunning
    <3>5. row'[j].attempts = row[j].attempts + 1 /\ row'[j].attempts <= row'[j].max
          /\ row[j].status # "running"
      BY <3>1, <3>2, <3>3
    <3>6. JobInv(j)'
      BY <1>a, <3>3, <3>4, <3>5, StartJob
    <3> QED
      BY <2>1, <3>6
  <2>2. CASE i # j
    <3>1. \A u \in Tokens : held[u].job = i \/ held'[u].job = i => held'[u] = held[u]
      BY <1>5, <2>2, <1>a, SentinelAssumption DEF EnqueueRunning, Fresh, TypeOK
    <3>2. row'[i] = row[i]
      BY <1>5, <2>2, <1>a DEF EnqueueRunning, TypeOK
    <3> QED
      BY <3>1, <3>2, <1>a, FrameJob
  <2> QED
    BY <2>1, <2>2
<1>6. ASSUME NEW h \in Handles, NEW t \in Tokens, Heartbeat(h, t), NEW i \in Jobs
      PROVE  JobInv(i)'
  <2>1. held[t].job \in Jobs /\ row[held[t].job].status = "running" /\ held' = held
        /\ clock[h] + Lease \in Nat
    BY <1>6, <1>a, LeaseEnds DEF Heartbeat, Owns, Issued
  <2>2. CASE i = held[t].job
    <3>1. row'[i] = [row[i] EXCEPT !.until = clock[h] + Lease]
      BY <1>6, <1>a, <2>1, <2>2 DEF Heartbeat, TypeOK
    <3>2. /\ row'[i].status = row[i].status /\ row'[i].attempts = row[i].attempts
          /\ row'[i].max = row[i].max /\ row'[i].result = row[i].result
          /\ row'[i].token = row[i].token
      BY <1>a, <2>1, <2>2, <3>1, RenewedType
    <3> QED
      BY <1>a, <2>1, <3>2, FrameJob
  <2>3. CASE i # held[t].job
    BY <1>6, <1>a, <2>1, <2>3, <1>b DEF Heartbeat, TypeOK
  <2> QED
    BY <2>2, <2>3
<1>7. ASSUME NEW t \in Tokens, NEW outcome \in Outcomes, NEW value \in {t, NoToken},
             Finish(t, outcome, value), NEW i \in Jobs
      PROVE  JobInv(i)'
  <2>1. /\ held[t].job \in Jobs /\ row[held[t].job].status = "running"
        /\ row[held[t].job].token = t /\ held' = held
        /\ outcome = "succeeded" => value = t
    BY <1>7 DEF Finish, ValidReport, Owns, Issued
  <2>2. CASE i = held[t].job
    <3> DEFINE r == Released(row[i], outcome)
    <3>1. row'[i] = [r EXCEPT !.result = value]
      BY <1>7, <1>a, <2>1, <2>2 DEF Finish, TypeOK
    <3>2. /\ r \in Row /\ r.status = outcome /\ r.attempts = row[i].attempts
          /\ r.max = row[i].max
      BY <1>a, ReleasedType DEF Outcomes, Statuses
    <3> HIDE DEF r
    <3>3. /\ row'[i].status = outcome /\ row'[i].attempts = row[i].attempts
          /\ row'[i].max = row[i].max /\ row'[i].result = value
      BY <3>1, <3>2 DEF Row
    <3> QED
      BY <1>a, <2>1, <2>2, <3>3, ReleaseJob DEF Outcomes
  <2>3. CASE i # held[t].job
    BY <1>7, <1>a, <2>1, <2>3, <1>b DEF Finish, TypeOK
  <2> QED
    BY <2>2, <2>3
<1>8. ASSUME NEW j \in Jobs, Cancel(j), NEW i \in Jobs
      PROVE  JobInv(i)'
  <2>1. CASE i = j
    <3>1. row'[j] = Released(row[j], "cancelled") /\ held' = held
          /\ row[j].status # "absent"
      BY <1>8, <1>a DEF Cancel, TypeOK
    <3>2. /\ row'[j].status = "cancelled" /\ row'[j].attempts = row[j].attempts
          /\ row'[j].max = row[j].max /\ row'[j].result = row[j].result
      BY <1>a, <3>1, ReleasedType DEF Statuses, Outcomes
    <3> QED
      BY <1>a, <2>1, <3>1, <3>2, ReleaseJob
  <2>2. CASE i # j
    BY <1>8, <1>a, <2>2, <1>b DEF Cancel, TypeOK
  <2> QED
    BY <2>1, <2>2
<1>9. ASSUME NEW j \in Jobs, Retry(j), NEW i \in Jobs
      PROVE  JobInv(i)'
  <2>1. CASE i = j
    <3> DEFINE r == Released(row[j], "queued")
    <3>1. row'[j] = [r EXCEPT !.available = now + Backoff(row[j].attempts)]
          /\ held' = held /\ row[j].attempts < row[j].max
      BY <1>9, <1>a DEF Retry, CanRetry, TypeOK
    <3>2. /\ r \in Row /\ r.status = "queued" /\ r.attempts = row[j].attempts
          /\ r.max = row[j].max /\ r.result = row[j].result
      BY <1>a, ReleasedType DEF Statuses
    <3> HIDE DEF r
    <3>3. /\ row'[j].status = "queued" /\ row'[j].attempts = row[j].attempts
          /\ row'[j].max = row[j].max /\ row'[j].result = row[j].result
      BY <3>1, <3>2 DEF Row
    <3>4. row[j].max \in Nat
      BY <1>a DEF Row
    <3> QED
      BY <1>a, <2>1, <3>1, <3>3, <3>4, QueueJob
  <2>2. CASE i # j
    BY <1>9, <1>a, <2>2, <1>b DEF Retry, CanRetry, TypeOK
  <2> QED
    BY <2>1, <2>2
<1>10. CASE Tick \/ \E h \in Handles : ReadClock(h) \/ GiveUp(h)
  BY <1>10, <1>1 DEF Tick, ReadClock, GiveUp
<1>11. CASE UNCHANGED vars
  BY <1>11, <1>1 DEF vars
<1>12. ASSUME NEW h \in Handles, Claim(h), NEW i \in Jobs PROVE JobInv(i)'
  BY <1>12, <1>2, <1>3 DEF Claim
<1> QED
  BY <1>a, <1>4, <1>5, <1>6, <1>7, <1>8, <1>9, <1>10, <1>11, <1>12 DEF Next, IInv

\* The inductive invariant holds in every reachable state.
LEMMA Invariant == Spec => []IInv
<1>1. Init => IInv
  <2> SUFFICES ASSUME Init PROVE IInv
    OBVIOUS
  <2>1. TypeOK
    BY SentinelAssumption
       DEF Init, TypeOK, Row, HeldLease, Statuses, Outcomes, Events, NoRow, NoLease, Null
  <2>2. \A j \in Jobs : LeasesOf(j) = {}
    BY SentinelAssumption DEF Init, LeasesOf, NoLease
  <2>3. \A j \in Jobs : JobInv(j)
    <3> SUFFICES ASSUME NEW j \in Jobs PROVE JobInv(j)
      OBVIOUS
    <3>1. /\ row[j].status = "absent" /\ row[j].attempts = 0 /\ row[j].max = 0
          /\ row[j].result = NoToken
      BY DEF Init, NoRow
    <3>2. \A t \in Tokens : held[t].job # j
      BY <2>2 DEF LeasesOf
    <3>3. Counted(j)
      BY <2>2, <3>1, FS_EmptySet DEF Counted
    <3> QED
      BY <3>1, <3>2, <3>3 DEF JobInv, Budgeted, Ranked, Fenced, Sourced
  <2> QED
    BY <2>1, <2>3 DEF IInv
<1> QED
  BY <1>1, InvStep, PTL DEF Spec

\* A lease replaced by a later attempt never matches its row again.
THEOREM Fencing == Spec => []LatestLeaseOwns
<1>1. IInv => LatestLeaseOwns
  BY DEF IInv, JobInv, Fenced, LatestLeaseOwns
<1> QED
  BY <1>1, Invariant, PTL

\* One lease per attempt, never more attempts than max_attempts, and no job is
\* left queued with its budget spent.
THEOREM Budget == Spec => []BudgetHolds
<1>1. IInv => BudgetHolds
  BY DEF IInv, JobInv, Budgeted, Counted, BudgetHolds
<1> QED
  BY <1>1, Invariant, PTL

\* The result of a succeeded job is its last attempt's.
THEOREM SuccessSource == Spec => []SuccessIsFromLastAttempt
<1>1. IInv => SuccessIsFromLastAttempt
  BY DEF IInv, JobInv, Sourced, SuccessIsFromLastAttempt
<1> QED
  BY <1>1, Invariant, PTL

-----------------------------------------------------------------------------
(***************************************************************************)
(* What one step may do.                                                   *)
(***************************************************************************)

\* No handle compares leases with a clock value from the future.
ClocksBehind == \A h \in Handles : clock[h] <= now

\* No transition puts a handle's clock value ahead of the clock.
LEMMA ClockStep == TypeOK /\ ClocksBehind /\ [Next]_vars => ClocksBehind'
<1> SUFFICES ASSUME TypeOK, ClocksBehind, [Next]_vars PROVE ClocksBehind'
  OBVIOUS
<1>0. now \in Nat /\ Null <= now /\ clock \in [Handles -> Int]
  BY DEF TypeOK, Null
<1>1. ASSUME UNCHANGED now, NEW h \in Handles, Used(h) PROVE ClocksBehind'
  BY <1>0, <1>1 DEF ClocksBehind, Used
<1>2. CASE Tick
  BY <1>0, <1>2 DEF Tick, ClocksBehind
<1>3. ASSUME NEW h \in Handles, ReadClock(h) PROVE ClocksBehind'
  BY <1>0, <1>3 DEF ReadClock, ClocksBehind
<1>4. ASSUME NEW h \in Handles, GiveUp(h) \/ Claim(h) PROVE ClocksBehind'
  BY <1>1, <1>4 DEF GiveUp, Claim, ClaimNothing, ClaimJob
<1>5. ASSUME NEW h \in Handles, NEW j \in Jobs, NEW b \in Budgets, NEW t \in Tokens,
             EnqueueRunning(h, j, b, t)
      PROVE  ClocksBehind'
  BY <1>1, <1>5 DEF EnqueueRunning
<1>6. ASSUME NEW h \in Handles, NEW t \in Tokens, Heartbeat(h, t) PROVE ClocksBehind'
  BY <1>1, <1>6 DEF Heartbeat
<1>7. CASE UNCHANGED <<now, clock>>
  BY <1>7 DEF ClocksBehind
<1> QED
  BY <1>2, <1>3, <1>4, <1>5, <1>6, <1>7
     DEF Next, vars, Enqueue, Finish, Cancel, Retry

\* The clock value a handle read is never in the future.
LEMMA ClocksInvariant == Spec => []ClocksBehind
<1>1. Init => ClocksBehind
  BY DEF Init, ClocksBehind, Null
<1> QED
  BY <1>1, ClockStep, TypeCorrect, PTL DEF Spec

\* The ways a step may treat one job: leave it (or renew its lease), write off
\* its lapsed lease, put it in the queue, start an attempt, cancel it, report.
Kept(i) == LeasesOf(i)' = LeasesOf(i) /\ row'[i].result = row[i].result

JobStep(i) ==
  \/ /\ Kept(i) /\ row'[i].status = row[i].status /\ row'[i].token = row[i].token
  \/ /\ Kept(i) /\ row[i].status = "running" /\ row[i].until <= now
     /\ row'[i].status = "interrupted" /\ row'[i].token = NoToken
  \/ /\ Kept(i) /\ row[i].status \in {"absent"} \cup Retryable
     /\ row'[i].status = "queued" /\ row'[i].token = NoToken
  \/ /\ row[i].status \in {"absent", "queued"} /\ row'[i].status = "running"
     /\ row'[i].token \in Tokens \ LeasesOf(i)
     /\ LeasesOf(i)' = LeasesOf(i) \cup {row'[i].token}
     /\ row'[i].result = row[i].result
  \/ /\ Kept(i) /\ row[i].status \in {"queued", "running"}
     /\ row'[i].status = "cancelled" /\ row'[i].token = NoToken
  \/ /\ row[i].status = "running" /\ row[i].until > now
     /\ row'[i].status \in Outcomes /\ row'[i].token = NoToken
     /\ row'[i].result \in {row[i].token, NoToken}
     /\ LeasesOf(i)' = LeasesOf(i)

\* What one transition may do to one job, whichever job it is about.
LEMMA StepOfJob ==
  ASSUME IInv, ClocksBehind, [Next]_vars, NEW i \in Jobs
  PROVE  JobStep(i)
<1>a. TypeOK /\ JobInv(i) /\ row[i] \in Row /\ now \in Nat
  BY DEF IInv, TypeOK
<1>b. ASSUME row'[i] = row[i], held' = held PROVE JobStep(i)
  BY <1>b DEF JobStep, Kept, LeasesOf
<1>c. ASSUME NEW h \in Handles, Expired(i, clock[h]), LeasesOf(i)' = LeasesOf(i),
             clock[h] # Null, row'[i] = Released(row[i], "interrupted")
      PROVE  JobStep(i)
  <2>1. row[i].until <= now
    BY <1>a, <1>c, LeaseEnds DEF Expired, ClocksBehind, Row
  <2>2. row'[i].status = "interrupted" /\ row'[i].token = NoToken
        /\ row'[i].result = row[i].result
    BY <1>a, <1>c, ReleasedType DEF Statuses
  <2> QED
    BY <1>c, <2>1, <2>2 DEF JobStep, Kept, Expired
<1>d. ASSUME NEW j \in Jobs, NEW t \in Tokens, NEW n, NEW h, Fresh(t),
             held' = [held EXCEPT ![t] = [job |-> j, attempt |-> n, by |-> h]]
      PROVE  /\ i # j => LeasesOf(i)' = LeasesOf(i)
             /\ i = j => t \notin LeasesOf(i) /\ LeasesOf(i)' = LeasesOf(i) \cup {t}
  <2>1. held'[t].job = j /\ \A u \in Tokens \ {t} : held'[u] = held[u]
    BY <1>a, <1>d DEF TypeOK
  <2>2. held[t].job # i
    BY <1>d, SentinelAssumption DEF Fresh
  <2> QED
    BY <2>1, <2>2 DEF LeasesOf
<1>1. ASSUME NEW h \in Handles, NEW wanted \in SUBSET Jobs, ClaimNothing(h, wanted)
      PROVE  JobStep(i)
  BY <1>1, <1>b, <1>c DEF ClaimNothing, LeasesOf
<1>2. ASSUME NEW h \in Handles, NEW wanted \in SUBSET Jobs,
             NEW j \in Jobs, NEW t \in Tokens, ClaimJob(h, wanted, j, t)
      PROVE  JobStep(i)
  <2>1. /\ i # j => LeasesOf(i)' = LeasesOf(i)
        /\ i = j => t \notin LeasesOf(i) /\ LeasesOf(i)' = LeasesOf(i) \cup {t}
    BY <1>2, <1>d DEF ClaimJob
  <2>2. CASE i = j
    <3>1. row[j].status = "queued" /\ row'[j] = Started(row[j], t, clock[h] + Lease)
      BY <1>2 DEF ClaimJob, Ready, Expired
    <3>2. clock[h] + Lease \in Nat
      BY <1>2, <1>a, LeaseEnds DEF ClaimJob
    <3>3. row'[j].status = "running" /\ row'[j].token = t /\ row'[j].result = row[j].result
      BY <1>a, <2>2, <3>1, <3>2, StartedType
    <3> QED
      BY <2>1, <2>2, <3>1, <3>3 DEF JobStep
  <2>3. CASE i # j /\ Expired(i, clock[h])
    BY <1>2, <2>1, <2>3, <1>c DEF ClaimJob
  <2>4. CASE i # j /\ ~Expired(i, clock[h])
    BY <1>2, <2>1, <2>4 DEF ClaimJob, JobStep, Kept
  <2> QED
    BY <2>2, <2>3, <2>4
<1>3. ASSUME NEW j \in Jobs, NEW b \in Budgets, Enqueue(j, b) PROVE JobStep(i)
  <2>1. row[i].status = "absent" => row[i].result = NoToken
    BY <1>a DEF JobInv, Ranked, Sourced, Row
  <2>2. held' = held /\ LeasesOf(i)' = LeasesOf(i)
    BY <1>3 DEF Enqueue, LeasesOf
  <2>3. CASE i = j
    BY <1>3, <1>a, <2>1, <2>2, <2>3 DEF Enqueue, JobStep, Kept, TypeOK
  <2>4. CASE i # j
    BY <1>3, <1>a, <1>b, <2>2, <2>4 DEF Enqueue, TypeOK
  <2> QED
    BY <2>3, <2>4
<1>4. ASSUME NEW h \in Handles, NEW j \in Jobs, NEW b \in Budgets, NEW t \in Tokens,
             EnqueueRunning(h, j, b, t)
      PROVE  JobStep(i)
  <2>1. row[i].status = "absent" => row[i].result = NoToken
    BY <1>a DEF JobInv, Ranked, Sourced, Row
  <2>2. /\ i # j => LeasesOf(i)' = LeasesOf(i)
        /\ i = j => t \notin LeasesOf(i) /\ LeasesOf(i)' = LeasesOf(i) \cup {t}
    BY <1>4, <1>d DEF EnqueueRunning
  <2>3. CASE i = j
    <3>1. /\ row[i].status = "absent" /\ row'[i].status = "running"
          /\ row'[i].token = t /\ row'[i].result = NoToken
      BY <1>4, <1>a, <2>3 DEF EnqueueRunning, TypeOK
    <3> QED
      BY <2>1, <2>2, <2>3, <3>1 DEF JobStep
  <2>4. CASE i # j
    <3>1. row'[i] = row[i]
      BY <1>4, <1>a, <2>4 DEF EnqueueRunning, TypeOK
    <3> QED
      BY <2>2, <2>4, <3>1 DEF JobStep, Kept
  <2> QED
    BY <2>3, <2>4
<1>5. ASSUME NEW h \in Handles, NEW t \in Tokens, Heartbeat(h, t) PROVE JobStep(i)
  <2>1. held[t].job \in Jobs /\ row[held[t].job].status = "running" /\ held' = held
        /\ clock[h] + Lease \in Nat
    BY <1>5, <1>a, LeaseEnds DEF Heartbeat, Owns, Issued
  <2>2. CASE i = held[t].job
    <3>1. row'[i] = [row[i] EXCEPT !.until = clock[h] + Lease]
      BY <1>5, <1>a, <2>1, <2>2 DEF Heartbeat, TypeOK
    <3>2. /\ row'[i].status = row[i].status /\ row'[i].result = row[i].result
          /\ row'[i].token = row[i].token
      BY <1>a, <2>1, <2>2, <3>1, RenewedType
    <3> QED
      BY <2>1, <3>2 DEF JobStep, Kept, LeasesOf
  <2>3. CASE i # held[t].job
    BY <1>5, <1>a, <2>1, <2>3, <1>b DEF Heartbeat, TypeOK
  <2> QED
    BY <2>2, <2>3
<1>6. ASSUME NEW t \in Tokens, NEW outcome \in Outcomes, NEW value \in {t, NoToken},
             Finish(t, outcome, value)
      PROVE  JobStep(i)
  <2>1. /\ held[t].job \in Jobs /\ row[held[t].job].status = "running"
        /\ row[held[t].job].token = t /\ held' = held
        /\ row[held[t].job].until > now
    BY <1>6 DEF Finish, ValidReport, Owns, Issued
  <2>2. CASE i = held[t].job
    <3> DEFINE r == Released(row[i], outcome)
    <3>1. row'[i] = [r EXCEPT !.result = value]
      BY <1>6, <1>a, <2>1, <2>2 DEF Finish, TypeOK
    <3>2. r \in Row /\ r.status = outcome /\ r.token = NoToken
      BY <1>a, ReleasedType DEF Outcomes, Statuses
    <3> HIDE DEF r
    <3>3. row'[i].status = outcome /\ row'[i].token = NoToken /\ row'[i].result = value
      BY <3>1, <3>2 DEF Row
    <3> QED
      BY <2>1, <2>2, <3>3 DEF JobStep, LeasesOf
  <2>3. CASE i # held[t].job
    BY <1>6, <1>a, <2>1, <2>3, <1>b DEF Finish, TypeOK
  <2> QED
    BY <2>2, <2>3
<1>7. ASSUME NEW j \in Jobs, Cancel(j) PROVE JobStep(i)
  <2>1. CASE i = j
    <3>1. row'[i] = Released(row[i], "cancelled") /\ held' = held
          /\ row[i].status \in {"queued", "running"}
      BY <1>7, <1>a, <2>1 DEF Cancel, TypeOK
    <3>2. /\ row'[i].status = "cancelled" /\ row'[i].token = NoToken
          /\ row'[i].result = row[i].result
      BY <1>a, <3>1, ReleasedType DEF Statuses, Outcomes
    <3> QED
      BY <3>1, <3>2 DEF JobStep, Kept, LeasesOf
  <2>2. CASE i # j
    BY <1>7, <1>a, <2>2, <1>b DEF Cancel, TypeOK
  <2> QED
    BY <2>1, <2>2
<1>8. ASSUME NEW j \in Jobs, Retry(j) PROVE JobStep(i)
  <2>1. CASE i = j
    <3> DEFINE r == Released(row[i], "queued")
    <3>1. row'[i] = [r EXCEPT !.available = now + Backoff(row[i].attempts)]
          /\ held' = held /\ row[i].status \in Retryable
      BY <1>8, <1>a, <2>1 DEF Retry, CanRetry, TypeOK
    <3>2. /\ r \in Row /\ r.status = "queued" /\ r.token = NoToken
          /\ r.result = row[i].result
      BY <1>a, ReleasedType DEF Statuses
    <3> HIDE DEF r
    <3>3. /\ row'[i].status = "queued" /\ row'[i].token = NoToken
          /\ row'[i].result = row[i].result
      BY <3>1, <3>2 DEF Row
    <3> QED
      BY <3>1, <3>3 DEF JobStep, Kept, LeasesOf
  <2>2. CASE i # j
    BY <1>8, <1>a, <2>2, <1>b DEF Retry, CanRetry, TypeOK
  <2> QED
    BY <2>1, <2>2
<1>9. CASE UNCHANGED <<row, held>>
  BY <1>9, <1>b
<1> QED
  BY <1>1, <1>2, <1>3, <1>4, <1>5, <1>6, <1>7, <1>8, <1>9
     DEF Next, Claim, vars, Tick, ReadClock, GiveUp

\* A lease with time left is never written off, and one without is never
\* completed.
THEOREM LeaseFenced == Spec => LeaseFence
<1>1. ASSUME IInv, ClocksBehind, [Next]_vars, NEW j \in Jobs
      PROVE  FencedStep(j)
  <2>1. JobStep(j) /\ row[j].until \in Int /\ now \in Int
    BY <1>1, StepOfJob DEF IInv, TypeOK, Row
  <2> QED
    BY <2>1 DEF JobStep, FencedStep, Outcomes, Retryable
<1>2. IInv /\ ClocksBehind /\ [Next]_vars => [\A j \in Jobs : FencedStep(j)]_vars
  BY <1>1
<1> QED
  BY <1>2, Invariant, ClocksInvariant, PTL DEF Spec, LeaseFence

\* Only the owner's report replaces a stored result.
THEOREM ResultsKept == Spec => ResultKept
<1>1. ASSUME IInv, ClocksBehind, [Next]_vars, NEW j \in Jobs
      PROVE  KeptStep(j)
  BY <1>1, StepOfJob DEF JobStep, Kept, KeptStep
<1>2. IInv /\ ClocksBehind /\ [Next]_vars => [\A j \in Jobs : KeptStep(j)]_vars
  BY <1>1
<1> QED
  BY <1>2, Invariant, ClocksInvariant, PTL DEF Spec, ResultKept

\* Every row of the ledger implements the one-job contract.
THEOREM Implements == Spec => ImplementsLifecycle
<1>1. Init => \A j \in Jobs : Life(j)!LifeInit
  BY SentinelAssumption DEF Init, NoRow, NoLease, LeasesOf, Life!LifeInit
<1>2. ASSUME IInv, ClocksBehind, [Next]_vars, NEW j \in Jobs
      PROVE  LifeStep(j)
  <2>1. JobStep(j) /\ (row[j].status # "running" => row[j].token = NoToken)
    BY <1>2, StepOfJob DEF IInv, TypeOK, Row
  <2> USE DEF Kept, LifeStep, Life!LifeNext
  <2>2. CASE Kept(j) /\ row'[j].status = row[j].status /\ row'[j].token = row[j].token
    BY <2>2 DEF Life!lifeVars
  <2>3. CASE /\ Kept(j) /\ row[j].status = "running"
             /\ row'[j].status = "interrupted" /\ row'[j].token = NoToken
    BY <2>3 DEF Life!Lapse
  <2>4. CASE /\ Kept(j) /\ row[j].status \in {"absent"} \cup Retryable
             /\ row'[j].status = "queued" /\ row'[j].token = NoToken
    BY <2>1, <2>4 DEF Life!Submit, Life!Retryable, Retryable
  <2>5. CASE /\ row[j].status \in {"absent", "queued"} /\ row'[j].status = "running"
             /\ row'[j].token \in Tokens \ LeasesOf(j)
             /\ LeasesOf(j)' = LeasesOf(j) \cup {row'[j].token}
    BY <2>5 DEF Life!Start
  <2>6. CASE /\ Kept(j) /\ row[j].status \in {"queued", "running"}
             /\ row'[j].status = "cancelled" /\ row'[j].token = NoToken
    BY <2>6 DEF Life!Cancel
  <2>7. CASE /\ row[j].status = "running" /\ row'[j].status \in Outcomes
             /\ row'[j].token = NoToken /\ LeasesOf(j)' = LeasesOf(j)
    BY <2>7 DEF Life!Complete, Life!Outcomes, Outcomes
  <2> QED
    BY <2>1, <2>2, <2>3, <2>4, <2>5, <2>6, <2>7 DEF JobStep
<1>3. IInv /\ ClocksBehind /\ [Next]_vars => [\A j \in Jobs : LifeStep(j)]_vars
  BY <1>2
<1> QED
  BY <1>1, <1>3, Invariant, ClocksInvariant, PTL DEF Spec, ImplementsLifecycle

-----------------------------------------------------------------------------
(***************************************************************************)
(* The history.  The last event of a job tells its status, so what may     *)
(* follow that event is what a statement may do to a row of that status.   *)
(***************************************************************************)
Starts(log) == {k \in DOMAIN log : log[k] = "start"}

\* A history that agrees with a row of status s after n attempts.
LogTells(log, s, n) ==
    /\ log = <<>> <=> s = "absent"
    /\ log # <<>> => StatusAfter(log[Len(log)]) = s
    /\ \A k \in 1..Len(log) - 1 : log[k + 1] \in Following(log[k])
    /\ Cardinality(Starts(log)) = n

\* Event e may be the next of a job with status s.
MayFollow(s, e) ==
    \/ s = "absent" /\ e = "queued"
    \/ s = "queued" /\ e \in {"start", "cancelled"}
    \/ s = "running" /\ e \in {"ok", "interrupted", "failed", "partial", "cancelled"}
    \/ s \in Retryable /\ e = "queued"

\* What a statement may do to a status is what the event before it lets follow.
LEMMA FollowsLast ==
  ASSUME NEW d \in Events, NEW e \in Events, MayFollow(StatusAfter(d), e)
  PROVE  e \in Following(d) /\ StatusAfter(e) # "absent"
  BY DEF Events, MayFollow, StatusAfter, Following, Retryable, Outcomes

\* An event that may follow keeps the history in agreement with the row.
LEMMA Appending ==
  ASSUME NEW log \in Seq(Events), NEW s, NEW n \in Nat, LogTells(log, s, n),
         NEW e \in Events, MayFollow(s, e)
  PROVE  /\ Append(log, e) \in Seq(Events)
         /\ LogTells(Append(log, e), StatusAfter(e), IF e = "start" THEN n + 1 ELSE n)
<1> DEFINE longer == Append(log, e)
           len == Len(log)
<1>1. /\ len \in Nat /\ DOMAIN log = 1..len /\ \A k \in 1..len : log[k] \in Events
      /\ len = 0 <=> log = <<>>
  OBVIOUS
<1>2. /\ longer \in Seq(Events) /\ Len(longer) = len + 1 /\ DOMAIN longer = 1..len + 1
      /\ \A k \in 1..len : longer[k] = log[k]
      /\ longer[len + 1] = e /\ longer # <<>>
  OBVIOUS
<1> HIDE DEF longer, len
<1>3. StatusAfter(e) # "absent"
  BY DEF StatusAfter, Events
<1>4. len # 0 => e \in Following(log[len])
  <2> SUFFICES ASSUME len # 0 PROVE e \in Following(log[len])
    OBVIOUS
  <2>1. log[len] \in Events /\ StatusAfter(log[len]) = s
    BY <1>1 DEF LogTells, len
  <2> QED
    BY <2>1, FollowsLast
<1>5. \A k \in 1..Len(longer) - 1 : longer[k + 1] \in Following(longer[k])
  <2> SUFFICES ASSUME NEW k \in 1..len PROVE longer[k + 1] \in Following(longer[k])
    BY <1>1, <1>2
  <2>1. CASE k = len
    BY <1>1, <1>2, <1>4, <2>1
  <2>2. CASE k # len
    <3>1. k \in 1..len - 1 /\ k + 1 \in 1..len
      BY <1>1, <2>2
    <3>2. log[k + 1] \in Following(log[k])
      BY <3>1 DEF LogTells, len
    <3> QED
      BY <1>2, <3>1, <3>2
  <2> QED
    BY <2>1, <2>2
<1>6. IsFiniteSet(Starts(log)) /\ len + 1 \notin Starts(log)
  <2>1. Starts(log) \subseteq 1..len
    BY <1>1 DEF Starts
  <2>2. IsFiniteSet(1..len)
    BY <1>1, FS_Interval
  <2> QED
    BY <1>1, <2>1, <2>2, FS_Subset
<1>7. Starts(longer) = IF e = "start" THEN Starts(log) \cup {len + 1} ELSE Starts(log)
  BY <1>1, <1>2 DEF Starts
<1>8. Cardinality(Starts(longer)) = IF e = "start" THEN n + 1 ELSE n
  <2>1. Cardinality(Starts(log)) = n
    BY DEF LogTells
  <2>2. Cardinality(Starts(log) \cup {len + 1}) = n + 1
    BY <1>6, <2>1, FS_AddElement
  <2> QED
    BY <1>7, <2>1, <2>2
<1> QED
  BY <1>2, <1>3, <1>5, <1>8 DEF LogTells, longer

LoggedJob(i) == LogTells(events[i], row[i].status, row[i].attempts)

\* What one step may do to the history of one job: nothing, an event that may
\* follow and that the row agrees with, or the two of an inline start.
LogStep(i) ==
  \/ /\ events'[i] = events[i]
     /\ row'[i].status = row[i].status /\ row'[i].attempts = row[i].attempts
  \/ \E e \in Events :
       /\ MayFollow(row[i].status, e)
       /\ events'[i] = Append(events[i], e)
       /\ row'[i].status = StatusAfter(e)
       /\ row'[i].attempts = IF e = "start" THEN row[i].attempts + 1 ELSE row[i].attempts
  \/ /\ row[i].status = "absent"
     /\ events'[i] = events[i] \o <<"queued", "start">>
     /\ row'[i].status = "running" /\ row'[i].attempts = row[i].attempts + 1

\* Such a step keeps the agreement.
LEMMA LogStepKeeps ==
  ASSUME TypeOK, NEW i \in Jobs, LoggedJob(i), LogStep(i)
  PROVE  LoggedJob(i)'
<1>1. events[i] \in Seq(Events) /\ row[i].attempts \in Nat
  BY DEF TypeOK, Row
<1>2. CASE /\ events'[i] = events[i]
           /\ row'[i].status = row[i].status /\ row'[i].attempts = row[i].attempts
  BY <1>2 DEF LoggedJob
<1>3. ASSUME NEW e \in Events, MayFollow(row[i].status, e),
             events'[i] = Append(events[i], e), row'[i].status = StatusAfter(e),
             row'[i].attempts = IF e = "start" THEN row[i].attempts + 1
                                ELSE row[i].attempts
      PROVE  LoggedJob(i)'
  BY <1>1, <1>3, Appending DEF LoggedJob
<1>4. CASE /\ row[i].status = "absent"
           /\ events'[i] = events[i] \o <<"queued", "start">>
           /\ row'[i].status = "running" /\ row'[i].attempts = row[i].attempts + 1
  <2> DEFINE n == row[i].attempts
             once == Append(events[i], "queued")
  <2>1. once \in Seq(Events) /\ LogTells(once, "queued", n)
    <3>1. MayFollow("absent", "queued") /\ "queued" \in Events
      BY DEF MayFollow, Events
    <3>2. StatusAfter("queued") = "queued"
      BY DEF StatusAfter
    <3> QED
      BY <1>1, <1>4, <3>1, <3>2, Appending DEF LoggedJob
  <2>2. LogTells(Append(once, "start"), "running", n + 1)
    <3>1. MayFollow("queued", "start") /\ "start" \in Events
      BY DEF MayFollow, Events
    <3>2. StatusAfter("start") = "running"
      BY DEF StatusAfter
    <3> HIDE DEF once
    <3> QED
      BY <1>1, <2>1, <3>1, <3>2, Appending
  <2>3. events[i] \o <<"queued", "start">> = Append(once, "start")
    <3>1. /\ <<"queued">> \in Seq(Events) /\ <<"start">> \in Seq(Events)
          /\ "queued" \in Events /\ "start" \in Events
      BY DEF Events
    <3>2. <<"queued">> \o <<"start">> = <<"queued", "start">>
      <4> DEFINE both == <<"queued">> \o <<"start">>
                 pair == <<"queued", "start">>
      <4>1. /\ both \in Seq(Events) /\ Len(both) = 2
            /\ both[1] = "queued" /\ both[2] = "start"
        BY <3>1, ConcatProperties
      <4>2. /\ pair \in Seq(Events) /\ Len(pair) = 2
            /\ pair[1] = "queued" /\ pair[2] = "start"
        BY <3>1
      <4> HIDE DEF both, pair
      <4>3. \A k \in 1..Len(both) : both[k] = pair[k]
        BY <4>1, <4>2
      <4>4. both = pair
        BY <4>1, <4>2, <4>3, SeqEqual
      <4> QED
        BY <4>4 DEF both, pair
    <3>3. once = events[i] \o <<"queued">>
      BY <1>1, <3>1, AppendIsConcat
    <3>4. Append(once, "start") = once \o <<"start">>
      BY <2>1, <3>1, AppendIsConcat
    <3> HIDE DEF once
    <3> QED
      BY <1>1, <3>1, <3>2, <3>3, <3>4, ConcatAssociative
  <2> QED
    BY <1>4, <2>2, <2>3 DEF LoggedJob
<1> QED
  BY <1>2, <1>3, <1>4 DEF LogStep

\* What one transition may do to the history of one job.
LEMMA LogStepOfJob ==
  ASSUME IInv, [Next]_vars, NEW i \in Jobs
  PROVE  LogStep(i)
<1>a. TypeOK /\ JobInv(i) /\ row[i] \in Row /\ events[i] \in Seq(Events)
  BY DEF IInv, TypeOK
<1>b. ASSUME row'[i] = row[i], events'[i] = events[i] PROVE LogStep(i)
  BY <1>b DEF LogStep
<1>c. ASSUME NEW e \in Events, MayFollow(row[i].status, e),
             events'[i] = Append(events[i], e), row'[i].status = StatusAfter(e),
             row'[i].attempts = IF e = "start" THEN row[i].attempts + 1
                                ELSE row[i].attempts
      PROVE  LogStep(i)
  BY <1>c DEF LogStep
<1>d. ASSUME NEW c, Expired(i, c), row'[i] = Released(row[i], "interrupted"),
             events'[i] = Append(events[i], "interrupted")
      PROVE  LogStep(i)
  <2>1. row'[i].status = "interrupted" /\ row'[i].attempts = row[i].attempts
    BY <1>a, <1>d, ReleasedType DEF Statuses
  <2>2. MayFollow(row[i].status, "interrupted") /\ "interrupted" \in Events
    BY <1>d DEF Expired, MayFollow, Events
  <2>3. StatusAfter("interrupted") = "interrupted"
    BY DEF StatusAfter
  <2> QED
    BY <1>c, <1>d, <2>1, <2>2, <2>3
<1>1. ASSUME NEW h \in Handles, NEW wanted \in SUBSET Jobs, ClaimNothing(h, wanted)
      PROVE  LogStep(i)
  BY <1>1, <1>b, <1>d DEF ClaimNothing
<1>2. ASSUME NEW h \in Handles, NEW wanted \in SUBSET Jobs,
             NEW j \in Jobs, NEW t \in Tokens, ClaimJob(h, wanted, j, t)
      PROVE  LogStep(i)
  <2>1. CASE i = j
    <3>1. /\ row[i].status = "queued" /\ row'[i] = Started(row[i], t, clock[h] + Lease)
          /\ events'[i] = Append(events[i], "start")
      BY <1>2, <2>1 DEF ClaimJob, Ready, Expired
    <3>2. clock[h] + Lease \in Nat
      BY <1>2, <1>a, LeaseEnds DEF ClaimJob
    <3>3. row'[i].status = "running" /\ row'[i].attempts = row[i].attempts + 1
      BY <1>a, <3>1, <3>2, StartedType
    <3>4. MayFollow("queued", "start") /\ "start" \in Events
      BY DEF MayFollow, Events
    <3>5. StatusAfter("start") = "running"
      BY DEF StatusAfter
    <3> QED
      BY <1>c, <3>1, <3>3, <3>4, <3>5
  <2>2. CASE i # j /\ Expired(i, clock[h])
    BY <1>2, <2>2, <1>d DEF ClaimJob
  <2>3. CASE i # j /\ ~Expired(i, clock[h])
    BY <1>2, <2>3, <1>b DEF ClaimJob
  <2> QED
    BY <2>1, <2>2, <2>3
<1>3. ASSUME NEW j \in Jobs, NEW b \in Budgets, Enqueue(j, b) PROVE LogStep(i)
  <2>1. CASE i = j
    <3>1. /\ row[i].status = "absent" /\ events'[i] = Append(events[i], "queued")
          /\ row'[i].status = "queued" /\ row'[i].attempts = 0
      BY <1>3, <1>a, <2>1 DEF Enqueue, Log, TypeOK
    <3>2. row[i].attempts = 0
      BY <1>a, <3>1, AbsentJob
    <3>3. MayFollow("absent", "queued") /\ "queued" \in Events
      BY DEF MayFollow, Events
    <3>4. StatusAfter("queued") = "queued"
      BY DEF StatusAfter
    <3> QED
      BY <1>c, <3>1, <3>2, <3>3, <3>4
  <2>2. CASE i # j
    BY <1>3, <1>a, <2>2, <1>b DEF Enqueue, Log, TypeOK
  <2> QED
    BY <2>1, <2>2
<1>4. ASSUME NEW h \in Handles, NEW j \in Jobs, NEW b \in Budgets, NEW t \in Tokens,
             EnqueueRunning(h, j, b, t)
      PROVE  LogStep(i)
  <2>1. CASE i = j
    <3>1. /\ row[i].status = "absent"
          /\ events'[i] = events[i] \o <<"queued", "start">>
      BY <1>4, <1>a, <2>1 DEF EnqueueRunning, TypeOK
    <3>2. row'[i].status = "running" /\ row'[i].attempts = 1
      BY <1>4, <1>a, <2>1 DEF EnqueueRunning, TypeOK
    <3>3. row[i].attempts = 0
      BY <1>a, <3>1, AbsentJob
    <3>4. row'[i].attempts = row[i].attempts + 1
      BY <3>2, <3>3
    <3> QED
      BY <3>1, <3>2, <3>4 DEF LogStep
  <2>2. CASE i # j
    BY <1>4, <1>a, <2>2, <1>b DEF EnqueueRunning, TypeOK
  <2> QED
    BY <2>1, <2>2
<1>5. ASSUME NEW h \in Handles, NEW t \in Tokens, Heartbeat(h, t) PROVE LogStep(i)
  <2>1. held[t].job \in Jobs /\ row[held[t].job].status = "running" /\ events' = events
        /\ clock[h] + Lease \in Nat
    BY <1>5, <1>a, LeaseEnds DEF Heartbeat, Owns, Issued
  <2>2. CASE i = held[t].job
    <3>1. row'[i] = [row[i] EXCEPT !.until = clock[h] + Lease]
      BY <1>5, <1>a, <2>1, <2>2 DEF Heartbeat, TypeOK
    <3>2. row'[i].status = row[i].status /\ row'[i].attempts = row[i].attempts
      BY <1>a, <2>1, <2>2, <3>1, RenewedType
    <3> QED
      BY <2>1, <3>2 DEF LogStep
  <2>3. CASE i # held[t].job
    BY <1>5, <1>a, <2>1, <2>3, <1>b DEF Heartbeat, TypeOK
  <2> QED
    BY <2>2, <2>3
<1>6. ASSUME NEW t \in Tokens, NEW outcome \in Outcomes, NEW value \in {t, NoToken},
             Finish(t, outcome, value)
      PROVE  LogStep(i)
  <2>1. held[t].job \in Jobs /\ row[held[t].job].status = "running"
    BY <1>6 DEF Finish, ValidReport, Owns, Issued
  <2>2. CASE i = held[t].job
    <3> DEFINE r == Released(row[i], outcome)
               e == IF outcome = "succeeded" THEN "ok" ELSE outcome
    <3>1. row'[i] = [r EXCEPT !.result = value] /\ events'[i] = Append(events[i], e)
      BY <1>6, <1>a, <2>1, <2>2 DEF Finish, Log, TypeOK
    <3>2. r \in Row /\ r.status = outcome /\ r.attempts = row[i].attempts
      BY <1>a, ReleasedType DEF Outcomes, Statuses
    <3>3. e \in Events /\ e # "start" /\ MayFollow("running", e)
      BY DEF Outcomes, Events, MayFollow
    <3>4. StatusAfter(e) = outcome
      BY DEF Outcomes, StatusAfter
    <3> HIDE DEF r, e
    <3>5. row'[i].status = outcome /\ row'[i].attempts = row[i].attempts
      BY <3>1, <3>2 DEF Row
    <3> QED
      BY <1>c, <2>1, <2>2, <3>1, <3>3, <3>4, <3>5
  <2>3. CASE i # held[t].job
    BY <1>6, <1>a, <2>1, <2>3, <1>b DEF Finish, Log, TypeOK
  <2> QED
    BY <2>2, <2>3
<1>7. ASSUME NEW j \in Jobs, Cancel(j) PROVE LogStep(i)
  <2>1. CASE i = j
    <3>1. /\ row'[i] = Released(row[i], "cancelled")
          /\ events'[i] = Append(events[i], "cancelled")
          /\ row[i].status \in {"queued", "running"}
      BY <1>7, <1>a, <2>1 DEF Cancel, Log, TypeOK
    <3>2. row'[i].status = "cancelled" /\ row'[i].attempts = row[i].attempts
      BY <1>a, <3>1, ReleasedType DEF Statuses, Outcomes
    <3>3. MayFollow(row[i].status, "cancelled") /\ "cancelled" \in Events
      BY <3>1 DEF MayFollow, Events
    <3>4. StatusAfter("cancelled") = "cancelled"
      BY DEF StatusAfter
    <3> QED
      BY <1>c, <3>1, <3>2, <3>3, <3>4
  <2>2. CASE i # j
    BY <1>7, <1>a, <2>2, <1>b DEF Cancel, Log, TypeOK
  <2> QED
    BY <2>1, <2>2
<1>8. ASSUME NEW j \in Jobs, Retry(j) PROVE LogStep(i)
  <2>1. CASE i = j
    <3> DEFINE r == Released(row[i], "queued")
    <3>1. /\ row'[i] = [r EXCEPT !.available = now + Backoff(row[i].attempts)]
          /\ events'[i] = Append(events[i], "queued") /\ row[i].status \in Retryable
      BY <1>8, <1>a, <2>1 DEF Retry, CanRetry, Log, TypeOK
    <3>2. r \in Row /\ r.status = "queued" /\ r.attempts = row[i].attempts
      BY <1>a, ReleasedType DEF Statuses
    <3> HIDE DEF r
    <3>3. row'[i].status = "queued" /\ row'[i].attempts = row[i].attempts
      BY <3>1, <3>2 DEF Row
    <3>4. MayFollow(row[i].status, "queued") /\ "queued" \in Events
      BY <3>1 DEF MayFollow, Events
    <3>5. StatusAfter("queued") = "queued"
      BY DEF StatusAfter
    <3> QED
      BY <1>c, <3>1, <3>3, <3>4, <3>5
  <2>2. CASE i # j
    BY <1>8, <1>a, <2>2, <1>b DEF Retry, CanRetry, Log, TypeOK
  <2> QED
    BY <2>1, <2>2
<1>9. CASE UNCHANGED <<row, events>>
  BY <1>9, <1>b
<1> QED
  BY <1>1, <1>2, <1>3, <1>4, <1>5, <1>6, <1>7, <1>8, <1>9
     DEF Next, Claim, vars, Tick, ReadClock, GiveUp

\* The history of every job is the one its row, and nothing but its row, asks
\* for: no event is lost, doubled, or out of its order.
THEOREM HistoryAgrees == Spec => []LogAgreesWithRow
<1> DEFINE Logged == \A j \in Jobs : LoggedJob(j)
<1>1. Init => Logged
  <2> SUFFICES ASSUME Init, NEW j \in Jobs PROVE LoggedJob(j)
    OBVIOUS
  <2>1. events[j] = <<>> /\ row[j].status = "absent" /\ row[j].attempts = 0
    BY DEF Init, NoRow
  <2>2. Starts(<<>>) = {} /\ 1..Len(<<>>) - 1 = {}
    BY DEF Starts
  <2>3. Cardinality(Starts(events[j])) = row[j].attempts
    BY <2>1, <2>2, FS_EmptySet
  <2> QED
    BY <2>1, <2>2, <2>3 DEF LoggedJob, LogTells
<1>2. IInv /\ Logged /\ [Next]_vars => Logged'
  BY LogStepOfJob, LogStepKeeps DEF IInv
<1>3. Logged => LogAgreesWithRow
  BY DEF LoggedJob, LogTells, Starts, LogAgreesWithRow
<1> QED
  BY <1>1, <1>2, <1>3, Invariant, PTL DEF Spec
=============================================================================
