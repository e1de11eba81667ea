----------------------------- MODULE JobLedger ------------------------------
(***************************************************************************)
(* The durable job ledger of crates/llmbase-core/src/jobs.rs: the tables   *)
(* jobs and job_events of one library, and the JobLease values its callers *)
(* hold.  Every operation is one SQLite transaction; operations of several *)
(* open Library handles (threads or processes) interleave.                 *)
(*                                                                         *)
(* claim, enqueue_running and heartbeat read the system clock BEFORE they  *)
(* wait for SQLite's write lock, so the `now' they use may be old when the *)
(* transaction runs: ReadClock is a step of its own.  enqueue, finish and  *)
(* retry read it inside their transaction.                                 *)
(*                                                                         *)
(* AnyToken, ExpiredEarly, BudgetPassed, AnyStopped, AnyReport, TokenKept  *)
(* and LogLost are mutants: plausible slips in the operator that follows   *)
(* each, used by no action.                                                *)
(***************************************************************************)
EXTENDS Integers, Sequences, FiniteSets

CONSTANTS Jobs,      \* job rows (uuids) that may come to exist
          Handles,   \* open Library handles that call the ledger
          Tokens,    \* lease tokens (uuids), one minted per attempt
          NoJob, NoToken, NoHandle,
          Budgets,   \* the max_attempts values callers pass, within 1..20
          Lease,     \* lease_seconds: every caller in the code passes 60
          MaxTime    \* bound on the clock, for model checking only

ASSUME SentinelAssumption ==
    NoJob \notin Jobs /\ NoToken \notin Tokens /\ NoHandle \notin Handles
ASSUME NumberAssumption ==
    Budgets \subseteq 1..20 /\ Lease \in 1..3600 /\ MaxTime \in Nat

VARIABLES now,     \* the system clock, whole seconds
          clock,   \* the clock value a handle read and has not yet used
          row,     \* table jobs
          events,  \* table job_events, per job in sequence order
          held     \* the JobLease values handed out, by token

vars == <<now, clock, row, events, held>>

Null == -1         \* SQL NULL, for lease_until; a handle with no clock read

\* Every lease ever handed out for a job, live or not.
LeasesOf(j) == {t \in Tokens : held[t].job = j}

Life(j) == INSTANCE JobLifecycle
             WITH status <- row[j].status, owner <- row[j].token,
                  spent <- LeasesOf(j)

Retryable == {"failed", "partial", "interrupted"}
Outcomes  == {"succeeded", "failed", "partial", "cancelled"}
Statuses  == {"absent", "queued", "running", "interrupted"} \cup Outcomes
Events    == {"queued", "start", "ok", "failed", "partial", "cancelled",
              "interrupted"}

NoRow   == [status |-> "absent", attempts |-> 0, max |-> 0, available |-> 0,
            until |-> Null, token |-> NoToken, result |-> NoToken]
NoLease == [job |-> NoJob, attempt |-> 0, by |-> NoHandle]

Init == /\ now = 0
        /\ clock = [h \in Handles |-> Null]
        /\ row = [j \in Jobs |-> NoRow]
        /\ events = [j \in Jobs |-> <<>>]
        /\ held = [t \in Tokens |-> NoLease]

-----------------------------------------------------------------------------
(***************************************************************************)
(* The conditions the UPDATE and SELECT statements test.                   *)
(***************************************************************************)
Issued(t)     == held[t].job \in Jobs
AnyToken(t)   == t \in Tokens
Fresh(t)      == held[t].job = NoJob
ExpiredEarly(j, c) == row[j].status = "running" /\ row[j].until <= c + 1
Expired(j, c) == row[j].status = "running" /\ row[j].until <= c
Ready(j, c)   == /\ row[j].status = "queued"
                 /\ row[j].available <= c
                 /\ row[j].attempts < row[j].max
\* WHERE id=.. AND lease_token=.. AND status='running' AND lease_until>now
Owns(t, c)    == /\ Issued(t)
                 /\ row[held[t].job].token = t
                 /\ row[held[t].job].status = "running"
                 /\ row[held[t].job].until > c
BudgetPassed(j) == row[j].status \in Retryable /\ row[j].attempts <= row[j].max
AnyStopped(j)   == /\ row[j].status \in Retryable \cup {"cancelled"}
                   /\ row[j].attempts < row[j].max
CanRetry(j)     == row[j].status \in Retryable /\ row[j].attempts < row[j].max
\* Success carries a result; every other outcome may or may not.  A result is
\* named by the token of the attempt that produced it.
AnyReport(t, outcome, value)   == value \in {t, NoToken}
ValidReport(t, outcome, value) == outcome = "succeeded" => value = t

\* 2^(attempts-1) seconds, saturating at five minutes.
Backoff(n) == IF n \in 1..9 THEN <<1, 2, 4, 8, 16, 32, 64, 128, 256>>[n]
              ELSE IF n = 0 THEN 1 ELSE 300

Moved(r, s, n, u, t) ==
    [status |-> s, attempts |-> n, until |-> u, token |-> t,
     max |-> r.max, available |-> r.available, result |-> r.result]

\* The UPDATE that starts an attempt, and every UPDATE that ends one: each of
\* those clears lease_token and lease_until.
Started(r, t, u) == Moved(r, "running", r.attempts + 1, u, t)
TokenKept(r, s)  == Moved(r, s, r.attempts, Null, r.token)
Released(r, s)   == Moved(r, s, r.attempts, Null, NoToken)

LogLost(j, e) == events' \in {events, [events EXCEPT ![j] = Append(@, e)]}
Log(j, e) == events' = [events EXCEPT ![j] = Append(@, e)]

\* The handle's transaction ends, or it never began (SQLITE_BUSY, a crash).
Used(h) == clock' = [clock EXCEPT ![h] = Null]

-----------------------------------------------------------------------------
Tick == /\ now < MaxTime
        /\ now' = now + 1
        /\ UNCHANGED <<clock, row, events, held>>

\* `let now = now()?;' before transaction_with_behavior(Immediate).
ReadClock(h) == /\ clock[h] = Null
                /\ clock' = [clock EXCEPT ![h] = now]
                /\ UNCHANGED <<now, row, events, held>>

\* The five-second busy timeout runs out, or the process dies while waiting.
GiveUp(h) == /\ clock[h] # Null
             /\ Used(h)
             /\ UNCHANGED <<now, row, events, held>>

Enqueue(j, b) ==
    /\ row[j].status = "absent"
    /\ row' = [row EXCEPT ![j] = [status |-> "queued", attempts |-> 0, max |-> b,
                                  available |-> now, until |-> Null,
                                  token |-> NoToken, result |-> NoToken]]
    /\ Log(j, "queued")
    /\ UNCHANGED <<now, clock, held>>

EnqueueRunning(h, j, b, t) ==
    /\ clock[h] # Null
    /\ row[j].status = "absent"
    /\ Fresh(t)
    /\ row' = [row EXCEPT ![j] = [status |-> "running", attempts |-> 1,
                                  max |-> b, available |-> clock[h],
                                  until |-> clock[h] + Lease, token |-> t,
                                  result |-> NoToken]]
    /\ events' = [events EXCEPT ![j] = @ \o <<"queued", "start">>]
    /\ held' = [held EXCEPT ![t] = [job |-> j, attempt |-> 1, by |-> h]]
    /\ Used(h)
    /\ UNCHANGED now

\* claim_job_inner when the SELECT finds no row: the leases that lapsed are
\* written off all the same.  `wanted' is all jobs, or the one id asked for.
ClaimNothing(h, wanted) ==
    /\ clock[h] # Null
    /\ ~ \E j \in wanted : Ready(j, clock[h])
    /\ row' = [j \in Jobs |-> IF Expired(j, clock[h])
                                THEN Released(row[j], "interrupted")
                                ELSE row[j]]
    /\ events' = [j \in Jobs |-> IF Expired(j, clock[h])
                                   THEN Append(events[j], "interrupted")
                                   ELSE events[j]]
    /\ Used(h)
    /\ UNCHANGED <<now, held>>

\* claim_job_inner when it finds one: the oldest available; ties are broken by
\* created_at and id, left open here.
ClaimJob(h, wanted, j, t) ==
    /\ clock[h] # Null
    /\ j \in wanted
    /\ Ready(j, clock[h])
    /\ \A i \in wanted : Ready(i, clock[h]) => row[j].available <= row[i].available
    /\ Fresh(t)
    /\ row' = [i \in Jobs |->
                 IF Expired(i, clock[h]) THEN Released(row[i], "interrupted")
                 ELSE IF i = j THEN Started(row[j], t, clock[h] + Lease)
                 ELSE row[i]]
    /\ events' = [i \in Jobs |->
                    IF Expired(i, clock[h]) THEN Append(events[i], "interrupted")
                    ELSE IF i = j THEN Append(events[i], "start")
                    ELSE events[i]]
    /\ held' = [held EXCEPT ![t] = [job |-> j, attempt |-> row[j].attempts + 1,
                                    by |-> h]]
    /\ Used(h)
    /\ UNCHANGED now

Heartbeat(h, t) ==
    /\ clock[h] # Null
    /\ held[t].by = h
    /\ Owns(t, clock[h])
    /\ row' = [row EXCEPT ![held[t].job] = [@ EXCEPT !.until = clock[h] + Lease]]
    /\ Used(h)
    /\ UNCHANGED <<now, events, held>>

Finish(t, outcome, value) ==
    /\ Owns(t, now)
    /\ ValidReport(t, outcome, value)
    /\ row' = [row EXCEPT ![held[t].job] =
                  [Released(@, outcome) EXCEPT !.result = value]]
    /\ Log(held[t].job, IF outcome = "succeeded" THEN "ok" ELSE outcome)
    /\ UNCHANGED <<now, clock, held>>

Cancel(j) ==
    /\ row[j].status \in {"queued", "running"}
    /\ row' = [row EXCEPT ![j] = Released(@, "cancelled")]
    /\ Log(j, "cancelled")
    /\ UNCHANGED <<now, clock, held>>

Retry(j) ==
    /\ CanRetry(j)
    /\ row' = [row EXCEPT ![j] = [Released(@, "queued") EXCEPT
                                  !.available = now + Backoff(row[j].attempts)]]
    /\ Log(j, "queued")
    /\ UNCHANGED <<now, clock, held>>

Claim(h) == \E wanted \in {Jobs} \cup {{j} : j \in Jobs} :
               \/ ClaimNothing(h, wanted)
               \/ \E j \in Jobs, t \in Tokens : ClaimJob(h, wanted, j, t)

Next == \/ Tick
        \/ \E h \in Handles : ReadClock(h) \/ GiveUp(h) \/ Claim(h)
        \/ \E j \in Jobs, b \in Budgets : Enqueue(j, b)
        \/ \E h \in Handles, j \in Jobs, b \in Budgets, t \in Tokens :
              EnqueueRunning(h, j, b, t)
        \/ \E h \in Handles, t \in Tokens : Heartbeat(h, t)
        \/ \E t \in Tokens, outcome \in Outcomes :
              \E value \in {t, NoToken} : Finish(t, outcome, value)
        \/ \E j \in Jobs : Cancel(j) \/ Retry(j)

Spec == Init /\ [][Next]_vars

-----------------------------------------------------------------------------
(***************************************************************************)
(* Properties.                                                             *)
(***************************************************************************)

\* Types, and the row shape every statement keeps: exactly the running rows
\* carry a lease token and an expiry.
Row == {r \in [status : Statuses, attempts : Nat, max : Nat, available : Nat,
               until : Int, token : Tokens \cup {NoToken},
               result : Tokens \cup {NoToken}] :
          IF r.status = "running" THEN r.token # NoToken /\ r.until >= 0
          ELSE r.token = NoToken /\ r.until = Null}

HeldLease == [job : Jobs \cup {NoJob}, attempt : Nat, by : Handles \cup {NoHandle}]

TypeOK ==
    /\ now \in Nat
    /\ clock \in [Handles -> Int]
    /\ \A h \in Handles : clock[h] = Null \/ clock[h] >= 0
    /\ row \in [Jobs -> Row]
    /\ events \in [Jobs -> Seq(Events)]
    /\ held \in [Tokens -> HeldLease]

\* Fencing.  The token in a running row is that of the job's most recent
\* attempt, so no lease handed out earlier, to whichever process, matches the
\* row again: a replaced owner can neither renew nor complete.
LatestLeaseOwns ==
    \A j \in Jobs : row[j].status = "running" =>
        /\ held[row[j].token].job = j
        /\ held[row[j].token].attempt = row[j].attempts
        /\ \A t \in Tokens : held[t].job = j /\ t # row[j].token =>
              held[t].attempt < row[j].attempts

\* The retry budget.  A job starts at most max_attempts times over its whole
\* life, each start is one lease, and a queued job always has an attempt left
\* (or no claim would ever select it).
BudgetHolds ==
    \A j \in Jobs :
        /\ row[j].attempts <= row[j].max
        /\ row[j].status = "queued" => row[j].attempts < row[j].max
        /\ Cardinality(LeasesOf(j)) = row[j].attempts

\* A stored result comes from an attempt of the same job, and the result of a
\* succeeded job is the one its last attempt reported, never a leftover of an
\* attempt before a retry.
SuccessIsFromLastAttempt ==
    \A j \in Jobs :
        /\ row[j].result # NoToken => held[row[j].result].job = j
        /\ row[j].status = "succeeded" =>
              /\ row[j].result # NoToken
              /\ held[row[j].result].attempt = row[j].attempts

\* job_events is a faithful history: each event is one that may follow the one
\* before it, the last one tells the row's status, and there is one "start"
\* for every attempt.
Following(e) == CASE e = "queued" -> {"start", "cancelled"}
                  [] e = "start" -> {"ok", "interrupted"} \cup (Outcomes \ {"succeeded"})
                  [] e \in Retryable -> {"queued"}
                  [] OTHER -> {}
StatusAfter(e) == CASE e = "start" -> "running" [] e = "ok" -> "succeeded"
                    [] OTHER -> e
LogAgreesWithRow ==
    \A j \in Jobs :
        LET log == events[j] IN
        /\ log = <<>> <=> row[j].status = "absent"
        /\ log # <<>> => StatusAfter(log[Len(log)]) = row[j].status
        /\ \A i \in 1..Len(log) - 1 : log[i + 1] \in Following(log[i])
        /\ Cardinality({i \in DOMAIN log : log[i] = "start"}) = row[j].attempts

\* A lease is honoured and enforced.  While it has time left nobody's claim
\* may interrupt the job, however stale the claimer's clock; once it has run
\* out, its owner can no longer report any outcome.
FencedStep(j) ==
    row[j].status = "running" /\ row'[j].status # "running" =>
        IF row[j].until > now THEN row'[j].status # "interrupted"
        ELSE row'[j].status \in {"interrupted", "cancelled"}
LeaseFence == [][\A j \in Jobs : FencedStep(j)]_vars

\* A result kept from a partial attempt survives interruption, cancellation,
\* retry and the next claim: only the owner's own report replaces it.
KeptStep(j) ==
    row'[j].result # row[j].result =>
        /\ row[j].status = "running"
        /\ row'[j].status \in Outcomes
        /\ row'[j].result \in {row[j].token, NoToken}
ResultKept == [][\A j \in Jobs : KeptStep(j)]_vars

\* Each row of the ledger behaves as the one-job contract says: this is
\* \A j \in Jobs : Life(j)!LifeSpec, written so that TLC can evaluate it.
LifeStep(j) == Life(j)!LifeNext \/ UNCHANGED Life(j)!lifeVars
ImplementsLifecycle == /\ \A j \in Jobs : Life(j)!LifeInit
                       /\ [][\A j \in Jobs : LifeStep(j)]_vars

=============================================================================
