------------------------------ MODULE JobWorker ------------------------------
(***************************************************************************)
(* run_job of crates/llmbase-core/src/worker.rs: several workers and one   *)
(* job of the durable ledger.  A worker claims the job, runs its handler,  *)
(* renews the lease at each heartbeat, and reports through the fence.  The *)
(* request may be cancelled, the job may be cancelled in the ledger, a     *)
(* worker may stall past its lease or die, and the job may be retried.     *)
(*                                                                         *)
(* The ledger is the module JobLedger seen from one job: an attempt number *)
(* stands for its token, and `age`, in heartbeat periods, for the clock.   *)
(* BranchOnly, Unfenced, NeverLapses and KeepsToken are mutants: plausible *)
(* slips in the operator that follows each, used by no action.             *)
(***************************************************************************)
EXTENDS Naturals, FiniteSets

CONSTANTS Workers,
          MaxAttempts, \* the job's retry budget, 1..20
          Lease        \* periods a lease lasts: 60 s against a 10 s heartbeat

ASSUME WorkerAssumption == MaxAttempts \in Nat \ {0} /\ Lease \in Nat \ {0}

VARIABLES status,   \* jobs.status
          attempts, \* jobs.attempts
          token,    \* jobs.lease_token: the attempt that owns the job, or 0
          age,      \* periods since the lease was granted or renewed
          work      \* what each worker is doing

vars == <<status, attempts, token, age, work>>

NoToken   == 0
Retryable == {"failed", "partial", "interrupted"}
Outcomes  == {"succeeded", "failed", "partial", "cancelled"}
Stages    == {"idle", "working", "renew", "winding", "stopping", "read", "judge",
              "finish"}

Life == INSTANCE JobLifecycle
          WITH Tokens <- 1..MaxAttempts, owner <- token, spent <- 1..attempts

\* body: the handler's outcome, "running" until it has one.  cancel: the
\* request's token, "late" when it was cancelled after the worker's last look
\* at it.  seen: the worker's `cancelled`.
Idle == [stage |-> "idle", token |-> NoToken, body |-> "running",
         cancel |-> "no", seen |-> FALSE]

Init == /\ status = "absent" /\ attempts = 0
        /\ token = NoToken /\ age = 0
        /\ work = [w \in Workers |-> Idle]

At(w, s)  == work[w].stage = s
Go(w, s)  == work' = [work EXCEPT ![w].stage = s]
Leave(w)  == work' = [work EXCEPT ![w] = Idle]
Busy(w)   == ~At(w, "idle")
Done(w)   == work[w].body # "running"
Cancelled(w) == work[w].cancel # "no"

NeverLapses == FALSE
Lapsed == age >= Lease

\* The condition of heartbeat_job and finish_job.
Unfenced(w) == ~Lapsed
Owns(w) == status = "running" /\ token = work[w].token /\ ~Lapsed

\* An update that ends the attempt gives the lease up.
KeepsToken(s) == status' = s /\ UNCHANGED <<token, age>>
EndsAs(s) == status' = s /\ token' = NoToken /\ age' = 0

-----------------------------------------------------------------------------
(* The ledger, other callers and time.                                     *)

Enqueue == /\ status = "absent"
           /\ status' = "queued"
           /\ UNCHANGED <<attempts, token, age, work>>

Tick == /\ status = "running" /\ age < Lease
        /\ age' = age + 1
        /\ UNCHANGED <<status, attempts, token, work>>

CancelJob == /\ status \in {"queued", "running"}
             /\ EndsAs("cancelled")
             /\ UNCHANGED <<attempts, work>>

RetryJob == /\ status \in Retryable
            /\ attempts < MaxAttempts
            /\ status' = "queued"
            /\ UNCHANGED <<attempts, token, age, work>>

\* The caller cancels the request, or goes away.
CancelRequest(w) ==
    /\ Busy(w)
    /\ ~Cancelled(w)
    /\ work' = [work EXCEPT ![w].cancel = IF At(w, "finish") THEN "late" ELSE "early"]
    /\ UNCHANGED <<status, attempts, token, age>>

-----------------------------------------------------------------------------
(* run_job.                                                                *)

\* claim_job: a lapsed lease is written off; a queued job is started.
WriteOff(w) ==
    /\ At(w, "idle")
    /\ status = "running" /\ Lapsed
    /\ EndsAs("interrupted")
    /\ UNCHANGED <<attempts, work>>

Claim(w) ==
    /\ At(w, "idle")
    /\ status = "queued" /\ attempts < MaxAttempts
    /\ status' = "running"
    /\ attempts' = attempts + 1
    /\ token' = attempts' /\ age' = 0
    /\ work' = [work EXCEPT ![w] =
                   [stage |-> "working", token |-> attempts', body |-> "running",
                    cancel |-> "no", seen |-> FALSE]]

\* The handler returns, on its own or because work_cancel stops it.
HandlerReturns(w) ==
    /\ Busy(w) /\ ~Done(w)
    /\ \E outcome \in Outcomes : work' = [work EXCEPT ![w].body = outcome]
    /\ UNCHANGED <<status, attempts, token, age>>

\* The branches of select!.
TakeOutcome(w) == /\ At(w, "working") /\ Done(w)
                  /\ Go(w, "read")
                  /\ UNCHANGED <<status, attempts, token, age>>

TakeCancel(w) == /\ At(w, "working") /\ Cancelled(w)
                 /\ work' = [work EXCEPT ![w].stage = "winding", ![w].seen = TRUE]
                 /\ UNCHANGED <<status, attempts, token, age>>

Heartbeat(w) == /\ At(w, "working")
                /\ Go(w, IF status = "cancelled" THEN "stopping" ELSE "renew")
                /\ UNCHANGED <<status, attempts, token, age>>

MayRenew(w) == Owns(w)

Renew(w) == /\ At(w, "renew")
            /\ IF MayRenew(w) THEN age' = 0 /\ Go(w, "working")
               ELSE Leave(w) /\ UNCHANGED age
            /\ UNCHANGED <<status, attempts, token>>

\* After a cancelled request: wait for the handler, with no more heartbeats.
WoundUp(w) == /\ At(w, "winding") /\ Done(w)
              /\ Go(w, "read")
              /\ UNCHANGED <<status, attempts, token, age>>

\* After a cancelled job: wait for the handler and return the job as it was.
Stopped(w) == /\ At(w, "stopping") /\ Done(w)
              /\ Leave(w)
              /\ UNCHANGED <<status, attempts, token, age>>

\* The job is read once more before the report: a cancelled one is left alone.
ReadJob(w) == /\ At(w, "read")
              /\ IF status = "cancelled" THEN Leave(w) ELSE Go(w, "judge")
              /\ UNCHANGED <<status, attempts, token, age>>

\* The request's token is read for the last time: the outcome is settled here,
\* and finish_job, which may wait for SQLite's lock, commits it later.
BranchOnly(w) == work[w].seen
WasCancelled(w) == work[w].seen \/ Cancelled(w)

Judge(w) == /\ At(w, "judge")
            /\ work' = [work EXCEPT ![w].stage = "finish", ![w].seen = WasCancelled(w)]
            /\ UNCHANGED <<status, attempts, token, age>>

\* respect_cancellation.
Reported(w) == IF work[w].body = "succeeded" /\ work[w].seen THEN "partial"
               ELSE work[w].body

Finish(w) == /\ At(w, "finish")
             /\ IF Owns(w)
                THEN EndsAs(Reported(w))
                ELSE UNCHANGED <<status, token, age>>
             /\ Leave(w)
             /\ UNCHANGED attempts

Die(w) == /\ Busy(w)
          /\ Leave(w)
          /\ UNCHANGED <<status, attempts, token, age>>

Run(w) == \/ TakeOutcome(w) \/ TakeCancel(w) \/ Heartbeat(w) \/ Renew(w)
          \/ WoundUp(w) \/ Stopped(w) \/ ReadJob(w) \/ Judge(w) \/ Finish(w)

Next == \/ Tick \/ Enqueue \/ CancelJob \/ RetryJob
        \/ \E w \in Workers :
              \/ WriteOff(w) \/ Claim(w) \/ HandlerReturns(w) \/ Run(w)
              \/ CancelRequest(w) \/ Die(w)

Spec == Init /\ [][Next]_vars

(***************************************************************************)
(* Time passes, handlers return, select! takes a ready outcome sooner or   *)
(* later, and somebody keeps running workers.  Nothing is assumed of       *)
(* cancellation, retry or death.                                           *)
(***************************************************************************)
FairSpec ==
    /\ Spec
    /\ WF_vars(Tick)
    /\ \A w \in Workers :
          /\ WF_vars(WriteOff(w)) /\ WF_vars(Claim(w))
          /\ WF_vars(HandlerReturns(w)) /\ WF_vars(Run(w))
          /\ SF_vars(TakeOutcome(w))

-----------------------------------------------------------------------------
(* Properties.                                                             *)

\* Types, and what a worker's stage says of the job: a token belongs to one
\* worker at most, and the attempts are those the tokens count.
TypeOK ==
    /\ status \in {"absent", "queued", "running"} \cup Retryable \cup Outcomes
    /\ attempts \in 0..MaxAttempts
    /\ token \in 0..attempts /\ (status = "running" <=> token # NoToken)
    /\ age \in 0..Lease
    /\ work \in [Workers -> [stage : Stages, token : 0..attempts,
                             body : Outcomes \cup {"running"},
                             cancel : {"no", "early", "late"}, seen : BOOLEAN]]
    /\ \A v, w \in Workers : Busy(v) /\ work[v].token = work[w].token => v = w

\* jobs.md: "A process crash or lost lease cannot be reported as success."
\* A job succeeds only by the worker of its latest attempt, which completed
\* the handler and whose lease has not run out, and whose request nobody had
\* cancelled by the time run_job looked at its token for the last time, in the
\* select or after it.  A request cancelled later, while the report waits to be
\* committed, may still be recorded as a success.
HonestSuccessStep ==
    status' = "succeeded" /\ status # "succeeded" =>
        \E w \in Workers :
            /\ At(w, "finish") /\ work[w].body = "succeeded"
            /\ work[w].cancel # "early"
            /\ work[w].token = attempts /\ ~Lapsed
HonestSuccess == []TypeOK /\ [][HonestSuccessStep]_vars

\* The job follows the one-job contract, its owner's token by its owner's.
ImplementsLifecycle == Life!LifeSpec

\* A job does not stay running for ever, whatever its workers go through:
\* they stall, die, lose the lease or wait for a handler to wind up.
RunningEnds == status = "running" ~> status # "running"

=============================================================================
