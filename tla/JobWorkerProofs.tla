--------------------------- MODULE JobWorkerProofs ---------------------------
(***************************************************************************)
(* Theorems about JobWorker, for every set of workers, every budget of     *)
(* attempts and every length of a lease.                                   *)
(***************************************************************************)
EXTENDS JobWorker, TLAPS

\* A running job belongs to its latest attempt.
LatestOwns == status = "running" => token = attempts

\* A busy worker carries the token of an attempt.
BusyHolds == \A w \in Workers : Busy(w) => work[w].token # NoToken

\* A worker reads the job and reports once its handler has returned.
Reporting   == {"read", "judge", "finish"}
ReportsDone == \A w \in Workers : work[w].stage \in Reporting => Done(w)

\* A worker about to commit its report knows of a request cancelled in time.
KnowsCancel == \A w \in Workers :
    At(w, "finish") /\ work[w].cancel = "early" => work[w].seen

IInv == TypeOK /\ LatestOwns /\ BusyHolds /\ ReportsDone /\ KnowsCancel

\* What a worker may be doing when n attempts were started.
Slot(n) == [stage : Stages, token : 0..n, body : Outcomes \cup {"running"},
            cancel : {"no", "early", "late"}, seen : BOOLEAN]

\* The parts that are about the workers.
OneEach == \A v, w \in Workers : Busy(v) /\ work[v].token = work[w].token => v = w
WorkFine == /\ work \in [Workers -> Slot(attempts)] /\ OneEach /\ BusyHolds
            /\ ReportsDone /\ KnowsCancel

-----------------------------------------------------------------------------
\* The invariant says so of the workers.
LEMMA WorkIsFine == IInv => WorkFine
  BY DEF IInv, TypeOK, WorkFine, Slot, OneEach

\* A worker that goes on keeps its token, one that leaves has none.
LEMMA WorkKept ==
  ASSUME IInv, NEW w \in Workers, NEW s \in Slot(attempts),
         \/ s = Idle
         \/ /\ Busy(w) /\ s.stage # "idle" /\ s.token = work[w].token
            /\ s.stage \in Reporting => s.body # "running"
            /\ s.stage = "finish" /\ s.cancel = "early" => s.seen,
         work' = [work EXCEPT ![w] = s], UNCHANGED attempts
  PROVE  WorkFine'
<1>1. WorkFine
  BY WorkIsFine
<1>2. work' \in [Workers -> Slot(attempts')]
  BY <1>1 DEF WorkFine
<1>3. work'[w] = s /\ \A v \in Workers \ {w} : work'[v] = work[v]
  BY <1>1 DEF WorkFine
<1>4. Idle.stage = "idle" /\ Idle.token = NoToken
  BY DEF Idle
<1>5. BusyHolds'
  BY <1>1, <1>3, <1>4 DEF WorkFine, BusyHolds, Busy, At
<1>6. OneEach'
  BY <1>1, <1>3, <1>4 DEF WorkFine, BusyHolds, OneEach, Busy, At
<1>7. ReportsDone'
  BY <1>1, <1>3, <1>4 DEF WorkFine, ReportsDone, Reporting, Done
<1>8. KnowsCancel'
  BY <1>1, <1>3, <1>4 DEF WorkFine, KnowsCancel, At
<1> QED
  BY <1>2, <1>5, <1>6, <1>7, <1>8 DEF WorkFine

\* The same of a step of the worker alone: the row stays as it is.
LEMMA RowKept ==
  ASSUME IInv, UNCHANGED <<status, attempts, token, age>>, WorkFine'
  PROVE  IInv'
  BY DEF IInv, TypeOK, LatestOwns, WorkFine, Slot, OneEach

\* A step of the row leaves the workers alone.
LEMMA WorkUnchanged ==
  ASSUME IInv, UNCHANGED <<attempts, work>>
  PROVE  WorkFine'
  BY WorkIsFine DEF WorkFine, BusyHolds, OneEach, ReportsDone, KnowsCancel, Busy, At, Done

\* A worker that goes on to a stage (the branches of select! and what follows).
LEMMA Moves ==
  ASSUME IInv, NEW w \in Workers, Busy(w), NEW s \in Stages \ {"idle", "finish"},
         Go(w, s), s \in Reporting => Done(w), UNCHANGED attempts
  PROVE  WorkFine'
<1> DEFINE new == [work[w] EXCEPT !.stage = s]
<1>1. work[w] \in Slot(attempts)
  BY WorkIsFine DEF WorkFine
<1>2. /\ new \in Slot(attempts) /\ new.stage = s /\ new.token = work[w].token
      /\ new.body = work[w].body
  BY <1>1 DEF Slot
<1>3. work' = [work EXCEPT ![w] = new]
  BY DEF Go
<1> HIDE DEF new
<1> QED
  BY <1>2, <1>3, WorkKept DEF Done

\* A worker that returns from run_job, or dies.
LEMMA Leaves ==
  ASSUME IInv, NEW w \in Workers, Leave(w), UNCHANGED attempts
  PROVE  WorkFine'
<1>1. attempts \in Nat
  BY WorkerAssumption DEF IInv, TypeOK
<1>2. Idle \in Slot(attempts)
  BY <1>1 DEF Idle, Slot, Stages, NoToken
<1> QED
  BY <1>2, WorkKept DEF Leave

\* Ending an attempt leaves a well-formed row.
LEMMA Ends ==
  ASSUME IInv, NEW s \in Retryable \cup Outcomes, EndsAs(s), UNCHANGED attempts,
         WorkFine'
  PROVE  IInv'
<1>1. s # "running"
  BY DEF Retryable, Outcomes
<1> QED
  BY <1>1, WorkerAssumption
     DEF IInv, TypeOK, LatestOwns, WorkFine, EndsAs, Slot, OneEach, NoToken

\* A claim starts an attempt with a token that nobody carries (claim_job).
LEMMA ClaimStep == ASSUME IInv, NEW w \in Workers, Claim(w) PROVE IInv'
<1> DEFINE new == [stage |-> "working", token |-> attempts', body |-> "running",
                   cancel |-> "no", seen |-> FALSE]
<1>1. /\ attempts \in Nat /\ attempts' = attempts + 1 /\ attempts' \in 0..MaxAttempts
      /\ WorkFine
  BY WorkIsFine, WorkerAssumption DEF IInv, TypeOK, Claim
<1>2. new.stage = "working" /\ new.token = attempts'
  OBVIOUS
<1>3. work' = [work EXCEPT ![w] = new]
  BY DEF Claim
<1>4. \A v \in Workers : work[v] \in Slot(attempts') /\ work[v].token # attempts'
  BY <1>1 DEF WorkFine, Slot
<1>5. new \in Slot(attempts')
  BY <1>1 DEF Slot, Stages
<1> HIDE DEF new
<1>6. work' \in [Workers -> Slot(attempts')]
  BY <1>1, <1>3, <1>4, <1>5 DEF WorkFine
<1>7. /\ work'[w].token = attempts' /\ work'[w].stage = "working"
      /\ \A v \in Workers \ {w} : work'[v] = work[v]
  BY <1>1, <1>2, <1>3 DEF WorkFine
<1>8. BusyHolds'
  BY <1>1, <1>7 DEF WorkFine, BusyHolds, Busy, At, NoToken
<1>9. OneEach'
  BY <1>1, <1>4, <1>7 DEF WorkFine, OneEach, Busy, At
<1>11. ReportsDone'
  BY <1>1, <1>7 DEF WorkFine, ReportsDone, Reporting, Done
<1>12. KnowsCancel'
  BY <1>1, <1>7 DEF WorkFine, KnowsCancel, At
<1>10. status' = "running" /\ token' = attempts' /\ token' # 0 /\ age' = 0
  BY <1>1 DEF Claim
<1> QED
  BY <1>1, <1>6, <1>8, <1>9, <1>10, <1>11, <1>12, WorkerAssumption
     DEF IInv, TypeOK, LatestOwns, Slot, OneEach, NoToken

\* Every step keeps the invariant.
LEMMA InvStep == IInv /\ [Next]_vars => IInv'
<1> SUFFICES ASSUME IInv, [Next]_vars PROVE IInv'
  OBVIOUS
<1>0. {"renew", "working", "winding", "stopping", "read", "judge"}
          \subseteq Stages \ {"idle", "finish"}
  BY DEF Stages
<1>1. CASE Tick
  <2>1. UNCHANGED <<attempts, work>>
    BY <1>1 DEF Tick
  <2> QED
    BY <1>1, <2>1, WorkUnchanged, WorkerAssumption
       DEF Tick, IInv, TypeOK, LatestOwns, WorkFine, Slot, OneEach
<1>2. CASE Enqueue
  <2>1. UNCHANGED <<attempts, work>>
    BY <1>2 DEF Enqueue
  <2> QED
    BY <1>2, <2>1, WorkUnchanged DEF Enqueue, IInv, TypeOK, LatestOwns, WorkFine, Slot, OneEach
<1>3. CASE CancelJob
  <2>1. UNCHANGED <<attempts, work>> /\ EndsAs("cancelled") /\ "cancelled" \in Outcomes
    BY <1>3 DEF CancelJob, Outcomes
  <2> QED
    BY <2>1, WorkUnchanged, Ends
<1>4. CASE RetryJob
  <2>1. UNCHANGED <<attempts, work>>
    BY <1>4 DEF RetryJob
  <2> QED
    BY <1>4, <2>1, WorkUnchanged
       DEF RetryJob, Retryable, IInv, TypeOK, LatestOwns, WorkFine, Slot, OneEach
<1>5. CASE UNCHANGED vars
  <2>1. UNCHANGED <<status, attempts, token, age>> /\ UNCHANGED <<attempts, work>>
    BY <1>5 DEF vars
  <2> QED
    BY <2>1, WorkUnchanged, RowKept
<1>6. ASSUME NEW w \in Workers, WriteOff(w) PROVE IInv'
  <2>1. UNCHANGED <<attempts, work>> /\ EndsAs("interrupted") /\ "interrupted" \in Retryable
    BY <1>6 DEF WriteOff, Retryable
  <2> QED
    BY <2>1, WorkUnchanged, Ends
<1>7. ASSUME NEW w \in Workers, HandlerReturns(w) PROVE IInv'
  <2>1. PICK outcome \in Outcomes : work' = [work EXCEPT ![w].body = outcome]
    BY <1>7 DEF HandlerReturns
  <2> DEFINE new == [work[w] EXCEPT !.body = outcome]
  <2>2. work[w] \in Slot(attempts) /\ Busy(w)
    BY <1>7, WorkIsFine DEF HandlerReturns, WorkFine
  <2>3. /\ new \in Slot(attempts) /\ new.token = work[w].token
        /\ new.stage # "idle" /\ new.body # "running"
        /\ new.stage = work[w].stage /\ new.cancel = work[w].cancel
        /\ new.seen = work[w].seen
    BY <2>2 DEF Slot, Busy, At, Outcomes
  <2>6. new.stage = "finish" /\ new.cancel = "early" => new.seen
    BY <2>3, WorkIsFine DEF WorkFine, KnowsCancel, At
  <2>4. work' = [work EXCEPT ![w] = new]
    BY <2>1
  <2>5. UNCHANGED <<status, attempts, token, age>>
    BY <1>7 DEF HandlerReturns
  <2> HIDE DEF new
  <2> QED
    BY <2>2, <2>3, <2>4, <2>5, <2>6, WorkKept, RowKept
<1>8. ASSUME NEW w \in Workers, CancelRequest(w) PROVE IInv'
  <2> DEFINE new == [work[w] EXCEPT !.cancel = IF At(w, "finish") THEN "late" ELSE "early"]
  <2>2. work[w] \in Slot(attempts) /\ Busy(w)
    BY <1>8, WorkIsFine DEF CancelRequest, WorkFine
  <2>3. /\ new \in Slot(attempts) /\ new.token = work[w].token
        /\ new.stage # "idle" /\ new.stage = work[w].stage /\ new.body = work[w].body
        /\ ~(new.stage = "finish" /\ new.cancel = "early")
    BY <2>2 DEF Slot, Busy, At
  <2>6. new.stage \in Reporting => new.body # "running"
    BY <2>3, WorkIsFine DEF WorkFine, ReportsDone, Done
  <2>4. work' = [work EXCEPT ![w] = new]
    BY <1>8 DEF CancelRequest
  <2>5. UNCHANGED <<status, attempts, token, age>>
    BY <1>8 DEF CancelRequest
  <2> HIDE DEF new
  <2> QED
    BY <2>2, <2>3, <2>4, <2>5, <2>6, WorkKept, RowKept
<1>9. ASSUME NEW w \in Workers, Die(w) \/ Stopped(w) PROVE IInv'
  <2>1. Leave(w) /\ UNCHANGED <<status, attempts, token, age>>
    BY <1>9 DEF Die, Stopped
  <2> QED
    BY <2>1, Leaves, RowKept
<1>10. ASSUME NEW w \in Workers,
              TakeOutcome(w) \/ Heartbeat(w) \/ WoundUp(w)
       PROVE IInv'
  <2>1. \E s \in Stages \ {"idle", "finish"} : Go(w, s) /\ (s \in Reporting => Done(w))
    BY <1>0, <1>10 DEF TakeOutcome, Heartbeat, WoundUp, Reporting
  <2>2. Busy(w) /\ UNCHANGED <<status, attempts, token, age>>
    BY <1>10 DEF TakeOutcome, Heartbeat, WoundUp, Busy, At
  <2> QED
    BY <2>1, <2>2, Moves, RowKept
<1>11. ASSUME NEW w \in Workers, Renew(w) PROVE IInv'
  <2>1. CASE MayRenew(w)
    <3>1. Busy(w) /\ Go(w, "working") /\ age' = 0 /\ UNCHANGED <<status, attempts, token>>
      BY <1>11, <2>1 DEF Renew, Busy, At
    <3>2. WorkFine'
      BY <1>0, <3>1, Moves DEF Reporting
    <3> QED
      BY <3>1, <3>2, WorkerAssumption DEF IInv, TypeOK, LatestOwns, WorkFine, Slot, OneEach
  <2>2. CASE ~MayRenew(w)
    <3>1. Leave(w) /\ UNCHANGED <<status, attempts, token, age>>
      BY <1>11, <2>2 DEF Renew
    <3> QED
      BY <3>1, Leaves, RowKept
  <2> QED
    BY <2>1, <2>2
<1>12. ASSUME NEW w \in Workers, ReadJob(w) PROVE IInv'
  <2>1. UNCHANGED <<status, attempts, token, age>> /\ Busy(w) /\ Done(w)
    BY <1>12, WorkIsFine DEF ReadJob, Busy, At, WorkFine, ReportsDone, Reporting
  <2>2. Leave(w) \/ Go(w, "judge")
    BY <1>12 DEF ReadJob
  <2> QED
    BY <1>0, <2>1, <2>2, Leaves, Moves, RowKept
<1>14. ASSUME NEW w \in Workers, TakeCancel(w) PROVE IInv'
  <2> DEFINE new == [work[w] EXCEPT !.stage = "winding", !.seen = TRUE]
  <2>1. work[w] \in Slot(attempts) /\ Busy(w)
    BY <1>14, WorkIsFine DEF TakeCancel, WorkFine, Busy, At
  <2>2. new \in Slot(attempts) /\ new.stage = "winding" /\ new.token = work[w].token
    BY <2>1 DEF Slot, Stages
  <2>3. /\ work' = [work EXCEPT ![w] = new]
        /\ UNCHANGED <<status, attempts, token, age>>
    BY <1>14 DEF TakeCancel
  <2> HIDE DEF new
  <2> QED
    BY <2>1, <2>2, <2>3, WorkKept, RowKept DEF Reporting
<1>15. ASSUME NEW w \in Workers, Judge(w) PROVE IInv'
  <2> DEFINE new == [work[w] EXCEPT !.stage = "finish", !.seen = WasCancelled(w)]
  <2>1. work[w] \in Slot(attempts) /\ Busy(w) /\ Done(w)
    BY <1>15, WorkIsFine DEF Judge, WorkFine, ReportsDone, Reporting, Busy, At
  <2>2. WasCancelled(w) \in BOOLEAN
    BY <2>1 DEF WasCancelled, Cancelled, Slot
  <2>3. /\ new \in Slot(attempts) /\ new.stage = "finish" /\ new.token = work[w].token
        /\ new.body = work[w].body /\ new.cancel = work[w].cancel
        /\ new.seen = WasCancelled(w)
    BY <2>1, <2>2 DEF Slot, Stages
  <2>4. /\ work' = [work EXCEPT ![w] = new]
        /\ UNCHANGED <<status, attempts, token, age>>
    BY <1>15 DEF Judge
  <2> HIDE DEF new
  <2>5. new.cancel = "early" => new.seen
    BY <2>3 DEF WasCancelled, Cancelled
  <2> QED
    BY <2>1, <2>3, <2>4, <2>5, WorkKept, RowKept DEF Done
<1>13. ASSUME NEW w \in Workers, Finish(w) PROVE IInv'
  <2>1. Leave(w) /\ UNCHANGED attempts
    BY <1>13 DEF Finish
  <2>2. CASE Owns(w)
    <3>1. EndsAs(Reported(w))
      BY <1>13, <2>2 DEF Finish
    <3>2. Reported(w) \in Outcomes
      BY <1>13, WorkIsFine
         DEF Finish, WorkFine, ReportsDone, Reporting, Slot, Reported, Outcomes, At, Done
    <3> QED
      BY <2>1, <3>1, <3>2, Leaves, Ends
  <2>3. CASE ~Owns(w)
    <3>1. UNCHANGED <<status, attempts, token, age>>
      BY <1>13, <2>1, <2>3 DEF Finish
    <3> QED
      BY <2>1, <3>1, Leaves, RowKept
  <2> QED
    BY <2>2, <2>3
<1> QED
  BY <1>1, <1>2, <1>3, <1>4, <1>5, <1>6, <1>7, <1>8, <1>9, <1>10, <1>11, <1>12, <1>13,
     <1>14, <1>15, ClaimStep DEF Next, Run

\* The inductive invariant: by a report its worker owns the job and has an outcome.
LEMMA Invariant == Spec => []IInv
<1>1. Init => IInv
  BY WorkerAssumption
     DEF Init, IInv, TypeOK, LatestOwns, BusyHolds, ReportsDone, KnowsCancel, Reporting,
         Idle, Stages, Busy, At, Done, NoToken, Retryable
<1> QED
  BY <1>1, InvStep, PTL DEF Spec

-----------------------------------------------------------------------------
\* Success is reported by the worker of the latest attempt, whose handler
\* succeeded, whose lease has not run out and whose request nobody had cancelled
\* when run_job looked at its token for the last time (run_job and
\* finish_job_outcome).
THEOREM Honest == Spec => HonestSuccess
<1>1. IInv => TypeOK
  BY DEF IInv
<1>2. IInv /\ [Next]_vars => [HonestSuccessStep]_vars
  <2> SUFFICES ASSUME IInv, Next, status' = "succeeded", status # "succeeded"
               PROVE HonestSuccessStep
    BY DEF HonestSuccessStep
  <2>1. PICK w \in Workers : Finish(w)
    BY DEF Next, Run, Tick, Enqueue, CancelJob, RetryJob, WriteOff, Claim, HandlerReturns,
           CancelRequest, Die, TakeOutcome, TakeCancel, Heartbeat, Renew, WoundUp,
           Stopped, ReadJob, Judge, EndsAs
  <2>2. Owns(w) /\ Reported(w) = "succeeded" /\ At(w, "finish")
    BY <2>1 DEF Finish, EndsAs
  <2> QED
    BY <2>2 DEF Owns, Reported, IInv, LatestOwns, KnowsCancel, HonestSuccessStep
<1> QED
  BY <1>1, <1>2, Invariant, PTL DEF Spec, HonestSuccess

\* The job a worker claims, loses, reports or leaves behind follows the
\* contract of one job, as every row of the ledger does.
THEOREM WorkerImplements == Spec => ImplementsLifecycle
<1>1. Init => Life!LifeInit
  BY DEF Init, Life!LifeInit
<1>2. IInv /\ [Next]_vars => [Life!LifeNext]_Life!lifeVars
  <2> SUFFICES ASSUME IInv, [Next]_vars PROVE [Life!LifeNext]_Life!lifeVars
    OBVIOUS
  <2> USE DEF Life!LifeNext, Life!lifeVars
  <2>1. CASE Enqueue \/ RetryJob
    BY <2>1 DEF Enqueue, RetryJob, Retryable, Life!Submit, Life!Retryable
  <2>2. CASE CancelJob
    BY <2>2 DEF CancelJob, EndsAs, Life!Cancel
  <2>3. ASSUME NEW w \in Workers, WriteOff(w) PROVE Life!Lapse
    BY <2>3 DEF WriteOff, EndsAs, Life!Lapse
  <2>4. ASSUME NEW w \in Workers, Claim(w) PROVE Life!Start
    <3>1. attempts \in Nat /\ attempts + 1 \in 1..MaxAttempts
      BY <2>4, WorkerAssumption DEF Claim, IInv, TypeOK
    <3>2. 1..(attempts + 1) = (1..attempts) \cup {attempts + 1}
      BY <3>1
    <3> QED
      BY <2>4, <3>1, <3>2 DEF Claim, Life!Start
  <2>5. ASSUME NEW w \in Workers, Finish(w) PROVE [Life!LifeNext]_Life!lifeVars
    <3>1. CASE Owns(w)
      <4>1. Reported(w) \in Outcomes
        BY <2>5, WorkIsFine
           DEF Finish, WorkFine, ReportsDone, Reporting, Slot, Reported, Outcomes, At, Done
      <4> QED
        BY <2>5, <3>1, <4>1 DEF Finish, Owns, EndsAs, Outcomes, Life!Complete, Life!Outcomes
    <3>2. CASE ~Owns(w)
      BY <2>5, <3>2 DEF Finish
    <3> QED
      BY <3>1, <3>2
  <2>6. CASE UNCHANGED <<status, token, attempts>>
    BY <2>6
  <2> QED
    BY <2>1, <2>2, <2>3, <2>4, <2>5, <2>6
       DEF Next, Run, Tick, HandlerReturns, CancelRequest, Die, TakeOutcome, TakeCancel,
           Heartbeat, Renew, WoundUp, Stopped, ReadJob, Judge, vars
<1> QED
  BY <1>1, <1>2, Invariant, PTL DEF Spec, ImplementsLifecycle, Life!LifeSpec
=============================================================================
