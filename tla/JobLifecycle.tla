---------------------------- MODULE JobLifecycle ----------------------------
(***************************************************************************)
(* What the durable ledger promises about ONE job, with no clock, no lease *)
(* length and no other job in sight: who may be working on it, and which   *)
(* ways its status may move.  JobLedger implements it for every job.       *)
(***************************************************************************)
CONSTANTS Tokens,   \* ownership tokens: one is minted per attempt
          NoToken

VARIABLES status,   \* the job's status, "absent" before it is enqueued
          owner,    \* the token of the attempt that owns the job
          spent     \* every token ever issued for this job

lifeVars == <<status, owner, spent>>

Retryable == {"failed", "partial", "interrupted"}
Final     == {"succeeded", "cancelled"}
Outcomes  == {"succeeded", "failed", "partial", "cancelled"}
Statuses  == {"absent", "queued", "running"} \cup Retryable \cup Final

LifeInit == status = "absent" /\ owner = NoToken /\ spent = {}

\* The job enters the queue: for the first time, or again by an explicit retry.
Submit == /\ status \in {"absent"} \cup Retryable
          /\ status' = "queued"
          /\ UNCHANGED <<owner, spent>>

\* An attempt starts, under a token no attempt of this job has carried.  An
\* inline operation starts without ever being queued.
Start == \E t \in Tokens \ spent :
            /\ status \in {"absent", "queued"}
            /\ status' = "running"
            /\ owner' = t
            /\ spent' = spent \cup {t}

\* The owner reports, somebody cancels, or the lease lapses.
Complete == /\ status = "running"
            /\ status' \in Outcomes
            /\ owner' = NoToken
            /\ UNCHANGED spent

Cancel == /\ status \in {"queued", "running"}
          /\ status' = "cancelled"
          /\ owner' = NoToken
          /\ UNCHANGED spent

Lapse == /\ status = "running"
         /\ status' = "interrupted"
         /\ owner' = NoToken
         /\ UNCHANGED spent

LifeNext == Submit \/ Start \/ Complete \/ Cancel \/ Lapse

LifeSpec == LifeInit /\ [][LifeNext]_lifeVars
=============================================================================
