------------------------------ MODULE StageRun ------------------------------
(***************************************************************************)
(* One (stage, key) of the legacy pipeline: run_stage of driver.py, the    *)
(* StageLock of lock.py (pidfile, kernel lease, breaker mutex), the event  *)
(* log of log.py and compat_pipeline.rs, and rebuild_state over that log.  *)
(*                                                                         *)
(* Processes die at any point and their pids come back as other processes. *)
(* Native processes hold a kernel lease around the pidfile; legacy ones    *)
(* rely on the pidfile alone.  All run on one host, the scope lock.py      *)
(* states.                                                                 *)
(*                                                                         *)
(* LeaseKept, AnyLease, BreaksBlindly and RemovesFirst are mutants:        *)
(* plausible slips in the operator that follows each, used by no action.   *)
(***************************************************************************)
EXTENDS Naturals, Sequences, FiniteSets

CONSTANTS Runs,      \* threads that call run_stage
          Pids,
          PidOf,     \* the pid of the process each thread runs in
          NoOne, None, Torn,
          Retries,   \* attempts to link the pidfile: 8 in the code
          MaxRuns, MaxFaults  \* bounds, for model checking only

\* Of the constants.
Assumptions ==
    /\ PidOf \in [Runs -> Pids]
    /\ NoOne \notin Runs /\ None # Torn
    /\ {None, Torn} \cap [pid : Pids, native : BOOLEAN] = {}
    /\ Retries \in Nat \ {0}
    /\ MaxRuns \in Nat /\ MaxFaults \in Nat

VARIABLES native,   \* the pids whose processes load the native extension
          pidfile,  \* None, Torn, or who published it and how
          kernel,   \* the StageLock that holds the kernel lease, or NoOne
          breaker,  \* who holds the breaker mutex
          log,      \* the events, in order
          at,       \* where each thread stands
          found,    \* the pidfile each thread has read and not yet judged, or None
          tries,    \* links each thread has tried
          entered,  \* number of pidfiles published
          alive,    \* pids of live processes
          deaths,
          breaks,   \* pidfiles the operator broke by force
          losses,   \* events that could not be appended
          outrun    \* a breaker judged a pidfile that was no longer the one it read

lockVars == <<pidfile, kernel, breaker>>
others == <<native, entered, alive, deaths, breaks>>
record == <<log, losses>>
vars == <<lockVars, record, at, found, tries, others, outrun>>

\* "ended" stands for ok, failed and partial, which nothing here tells apart.
Terminal == {"ended", "interrupted"}
Stages   == {"idle", "link", "look", "probe", "break", "reread", "judge", "note",
             "unlink", "start", "run", "check", "remove", "free"}

Holder == [pid : Pids, native : BOOLEAN]
Events == Terminal \cup {"start"}

Init == /\ native \in SUBSET Pids
        /\ pidfile \in {None, Torn}
        /\ kernel = NoOne /\ breaker = NoOne
        /\ log = <<>>
        /\ at = [r \in Runs |-> "idle"]
        /\ found = [r \in Runs |-> None]
        /\ tries = [r \in Runs |-> 0]
        /\ entered = 0
        /\ alive = Pids
        /\ deaths = 0 /\ breaks = 0 /\ losses = 0
        /\ outrun = FALSE

IsNative(r)  == PidOf[r] \in native
Go(r, s)     == at' = [at EXCEPT ![r] = s]
Read(r)      == found' = [found EXCEPT ![r] = pidfile]
Forget(r)    == found' = [found EXCEPT ![r] = None]
Published    == pidfile \notin {None, Torn}
LeaseKept(r) == kernel
Freed(r)     == IF kernel = r THEN NoOne ELSE kernel

\* An event is appended whole, after a torn line if there is one, or not at
\* all when the append fails.
Record(e, r) ==
    \/ /\ log' = Append(log, e)
       /\ UNCHANGED losses
    \/ /\ deaths + breaks + losses < MaxFaults
       /\ losses' = losses + 1
       /\ UNCHANGED log

\* rebuild_state: the last terminal event of the last round.
Starts    == {k \in DOMAIN log : log[k] = "start"}
LastStart == CHOOSE k \in Starts : \A l \in Starts : l <= k
Ends      == {k \in LastStart..Len(log) : log[k] \in Terminal}
Status    == IF Starts = {} THEN "pending"
             ELSE IF Ends = {} THEN "running"
             ELSE log[CHOOSE k \in Ends : \A l \in Ends : l <= k]

-----------------------------------------------------------------------------
(* StageLock.acquire.                                                      *)

\* A native process that finds the kernel lease taken is refused at once.
AnyLease(r) == TRUE
LeaseFree(r) == kernel = NoOne

Enter(r) ==
    /\ at[r] = "idle" /\ PidOf[r] \in alive
    /\ entered < MaxRuns
    /\ IF IsNative(r) THEN LeaseFree(r) /\ kernel' = r ELSE UNCHANGED kernel
    /\ Go(r, "link")
    /\ UNCHANGED <<pidfile, breaker, record, found, tries, others, outrun>>

\* The retry loop ends.
Leave(r) == tries' = [tries EXCEPT ![r] = 0]

\* The holder is live, or the links are used up: StageBusyError.
GiveUp(r) == Go(r, "idle") /\ Leave(r) /\ kernel' = Freed(r)

\* Another round of the retry loop.
Again(r) == tries' = [tries EXCEPT ![r] = @ + 1] /\ Go(r, "link")

\* os.link of a complete candidate file: it is published whole or not at all.
Link(r) ==
    /\ at[r] = "link"
    /\ IF tries[r] = Retries
       THEN GiveUp(r) /\ UNCHANGED <<pidfile, entered>>
       ELSE IF pidfile = None
       THEN /\ entered' = entered + 1
            /\ pidfile' = [pid |-> PidOf[r], native |-> IsNative(r)]
            /\ Go(r, "start") /\ Leave(r)
            /\ UNCHANGED kernel
       ELSE Go(r, "look") /\ UNCHANGED <<pidfile, kernel, entered, tries>>
    /\ UNCHANGED <<breaker, record, found, native, alive, deaths, breaks, outrun>>

\* The pidfile is read, and _is_stale judges what was read a step later: it is
\* malformed, of a former native holder, or its process is dead by then.
Stale(r) ==
    \/ found[r] = Torn
    \/ found[r] \in Holder /\ found[r].native /\ kernel = r
    \/ found[r] \in Holder /\ found[r].pid \notin alive

Look(r) ==
    /\ at[r] = "look"
    /\ IF pidfile = None THEN Again(r) /\ UNCHANGED found
       ELSE Read(r) /\ Go(r, "probe") /\ UNCHANGED tries
    /\ UNCHANGED <<lockVars, record, others, outrun>>

Probe(r) ==
    /\ at[r] = "probe"
    /\ IF Stale(r) THEN Go(r, "break") /\ UNCHANGED <<tries, kernel>>
       ELSE GiveUp(r)
    /\ Forget(r)
    /\ UNCHANGED <<pidfile, breaker, record, others, outrun>>

\* _break_stale: wait for the mutex, read again, judge, log, remove.
Break(r) ==
    /\ at[r] = "break" /\ breaker = NoOne
    /\ breaker' = r
    /\ Go(r, "reread")
    /\ UNCHANGED <<pidfile, kernel, record, found, tries, others, outrun>>

Reread(r) ==
    /\ at[r] = "reread"
    /\ IF pidfile = None THEN Again(r) /\ breaker' = NoOne /\ UNCHANGED found
       ELSE Read(r) /\ Go(r, "judge") /\ UNCHANGED <<tries, breaker>>
    /\ UNCHANGED <<pidfile, kernel, record, others, outrun>>

\* The holder that was read may have released the stage, ended and left it to
\* another since: then the judgement is about a pidfile that is gone.
BreaksBlindly(r) == TRUE
StillStale(r) == Stale(r)
Outruns(r) == StillStale(r) /\ pidfile # found[r]

RemovesFirst(r) ==
    /\ at[r] = "judge"
    /\ IF StillStale(r)
       THEN pidfile' = None /\ Go(r, "note") /\ UNCHANGED <<tries, breaker>>
       ELSE Again(r) /\ breaker' = NoOne /\ UNCHANGED pidfile
    /\ outrun' = (outrun \/ Outruns(r))
    /\ Forget(r)
    /\ UNCHANGED <<kernel, record, others>>

Judge(r) ==
    /\ at[r] = "judge"
    /\ IF StillStale(r) THEN Go(r, "note") /\ UNCHANGED <<tries, breaker>>
       ELSE Again(r) /\ breaker' = NoOne
    /\ outrun' = (outrun \/ Outruns(r))
    /\ Forget(r)
    /\ UNCHANGED <<pidfile, kernel, record, others>>

\* The event goes to the log before the pidfile goes; a failed append does
\* not keep the pidfile.
Note(r) ==
    /\ at[r] = "note"
    /\ Record("interrupted", r)
    /\ Go(r, "unlink")
    /\ UNCHANGED <<lockVars, found, tries, others, outrun>>

Unlink(r) ==
    /\ at[r] = "unlink"
    /\ pidfile' = None
    /\ breaker' = NoOne
    /\ Again(r)
    /\ UNCHANGED <<kernel, record, found, others, outrun>>

-----------------------------------------------------------------------------
(* run_stage, once the lock is held.                                       *)

\* A start that cannot be logged releases the lock.
Start(r) ==
    /\ at[r] = "start"
    /\ Record("start", r)
    /\ Go(r, IF log' = log THEN "check" ELSE "run")
    /\ UNCHANGED <<lockVars, found, tries, others, outrun>>

\* The handler returns or raises: one terminal event, then the release.
End(r) ==
    /\ at[r] = "run"
    /\ Record("ended", r)
    /\ Go(r, "check")
    /\ UNCHANGED <<lockVars, found, tries, others, outrun>>

\* release: the pidfile is removed if it names this process.
IsOurs(r) == Published /\ pidfile.pid = PidOf[r]

Check(r) ==
    /\ at[r] = "check"
    /\ Go(r, IF IsOurs(r) THEN "remove" ELSE "free")
    /\ UNCHANGED <<lockVars, record, found, tries, others, outrun>>

Remove(r) ==
    /\ at[r] = "remove"
    /\ pidfile' = None
    /\ Go(r, "free")
    /\ UNCHANGED <<kernel, breaker, record, found, tries, others, outrun>>

Free(r) ==
    /\ at[r] = "free"
    /\ kernel' = Freed(r)
    /\ Go(r, "idle")
    /\ UNCHANGED <<pidfile, breaker, record, found, tries, others, outrun>>

-----------------------------------------------------------------------------
(* Processes and the operator.                                             *)

\* A process dies: its flocks go with it, its pidfile stays.
Die(p) ==
    /\ p \in alive /\ deaths + breaks + losses < MaxFaults
    /\ alive' = alive \ {p}
    /\ at' = [r \in Runs |-> IF PidOf[r] = p THEN "idle" ELSE at[r]]
    /\ found' = [r \in Runs |-> IF PidOf[r] = p THEN None ELSE found[r]]
    /\ tries' = [r \in Runs |-> IF PidOf[r] = p THEN 0 ELSE tries[r]]
    /\ kernel' = IF kernel # NoOne /\ PidOf[kernel] = p THEN NoOne ELSE kernel
    /\ breaker' = IF breaker # NoOne /\ PidOf[breaker] = p THEN NoOne ELSE breaker
    /\ deaths' = deaths + 1
    /\ UNCHANGED <<native, pidfile, record, entered, breaks, outrun>>

\* Its pid is given to another process, which may run the same program.
Reuse(p) ==
    /\ p \notin alive
    /\ alive' = alive \cup {p}
    /\ UNCHANGED <<native, lockVars, record, at, found, tries, entered, deaths, breaks,
                   outrun>>

\* force_break.
ForceBreak ==
    /\ pidfile # None /\ deaths + breaks + losses < MaxFaults
    /\ pidfile' = None
    /\ breaks' = breaks + 1
    /\ UNCHANGED <<native, kernel, breaker, record, at, found, tries, entered, alive,
                   deaths, outrun>>

Step(r) == \/ Link(r) \/ Look(r) \/ Probe(r) \/ Break(r) \/ Reread(r) \/ Judge(r)
           \/ Note(r) \/ Unlink(r)
           \/ Start(r) \/ End(r) \/ Check(r) \/ Remove(r) \/ Free(r)

Next == \/ \E r \in Runs : Enter(r) \/ Step(r)
        \/ \E p \in Pids : Die(p) \/ Reuse(p)
        \/ ForceBreak

Spec == Init /\ [][Next]_vars

-----------------------------------------------------------------------------
(* Properties.                                                             *)

Holding(r) == at[r] \in {"start", "run"}

\* Types, and who may hold the lease and the breaker mutex: a live process that
\* will go on, so nobody waits for the mutex for ever.
TypeOK ==
    /\ native \subseteq Pids
    /\ pidfile \in Holder \cup {None, Torn}
    /\ kernel \in Runs \cup {NoOne} /\ breaker \in Runs \cup {NoOne}
    /\ log \in Seq(Events)
    /\ at \in [Runs -> Stages] /\ tries \in [Runs -> 0..Retries]
    /\ entered \in Nat /\ alive \subseteq Pids /\ deaths \in Nat /\ breaks \in Nat /\ losses \in Nat
    /\ outrun \in BOOLEAN
    /\ found \in [Runs -> Holder \cup {None, Torn}]
    /\ \A r \in Runs :
          /\ found[r] # None <=> at[r] \in {"probe", "judge"}
          /\ kernel = r <=> IsNative(r) /\ at[r] # "idle"
          /\ breaker = r <=> at[r] \in {"reread", "judge", "note", "unlink"}
          /\ at[r] # "idle" => PidOf[r] \in alive

\* An operator who breaks a live run's pidfile lets the next legacy run in, as
\* force_break warns; so does a breaker whose pidfile was released, its process
\* ended and another published between the read of the file and the probe of
\* the pid, of which lock.py says nothing.  Native runs are still kept apart by
\* the kernel lease.
Trusted == breaks = 0 /\ ~outrun
Guarded == Trusted \/ native = Pids

\* lock.py: "mutual exclusion for a long-running stage".  Two threads never
\* hold the stage together: whatever processes die, whoever finds their
\* pidfiles, and whichever pids come back.
Exclusive == Guarded => \A q, r \in Runs : Holding(q) /\ Holding(r) => q = r

\* lock.py: "no pidfile is unlinked here unless it is re-verified stale inside
\* the breaker mutex".  Not kept: a breaker that was outrun removes the pidfile
\* of a live run.
RemovesStale == breaks = 0 => \A q, r \in Runs : at[r] = "unlink" => ~Holding(q)

\* While a thread runs the stage, rebuild_state says "running": no process
\* that took it for dead writes "interrupted" into its round.
LiveRunReadsRunning ==
    Guarded => ((\E r \in Runs : at[r] = "run") => Status = "running")

\* A run reads as running only while its pidfile is there to be broken: one
\* that died is resolved before anything removes the trace of it, unless the
\* event that resolves it cannot be appended.
DeadRunIsTraced == Trusted /\ losses = 0 /\ Status = "running" => Published

=============================================================================
