------------------------------ MODULE JobQueue ------------------------------
(***************************************************************************)
(* The Postgres-backed job queue (jobs/queue.py) and the worker loop that  *)
(* drives it (jobs/worker.py).  One table row per job; a worker claims a   *)
(* due row, runs its handler outside any transaction on the row, and ends  *)
(* it with complete() or fail(); housekeeping() returns rows left          *)
(* "running" by a crash.  Every action below is one committed transaction, *)
(* but for recover_stuck(), whose select and update are two steps: it      *)
(* takes no lock in between, and another worker may come first.            *)
(*                                                                         *)
(* Time is an integer clock.  It advances only while something waits for   *)
(* it (a backoff, or a running row growing old), which keeps the state     *)
(* space finite without a horizon.                                         *)
(***************************************************************************)
EXTENDS Naturals, Sequences, FiniteSets

CONSTANTS
    Jobs,         \* row ids; a bound on how many jobs are ever enqueued
    Workers,      \* worker processes (docker-compose.yml runs one)
    NoJob,        \* a worker between two jobs
    MaxAttempts,  \* MAX_ATTEMPTS
    Backoff,      \* BACKOFF_SECONDS
    StuckAfter,   \* STUCK_AFTER
    MaxRun,       \* the longest a live handler runs
    MaxCrashes    \* bound: worker crashes

\* The constants of jobs/queue.py are of the kind they must be.
ASSUME QueueAssumption ==
    /\ Jobs \subseteq Nat
    /\ IsFiniteSet(Workers) /\ Workers # {}
    /\ NoJob \notin Jobs
    /\ MaxAttempts \in Nat \ {0}
    /\ Backoff \in Seq(Nat \ {0}) /\ Len(Backoff) > 0
    /\ StuckAfter \in Nat \ {0}
    /\ MaxRun \in Nat
    /\ MaxCrashes \in Nat

\* What makes age a proof of death: either there is one worker, which does
\* its housekeeping between two jobs (docker-compose.yml runs one), or no
\* live handler ever reaches the age at which a row counts as stuck.
ASSUME LeaseAssumption ==
    \/ \A v, w \in Workers : v = w
    \/ MaxRun < StuckAfter

VARIABLES
    status,    \* Job.status of each row, "absent" before the insert
    attempts,  \* Job.attempts
    runAfter,  \* Job.run_after; the claim time while the row is running
    lease,     \* each worker's in-memory copy of the row it is executing
    found,     \* the rows each worker has selected in recover_stuck(), and when
    now,       \* utcnow()
    lost,      \* history: crashes of a worker while it held each job
    undone,    \* history: updates of recover_stuck() on a row no longer stuck
    crashes    \* history: worker crashes so far

jobVars == <<status, attempts, runAfter, lease, found, now, lost, undone, crashes>>

Statuses == {"absent", "queued", "running", "done", "failed"}
NoLease == [job |-> NoJob, attempt |-> 0, at |-> 0]
Lease == [job : Jobs, attempt : Nat \ {0}, at : Nat]
NothingFound == [jobs |-> {}, at |-> 0]
Found == [jobs : SUBSET Jobs, at : Nat]

Busy(w) == lease[w].job # NoJob
Recovering(w) == found[w].jobs # {}
BetweenJobs(w) == ~Busy(w) /\ ~Recovering(w)
Settled(j) == status[j] \in {"done", "failed"}

JobInit ==
    /\ status = [j \in Jobs |-> "absent"]
    /\ attempts = [j \in Jobs |-> 0]
    /\ runAfter = [j \in Jobs |-> 0]
    /\ lease = [w \in Workers |-> NoLease]
    /\ found = [w \in Workers |-> NothingFound]
    /\ now = 0
    /\ lost = [j \in Jobs |-> 0]
    /\ undone = [j \in Jobs |-> 0]
    /\ crashes = 0

-----------------------------------------------------------------------------
\* enqueue(): a row due at once.  Every caller in src/ leaves run_after at
\* its default or passes the current time.
Enqueue(j) ==
    /\ status[j] = "absent"
    /\ status' = [status EXCEPT ![j] = "queued"]
    /\ runAfter' = [runAfter EXCEPT ![j] = now]
    /\ UNCHANGED <<attempts, lease, found, now, lost, undone, crashes>>

Due(j) == status[j] = "queued" /\ runAfter[j] <= now

\* ORDER BY run_after, id
Before(j, k) ==
    \/ runAfter[j] < runAfter[k]
    \/ runAfter[j] = runAfter[k] /\ j <= k

\* claim_next(): the row lock is held from the select to the commit, so the
\* claim is one step; SKIP LOCKED only orders concurrent claims.
Claim(w) ==
    /\ BetweenJobs(w)
    /\ \E j \in Jobs :
        /\ Due(j)
        /\ \A k \in Jobs : Due(k) => Before(j, k)
        /\ status' = [status EXCEPT ![j] = "running"]
        /\ attempts' = [attempts EXCEPT ![j] = @ + 1]
        /\ runAfter' = [runAfter EXCEPT ![j] = now]
        /\ lease' = [lease EXCEPT ![w] =
                        [job |-> j, attempt |-> attempts[j] + 1, at |-> now]]
    /\ UNCHANGED <<found, now, lost, undone, crashes>>

\* complete()
Complete(w) ==
    /\ Busy(w)
    /\ status' = [status EXCEPT ![lease[w].job] = "done"]
    /\ lease' = [lease EXCEPT ![w] = NoLease]
    /\ UNCHANGED <<attempts, runAfter, found, now, lost, undone, crashes>>

RetryOnceMore(w) == lease[w].attempt <= MaxAttempts                 \* mutant: <= for <
AttemptsRemain(w) == lease[w].attempt < MaxAttempts

BackoffBehind(attempt) == 0 - Backoff[Len(Backoff)]             \* mutant: minus for plus

\* BACKOFF_SECONDS[min(attempts - 1, len - 1)]
BackoffFor(attempt) ==
    Backoff[IF attempt <= Len(Backoff) THEN attempt ELSE Len(Backoff)]

\* fail(retryable=True) with attempts left.  The handler passes on the `now`
\* process_one() was called with, so the wait counts from the claim.
FailRetry(w) ==
    LET mine == lease[w] IN
    /\ Busy(w)
    /\ AttemptsRemain(w)
    /\ status' = [status EXCEPT ![mine.job] = "queued"]
    /\ runAfter' = [runAfter EXCEPT
                        ![mine.job] = mine.at + BackoffFor(mine.attempt)]
    /\ lease' = [lease EXCEPT ![w] = NoLease]
    /\ UNCHANGED <<attempts, found, now, lost, undone, crashes>>

\* fail() without a retry: not retryable, or no attempt left.
FailFinal(w) ==
    /\ Busy(w)
    /\ status' = [status EXCEPT ![lease[w].job] = "failed"]
    /\ lease' = [lease EXCEPT ![w] = NoLease]
    /\ UNCHANGED <<attempts, runAfter, found, now, lost, undone, crashes>>

StuckAtOnce(j) == status[j] = "running"                         \* mutant: any age
StuckWithAttempts(j) ==                                         \* mutant: like fail()
    /\ status[j] = "running"
    /\ runAfter[j] + StuckAfter <= now
    /\ attempts[j] < MaxAttempts
StuckOrFailed(j) ==                                             \* mutant: failed too
    /\ status[j] \in {"running", "failed"}
    /\ runAfter[j] + StuckAfter <= now
Stuck(j) == status[j] = "running" /\ runAfter[j] + StuckAfter <= now

\* recover_stuck(), run by housekeeping() at the top of the worker's loop: a
\* plain select of the rows it takes for stuck ...  The hourly timer is
\* abstracted: it may fire between any two jobs.
SelectStuck(w) ==
    /\ BetweenJobs(w)
    /\ \E j \in Jobs : Stuck(j)
    /\ found' = [found EXCEPT ![w] = [jobs |-> {j \in Jobs : Stuck(j)}, at |-> now]]
    /\ UNCHANGED <<status, attempts, runAfter, lease, now, lost, undone, crashes>>

\* ... and one commit that updates them by primary key with the time taken
\* before the select, whatever they say by now.
RequeueStuck(w) ==
    LET rows == found[w].jobs IN
    /\ Recovering(w)
    /\ status' = [j \in Jobs |-> IF j \in rows THEN "queued" ELSE status[j]]
    /\ runAfter' = [j \in Jobs |-> IF j \in rows THEN found[w].at ELSE runAfter[j]]
    /\ undone' = [j \in Jobs |-> IF j \in rows /\ ~Stuck(j) THEN undone[j] + 1 ELSE undone[j]]
    /\ found' = [found EXCEPT ![w] = NothingFound]
    /\ UNCHANGED <<attempts, lease, now, lost, crashes>>

RecoverStuck(w) == SelectStuck(w) \/ RequeueStuck(w)

\* The process dies (kill, out of memory, an exception outside process_one's
\* try) and is restarted: the rows stay as they are, the copies are gone.
Crash(w) ==
    /\ crashes < MaxCrashes
    /\ crashes' = crashes + 1
    /\ lost' = IF Busy(w) THEN [lost EXCEPT ![lease[w].job] = @ + 1] ELSE lost
    /\ lease' = [lease EXCEPT ![w] = NoLease]
    /\ found' = [found EXCEPT ![w] = NothingFound]
    /\ UNCHANGED <<status, attempts, runAfter, now, undone>>

WaitsForClock(j) ==
    \/ status[j] = "queued" /\ runAfter[j] > now
    \/ status[j] = "running" /\ runAfter[j] + StuckAfter > now

Tick ==
    /\ \E j \in Jobs : WaitsForClock(j)
    /\ \A w \in Workers : Busy(w) => now < lease[w].at + MaxRun
    /\ now' = now + 1
    /\ UNCHANGED <<status, attempts, runAfter, lease, found, lost, undone, crashes>>

\* Every job the bound allows has been enqueued and settled: claim_next()
\* finds nothing, for ever.
Rest ==
    /\ \A j \in Jobs : Settled(j)
    /\ \A w \in Workers : BetweenJobs(w)
    /\ UNCHANGED jobVars

WorkerStep(w) ==
    \/ Claim(w)
    \/ Complete(w)
    \/ FailRetry(w)
    \/ FailFinal(w)
    \/ RecoverStuck(w)
    \/ Crash(w)

JobNext ==
    \/ \E j \in Jobs : Enqueue(j)
    \/ \E w \in Workers : WorkerStep(w)
    \/ Tick
    \/ Rest

JobSpec == JobInit /\ [][JobNext]_jobVars

\* The clock runs, the loop polls and does its housekeeping, and a live
\* handler ends (one way or another).  Nothing obliges a job to be enqueued
\* or a worker to crash.
JobFairness ==
    /\ WF_jobVars(Tick)
    /\ \A w \in Workers :
        /\ WF_jobVars(Claim(w))
        /\ WF_jobVars(Complete(w) \/ FailRetry(w) \/ FailFinal(w))
        /\ WF_jobVars(RecoverStuck(w))

FairJobSpec == JobSpec /\ JobFairness

-----------------------------------------------------------------------------
\* Every variable keeps its type.
JobTypeOK ==
    /\ status \in [Jobs -> Statuses]
    /\ attempts \in [Jobs -> Nat]
    /\ runAfter \in [Jobs -> Nat]
    /\ lease \in [Workers -> Lease \union {NoLease}]
    /\ found \in [Workers -> Found]
    /\ now \in Nat
    /\ lost \in [Jobs -> Nat]
    /\ undone \in [Jobs -> Nat]
    /\ crashes \in Nat

Executors(j) == {w \in Workers : lease[w].job = j}

\* Age alone never gives a job to a second worker, and SKIP LOCKED never
\* gives one row to two: a job has one executor, and one more for each time
\* recover_stuck() updated its row by a select that another worker had
\* overtaken.
SingleExecutor == \A j \in Jobs : Cardinality(Executors(j)) <= 1 + undone[j]

\* recover_stuck() does not look at attempts, so MAX_ATTEMPTS alone does not
\* bound how often a job runs.  It is started at most MAX_ATTEMPTS times,
\* plus, for each crash of a worker that was executing it, once per worker:
\* the recovery, and one overtaken recovery of each other worker.
StartsBounded ==
    \A j \in Jobs : attempts[j] <= MaxAttempts + Cardinality(Workers) * lost[j]

\* What the submitter knows of a row, and what each worker holds.
LedgerPhase ==
    [j \in Jobs |-> IF status[j] = "absent" THEN "absent"
                    ELSE IF Settled(j) THEN "settled" ELSE "open"]
LedgerHeld == [w \in Workers |-> lease[w].job]

Ledger == INSTANCE JobLedger WITH
    phase <- LedgerPhase, tries <- attempts, losses <- lost, repeats <- undone,
    held <- LedgerHeld

\* The queue keeps the promise JobLedger makes: a retry, a crash and a
\* recovery only ever reopen a job nobody holds, a job is taken only while a
\* start is left, and a settled job is never touched again, as long as no
\* worker that recovers it is overtaken by another.
ImplementsLedger == Ledger!LedgerSpec

\* Every enqueued job is settled in the end, crashes on its last attempt
\* and overtaken recoveries included.
EveryJobSettles == \A j \in Jobs : status[j] = "queued" ~> Settled(j)
=============================================================================
