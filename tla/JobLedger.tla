----------------------------- MODULE JobLedger -----------------------------
(***************************************************************************)
(* What the job queue promises its callers, with no clock, no table and    *)
(* no housekeeping: a submitted job stays open until one worker settles    *)
(* it, no two workers ever hold it together, a worker may hand it back     *)
(* only while attempts remain, a crash only reopens it, and a settled job  *)
(* is never touched again.  The one exception is a repeat: the workers     *)
(* that recover a job after a crash may each set it going, and then it has *)
(* that many lives.  With one worker there is none.  JobQueue is shown to  *)
(* implement this.                                                         *)
(***************************************************************************)
EXTENDS Naturals, FiniteSets

CONSTANTS Jobs, Workers, MaxAttempts, NoJob

VARIABLES
    phase,    \* what the submitter knows of each job
    tries,    \* how often each job has been started
    losses,   \* how often a worker died while holding each job
    repeats,  \* how often each job was set going once too often
    held      \* the job each worker is executing, or NoJob

ledgerVars == <<phase, tries, losses, repeats, held>>

Phases == {"absent", "open", "settled"}

LedgerInit ==
    /\ phase = [j \in Jobs |-> "absent"]
    /\ tries = [j \in Jobs |-> 0]
    /\ losses = [j \in Jobs |-> 0]
    /\ repeats = [j \in Jobs |-> 0]
    /\ held = [w \in Workers |-> NoJob]

Submit(j) ==
    /\ phase[j] = "absent"
    /\ phase' = [phase EXCEPT ![j] = "open"]
    /\ UNCHANGED <<tries, losses, repeats, held>>

\* The promise: the job is open, nobody holds it, and it has not yet been
\* started MaxAttempts times, the starts lost to a crash not counted; each
\* repeat allows one more holder and one more start.
Take(w, j) ==
    /\ held[w] = NoJob
    /\ phase[j] = "open"
    /\ Cardinality({v \in Workers : held[v] = j}) <= repeats[j]
    /\ tries[j] < MaxAttempts + losses[j] + repeats[j]
    /\ tries' = [tries EXCEPT ![j] = @ + 1]
    /\ held' = [held EXCEPT ![w] = j]
    /\ UNCHANGED <<phase, losses, repeats>>

Settle(w) ==
    /\ held[w] # NoJob
    /\ phase' = [phase EXCEPT ![held[w]] = "settled"]
    /\ held' = [held EXCEPT ![w] = NoJob]
    /\ UNCHANGED <<tries, losses, repeats>>

HandBack(w) ==
    /\ held[w] # NoJob
    /\ repeats[held[w]] = 0 => phase[held[w]] = "open" /\ tries[held[w]] < MaxAttempts
    /\ phase' = [phase EXCEPT ![held[w]] = "open"]
    /\ held' = [held EXCEPT ![w] = NoJob]
    /\ UNCHANGED <<tries, losses, repeats>>

Lose(w) ==
    /\ held[w] # NoJob
    /\ losses' = [losses EXCEPT ![held[w]] = @ + 1]
    /\ held' = [held EXCEPT ![w] = NoJob]
    /\ UNCHANGED <<phase, tries, repeats>>

\* A worker recovers jobs that another has recovered already: at most once
\* per loss for each worker but the first.
Repeat(S) ==
    /\ \A j \in S : phase[j] # "absent"
    /\ \A j \in S : repeats[j] < (Cardinality(Workers) - 1) * losses[j]
    /\ phase' = [j \in Jobs |-> IF j \in S THEN "open" ELSE phase[j]]
    /\ repeats' = [j \in Jobs |-> IF j \in S THEN repeats[j] + 1 ELSE repeats[j]]
    /\ UNCHANGED <<tries, losses, held>>

LedgerNext ==
    \/ \E j \in Jobs : Submit(j)
    \/ \E w \in Workers, j \in Jobs : Take(w, j)
    \/ \E w \in Workers : Settle(w) \/ HandBack(w) \/ Lose(w)
    \/ \E S \in SUBSET Jobs : Repeat(S)

LedgerSpec == LedgerInit /\ [][LedgerNext]_ledgerVars
=============================================================================
