---------------------------- MODULE DealsRefresh ----------------------------
(***************************************************************************)
(* The nightly refresh of the offers: who queues it (the worker's          *)
(* housekeeping() and the "Refresh now" button, ensure_refresh_queued() in *)
(* deals/service.py) and the worker that works off its plan, a chunk of    *)
(* questions per job (_deals_refresh() in jobs/handlers.py).               *)
(*                                                                         *)
(* What the questions bring and what becomes of it is DealsRadar's part.   *)
(* The waits of ensure_refresh_queued() are compared with the last run     *)
(* only, so they are kept as that run's age.                               *)
(***************************************************************************)
EXTENDS JobQueue, FiniteSetsExt

CONSTANTS
    Runs,      \* ids of deal_runs: a bound on how many are ever started
    NoRun,     \* the payload {"run_id": None}
    MaxPlan,   \* bound: the questions of a plan
    Chunk,     \* CHUNK
    Tabs,      \* presses of "Refresh now" that can be under way together
    MaxFlips,  \* bound: changes of the setting deals_enabled
    MaxBugs    \* bound: unexpected handler exceptions

ASSUME RefreshAssumption ==
    /\ Runs \subseteq Nat \ {0}
    /\ NoRun \notin Runs
    /\ MaxPlan \in Nat
    /\ Chunk \in Nat \ {0}
    /\ MaxFlips \in Nat
    /\ MaxBugs \in Nat

VARIABLES
    payload,   \* Job.payload["run_id"]
    run,       \* the rows of deal_runs
    age,       \* of the last run: "new" within REFRESH_COOLDOWN of its start,
               \* "settled" within the gap ensure_refresh_queued() waits, "old"
    enabled,   \* the setting deals_enabled
    page,      \* how far each press of "Refresh now" is
    step,      \* how far each worker is
    on,        \* the run each worker has at hand
    asked,     \* history: the questions put for each run
    stranded,  \* history: runs a crash, a bug or the setting left behind
    flips,     \* history: changes of the setting
    bugs       \* history: unexpected handler exceptions

refreshVars == <<payload, run, age, enabled, page, step, on, asked, stranded, flips, bugs>>
vars == <<jobVars, refreshVars>>

NoRow == [status |-> "absent", plan |-> 0, cursor |-> 0]
Exists(r) == run[r].status # "absent"
Running(r) == run[r].status = "running"
Started == {r \in Runs : Exists(r)}
\* order_by(DealRun.id.desc()).limit(1)
Last == Max(Started)
Open(j) == status[j] \in {"queued", "running"}

Init ==
    /\ JobInit
    /\ payload = [j \in Jobs |-> NoRun]
    /\ run = [r \in Runs |-> NoRow]
    /\ age = "old"
    /\ enabled = TRUE
    /\ page = [t \in Tabs |-> "idle"]
    /\ step = [w \in Workers |-> "idle"]
    /\ on = [w \in Workers |-> NoRun]
    /\ asked = [r \in Runs |-> {}]
    /\ stranded = {}
    /\ flips = 0
    /\ bugs = 0

GoTo(w, s) == step' = [step EXCEPT ![w] = s]
Turn(t, p) == page' = [page EXCEPT ![t] = p]

-----------------------------------------------------------------------------
(* Who queues a refresh *)

DueUnlessRunning ==                                  \* mutant: no two hours
    Started # {} => ~Running(Last) /\ age = "old"
\* Nothing has run yet, or the last run is finished and its gap over, or it
\* has been "running" for two hours.
DueAgain == Started # {} => age = "old"

NoneOpen == ~ \E j \in Jobs : Open(j)

\* enqueue(db, "deals_refresh", {"run_id": None})
NewRefresh ==
    /\ \E j \in Jobs : Enqueue(j)
    /\ UNCHANGED payload

\* deals_refresh(): the setting, the open jobs, the cooldown ...
Press(t) ==
    /\ page[t] = "idle"
    /\ enabled
    /\ NoneOpen
    /\ Started = {} \/ age # "new"
    /\ Turn(t, "pressed")
    /\ UNCHANGED <<jobVars, payload, run, age, enabled, step, on, asked, stranded, flips, bugs>>

\* ... then ensure_refresh_queued(force=True), which looks again ...
PressLook(t) ==
    /\ page[t] = "pressed"
    /\ Turn(t, IF NoneOpen THEN "inserting" ELSE "idle")
    /\ UNCHANGED <<jobVars, payload, run, age, enabled, step, on, asked, stranded, flips, bugs>>

\* ... and inserts.
PressInsert(t) ==
    /\ page[t] = "inserting"
    /\ NewRefresh
    /\ Turn(t, "idle")
    /\ UNCHANGED <<run, age, enabled, step, on, asked, stranded, flips, bugs>>

\* The request breaks off.
PressDrop(t) ==
    /\ page[t] # "idle"
    /\ Turn(t, "idle")
    /\ UNCHANGED <<jobVars, payload, run, age, enabled, step, on, asked, stranded, flips, bugs>>

\* housekeeping(): recover_stuck() ...
Housekeep(w) ==
    /\ step[w] = "idle"
    /\ RecoverStuck(w)
    /\ UNCHANGED refreshVars

\* ... and ensure_refresh_queued(), the look ...
HouseLook(w) ==
    /\ step[w] = "idle" /\ BetweenJobs(w)
    /\ enabled
    /\ NoneOpen
    /\ DueAgain
    /\ GoTo(w, "inserting")
    /\ UNCHANGED <<jobVars, payload, run, age, enabled, page, on, asked, stranded, flips, bugs>>

\* ... and the insert.
HouseInsert(w) ==
    /\ step[w] = "inserting"
    /\ NewRefresh
    /\ GoTo(w, "idle")
    /\ UNCHANGED <<run, age, enabled, page, on, asked, stranded, flips, bugs>>

-----------------------------------------------------------------------------
(* The worker: _deals_refresh() *)

StartJob(w) ==
    /\ step[w] = "idle"
    /\ Claim(w)
    /\ GoTo(w, "claimed")
    /\ UNCHANGED <<payload, run, age, enabled, page, on, asked, stranded, flips, bugs>>

Payload(w) == payload[lease[w].job]

\* deals_enabled is not "on": the job is done, its run is left as it is.
Disabled(w) ==
    /\ step[w] = "claimed"
    /\ ~enabled
    /\ stranded' = stranded \union {r \in Runs : r = Payload(w) /\ Running(r)}
    /\ GoTo(w, "settle")
    /\ UNCHANGED <<jobVars, payload, run, age, enabled, page, on, asked, flips, bugs>>

ResumeAny(w) == Payload(w)                           \* mutant: status not checked
\* The run of the payload, if it is still running.
Resume(w) ==
    IF Payload(w) \in Runs /\ Running(Payload(w)) THEN Payload(w) ELSE NoRun

\* With no run to go on with, start_run() makes one, which nothing commits
\* before the chunk.
Pick(w) ==
    /\ step[w] = "claimed"
    /\ enabled
    /\ on' = [on EXCEPT ![w] = Resume(w)]
    /\ GoTo(w, "asking")
    /\ UNCHANGED <<jobVars, payload, run, age, enabled, page, asked, stranded, flips, bugs>>

NewId(r) == ~Exists(r) /\ \A s \in Runs : s < r => Exists(s)
Plans == [status : {"running"}, plan : 0..MaxPlan, cursor : {0}]

\* The row run_chunk() works on: the one at hand, or a new one.
Row(w, r, row) ==
    \/ r = on[w] /\ row = run[r]
    \/ on[w] = NoRun /\ NewId(r) /\ row \in Plans

\* A new row is the last run, just started.
AgeWith(w) == IF on[w] = NoRun THEN "new" ELSE age
\* A run that finishes starts the gap again.
AgeAtEnd(a) == IF a = "old" THEN "settled" ELSE a

\* min(len(run.plan), run.cursor + CHUNK)
End(row) == IF row.plan < row.cursor + Chunk THEN row.plan ELSE row.cursor + Chunk

MovedToEnd(row) == row.plan                          \* mutant: len(run.plan)
\* run.cursor = end
Moved(row) == End(row)

\* run_chunk(): the questions are put, skipped ones included, and what they
\* brought is committed with the cursor.
Ask(w) ==
    \E r \in Runs, row \in Plans \union {run[s] : s \in Runs} :
        /\ step[w] = "asking"
        /\ Row(w, r, row)
        /\ run' = [run EXCEPT ![r] = [row EXCEPT !.cursor = Moved(row)]]
        /\ asked' = [asked EXCEPT ![r] = @ \union (row.cursor + 1)..End(row)]
        /\ on' = [on EXCEPT ![w] = r]
        /\ age' = AgeWith(w)
        /\ GoTo(w, IF Moved(row) >= row.plan THEN "finishing" ELSE "next")
        /\ UNCHANGED <<jobVars, payload, enabled, page, stranded, flips, bugs>>

\* SourceError with stop: the run has failed, the cursor stays.
SourceBlocks(w) ==
    \E r \in Runs, row \in Plans \union {run[s] : s \in Runs} :
        /\ step[w] = "asking"
        /\ Row(w, r, row)
        /\ row.cursor < row.plan
        /\ run' = [run EXCEPT ![r] = [row EXCEPT !.status = "failed"]]
        /\ on' = [on EXCEPT ![w] = r]
        /\ age' = AgeAtEnd(AgeWith(w))
        /\ GoTo(w, "finishing")
        /\ UNCHANGED <<jobVars, payload, enabled, page, asked, stranded, flips, bugs>>

\* A failed run stays failed, any other is "ok".
Verdict(s) == IF s = "failed" THEN "failed" ELSE "ok"

\* The last commit of finish_run(), after the evaluation, the purge and the
\* alerts.
Close(w) ==
    /\ step[w] = "finishing"
    /\ run' = [run EXCEPT ![on[w]].status = Verdict(@)]
    /\ age' = IF on[w] = Last THEN AgeAtEnd(age) ELSE age
    /\ GoTo(w, "settle")
    /\ UNCHANGED <<jobVars, payload, enabled, page, on, asked, stranded, flips, bugs>>

NextForNone(w) == NoRun                              \* mutant: {"run_id": None}
NextPayload(w) == on[w]

\* enqueue() of the next chunk, which the commit of complete() takes along.
NextChunk(w) ==
    /\ step[w] = "next"
    /\ \E j \in Jobs :
        /\ status[j] = "absent"
        /\ status' = [status EXCEPT ![j] = "queued", ![lease[w].job] = "done"]
        /\ runAfter' = [runAfter EXCEPT ![j] = now]
        /\ payload' = [payload EXCEPT ![j] = NextPayload(w)]
    /\ lease' = [lease EXCEPT ![w] = NoLease]
    /\ on' = [on EXCEPT ![w] = NoRun]
    /\ GoTo(w, "idle")
    /\ UNCHANGED <<attempts, found, now, lost, undone, crashes, run, age, enabled, page, asked,
                   stranded, flips, bugs>>

Finish(w) ==
    /\ step[w] = "settle"
    /\ Complete(w)
    /\ on' = [on EXCEPT ![w] = NoRun]
    /\ GoTo(w, "idle")
    /\ UNCHANGED <<payload, run, age, enabled, page, asked, stranded, flips, bugs>>

\* The runs a worker that stops here has at hand, by its payload or not.
AtHand(w) == {r \in Runs : Running(r) /\ r \in {on[w], Payload(w)}}

\* Any other exception: process_one() fails the job, the run stays.
Bug(w) ==
    /\ step[w] \in {"claimed", "asking", "finishing", "next"}
    /\ bugs < MaxBugs
    /\ bugs' = bugs + 1
    /\ stranded' = stranded \union AtHand(w)
    /\ FailFinal(w)
    /\ on' = [on EXCEPT ![w] = NoRun]
    /\ GoTo(w, "idle")
    /\ UNCHANGED <<payload, run, age, enabled, page, asked, flips>>

\* A crash: the job comes back with its payload, which a first job lacks.
\* (Between two jobs, and before its insert, it has written nothing: its
\* housekeeping starts again.)
Die(w) ==
    /\ step[w] # "idle"
    /\ Crash(w)
    /\ stranded' = IF step[w] = "inserting" THEN stranded
                   ELSE stranded \union (AtHand(w) \ {Payload(w)})
    /\ on' = [on EXCEPT ![w] = NoRun]
    /\ GoTo(w, "idle")
    /\ UNCHANGED <<payload, run, age, enabled, page, asked, flips, bugs>>

-----------------------------------------------------------------------------
ClockTick == Tick /\ UNCHANGED refreshVars

\* Half an hour, then the gap goes by.
TimePasses ==
    /\ age # "old"
    /\ age' = IF age = "new" THEN "settled" ELSE "old"
    /\ UNCHANGED <<jobVars, payload, run, enabled, page, step, on, asked, stranded, flips, bugs>>

\* The user switches the radar off or on.
Flip ==
    /\ flips < MaxFlips
    /\ flips' = flips + 1
    /\ enabled' = ~enabled
    /\ UNCHANGED <<jobVars, payload, run, age, page, step, on, asked, stranded, bugs>>

\* No job or no run id is left.
Exhausted ==
    \/ \A j \in Jobs : status[j] # "absent"
    \/ Started = Runs

\* Between two refreshes, or at the bounds.
AtRest ==
    /\ Exhausted \/ NoneOpen
    /\ UNCHANGED vars

HandlerStep(w) ==
    \/ HouseInsert(w) \/ Disabled(w) \/ Pick(w) \/ Ask(w) \/ SourceBlocks(w)
    \/ Close(w) \/ NextChunk(w) \/ Finish(w) \/ Bug(w)

Next ==
    \/ \E t \in Tabs : Press(t) \/ PressLook(t) \/ PressInsert(t) \/ PressDrop(t)
    \/ \E w \in Workers : Housekeep(w) \/ HouseLook(w) \/ StartJob(w) \/ HandlerStep(w) \/ Die(w)
    \/ ClockTick
    \/ TimePasses
    \/ Flip
    \/ AtRest

Spec == Init /\ [][Next]_vars

\* The worker's loop with its hourly housekeeping, and time.  Nobody has to
\* press a button.
Fairness ==
    /\ WF_vars(ClockTick)
    /\ WF_vars(TimePasses)
    /\ \A w \in Workers :
        /\ WF_vars(Housekeep(w))
        /\ WF_vars(HouseLook(w))
        /\ WF_vars(StartJob(w))
        /\ WF_vars(HandlerStep(w))

FairSpec == Spec /\ Fairness

-----------------------------------------------------------------------------
Rows == [status : {"absent", "running", "ok", "failed"}, plan : 0..MaxPlan,
         cursor : 0..MaxPlan]

\* Every variable keeps its type; a run comes after those before it, and its
\* cursor stays within its plan.
RefreshTypeOK ==
    /\ JobTypeOK
    /\ payload \in [Jobs -> Runs \union {NoRun}]
    /\ run \in [Runs -> Rows]
    /\ \A r \in Runs : run[r].cursor <= run[r].plan
    /\ \A r, s \in Runs : s < r /\ Exists(r) => Exists(s)
    /\ age \in {"new", "settled", "old"}
    /\ enabled \in BOOLEAN
    /\ page \in [Tabs -> {"idle", "pressed", "inserting"}]
    /\ step \in [Workers -> {"idle", "inserting", "claimed", "asking", "finishing", "next",
                             "settle"}]
    /\ on \in [Workers -> Runs \union {NoRun}]
    /\ asked \in [Runs -> SUBSET (1..MaxPlan)]
    /\ stranded \in SUBSET Runs
    /\ flips \in 0..MaxFlips
    /\ bugs \in 0..MaxBugs

\* A run that is "ok" has put every question of its plan, in however many
\* jobs and whatever crashed in between, and a run never asks beyond it.
OkIsComplete ==
    \A r \in Runs :
        /\ asked[r] = 1..run[r].cursor
        /\ run[r].status = "ok" => asked[r] = 1..run[r].plan

Carries(j, r) == Open(j) /\ payload[j] = r

\* A run that is "running" is being worked on: a job carries its id or a
\* worker has it at hand.  Only a crash in its first job, a bug, or the
\* setting switched off between two chunks leaves it "running" for ever.
RunHasWork ==
    \A r \in Runs : Running(r) =>
        \/ \E j \in Jobs : Carries(j, r)
        \/ \E w \in Workers : on[w] = r
        \/ r \in stranded

\* A run that is over stays over: its questions are not asked again and its
\* verdict stands, whatever job comes back with its id.
OverIsOver ==
    [][\A r \in Runs :
        run[r].status \in {"ok", "failed"} =>
            /\ asked'[r] = asked[r]
            /\ run'[r].status = run[r].status]_vars

\* PLAN.md:218, "the worker's hourly housekeeping queues a refresh", whatever
\* became of the last one: a run that failed or was left behind does not keep
\* the next one from being queued.
RefreshComesBack ==
    []<>(~enabled \/ Exhausted \/ \E j \in Jobs : Open(j))
=============================================================================
