----------------------------- MODULE DealsProofs -----------------------------
(***************************************************************************)
(* Proofs about the offers: about DealsRefresh with the one worker that    *)
(* docker-compose.yml runs, for every number of jobs, runs, questions,     *)
(* crashes and bugs and every chunk, and about DealsRadar, for all offers, *)
(* rules and requests.                                                     *)
(***************************************************************************)
EXTENDS DealsRefresh, DealsRadar, JobQueueProofs

USE RefreshAssumption

-----------------------------------------------------------------------------
(* The refresh and its queue. *)

\* A worker holds a row exactly while it works on a job.
StepsAgree == \A w \in Workers : Busy(w) <=> step[w] \notin {"idle", "inserting"}

\* Only a job that has been inserted names a run.
NewJobsAreBlank == \A j \in Jobs : status[j] = "absent" => payload[j] = NoRun

Over(r) == run[r].status \in {"ok", "failed"}
AtWork == {"asking", "finishing", "next"}

\* The questions of a run are put from the first on, and all of them before
\* it is "ok".
QuestionsInOrder ==
    \A r \in Runs :
        /\ asked[r] = 1..run[r].cursor
        /\ run[r].status = "ok" => run[r].cursor = run[r].plan
        /\ run[r].status = "absent" => run[r] = NoRow

\* The run a worker has at hand is where the worker's step says.
HandsAgree ==
    \A w \in Workers :
        /\ on[w] # NoRun => Exists(on[w]) /\ step[w] \in AtWork \union {"settle"}
        /\ step[w] = "asking" /\ on[w] # NoRun => Running(on[w])
        /\ step[w] = "next" => on[w] \in Runs /\ Running(on[w])
        /\ step[w] = "finishing" =>
              /\ on[w] \in Runs
              /\ Running(on[w]) => run[on[w]].cursor = run[on[w]].plan

\* A run is in one hand: of one worker, and of the one job that carries it.
OneHandEach ==
    /\ \A v, w \in Workers : on[v] = on[w] /\ on[w] # NoRun => v = w
    /\ \A j, k \in Jobs, r \in Runs : Carries(j, r) /\ Carries(k, r) => j = k
    /\ \A w \in Workers, j \in Jobs, r \in Runs :
           on[w] = r /\ Carries(j, r) => lease[w].job = j

\* A job names a run that exists; a worker that goes on without the run its
\* job names does so because that one is over.
CarriedRunsExist ==
    /\ \A j \in Jobs, r \in Runs : Carries(j, r) => Exists(r)
    /\ \A w \in Workers : step[w] \in AtWork =>
           Payload(w) = NoRun \/ Payload(w) = on[w] \/ Over(Payload(w))

\* A worker that is about to mark its job done leaves no run behind that is
\* not over, or known to be stranded.
NothingLeftRunning ==
    \A w \in Workers, r \in Runs :
        step[w] = "settle" /\ r \in {on[w], Payload(w)} => ~Running(r) \/ r \in stranded

RefreshWork ==
    /\ StepsAgree
    /\ NewJobsAreBlank
    /\ QuestionsInOrder
    /\ HandsAgree
    /\ OneHandEach
    /\ CarriedRunsExist
    /\ NothingLeftRunning
    /\ RunHasWork

\* The inductive invariant, of one worker: a second one could go on with a
\* chunk that an overtaken recovery has given to both.
RefreshInv == OneWorker /\ SoleInv /\ RefreshTypeOK /\ RefreshWork

\* The job of the next chunk and the end of this one, in one commit: the new
\* row is nobody's, and the worker lets go of its own.
LEMMA NextChunkSole ==
    ASSUME OneWorker, SoleInv, NEW w \in Workers, Busy(w), NextChunk(w)
    PROVE  SoleInv'
  <1> DEFINE d == lease[w].job
  <1>1. PICK j \in Jobs :
            /\ status' = [status EXCEPT ![j] = "queued", ![d] = "done"]
            /\ runAfter' = [runAfter EXCEPT ![j] = now]
    BY DEF NextChunk
  <1>2. /\ lease' = [lease EXCEPT ![w] = NoLease]
        /\ UNCHANGED <<attempts, found, now, lost, undone, crashes>>
    BY DEF NextChunk
  <1>3. JobTypeOK'
    <2>1. status' \in [Jobs -> Statuses] /\ runAfter' \in [Jobs -> Nat]
      BY <1>1 DEF SoleInv, JobTypeOK, Statuses
    <2> QED
      BY <1>2, <2>1 DEF SoleInv, JobTypeOK
  <1> QED
    BY <1>2, <1>3, ReleaseSole

\* Every step of the refresh keeps the queue in order.
LEMMA RefreshKeepsQueue ==
    ASSUME RefreshInv, [Next]_vars
    PROVE  SoleInv'
  <1>1. CASE [JobNext]_jobVars
    BY <1>1, NextSole, NextKeepsTypes DEF RefreshInv, SoleInv
  <1>2. ASSUME NEW w \in Workers, NextChunk(w)
        PROVE  SoleInv'
    <2>1. Busy(w)
      BY <1>2 DEF RefreshInv, RefreshWork, StepsAgree, NextChunk
    <2> QED
      BY <1>2, <2>1, NextChunkSole DEF RefreshInv
  <1>3. ASSUME NEW t \in Tabs, Press(t) \/ PressLook(t) \/ PressInsert(t) \/ PressDrop(t)
        PROVE  [JobNext]_jobVars
    BY <1>3 DEF Press, PressLook, PressInsert, PressDrop, NewRefresh, JobNext
  <1>4. ASSUME NEW w \in Workers,
               Housekeep(w) \/ HouseLook(w) \/ HouseInsert(w) \/ StartJob(w) \/ Die(w)
        PROVE  [JobNext]_jobVars
    BY <1>4 DEF Housekeep, HouseLook, HouseInsert, NewRefresh, StartJob, Die, JobNext,
                WorkerStep
  <1>5. ASSUME NEW w \in Workers,
               Disabled(w) \/ Pick(w) \/ Ask(w) \/ SourceBlocks(w) \/ Close(w)
               \/ Finish(w) \/ Bug(w)
        PROVE  [JobNext]_jobVars
    BY <1>5 DEF Disabled, Pick, Ask, SourceBlocks, Close, Finish, Bug, JobNext, WorkerStep
  <1>6. CASE ClockTick \/ TimePasses \/ Flip \/ AtRest \/ UNCHANGED vars
    <2>1. [JobNext]_jobVars
      BY <1>6 DEF ClockTick, TimePasses, Flip, AtRest, vars, JobNext
    <2> QED
      BY <1>1, <2>1
  <1> QED
    BY <1>1, <1>2, <1>3, <1>4, <1>5, <1>6 DEF Next, HandlerStep

\* A chunk ends within the plan and not before it began, and the questions
\* up to its end are those put before and its own.
LEMMA ChunkEnds ==
    ASSUME NEW row, row.plan \in Nat, row.cursor \in Nat, row.cursor <= row.plan
    PROVE  /\ End(row) \in Nat /\ row.cursor <= End(row) /\ End(row) <= row.plan
           /\ (1..row.cursor) \union ((row.cursor + 1)..End(row)) = 1..End(row)
  BY DEF End

\* A row is its three columns.
LEMMA RowParts ==
    ASSUME NEW row \in Rows
    PROVE  /\ row = [status |-> row.status, plan |-> row.plan, cursor |-> row.cursor]
           /\ row.plan \in 0..MaxPlan /\ row.cursor \in 0..MaxPlan
  BY DEF Rows

\* A new run is its plan.
LEMMA PlanParts ==
    ASSUME NEW row \in Plans
    PROVE  /\ row = [status |-> "running", plan |-> row.plan, cursor |-> 0]
           /\ row.plan \in 0..MaxPlan
  BY DEF Plans

WorkedOn == [status : {"running", "failed"}, plan : 0..MaxPlan, cursor : 0..MaxPlan]

\* What run_chunk() does to the run it works on, a new one or the one at
\* hand, which is running: the questions put are those up to the cursor, and
\* the worker is at the end, goes on with the run later, or was blocked.
LEMMA ChunkShape ==
    ASSUME RefreshInv, NEW w \in Workers, Ask(w) \/ SourceBlocks(w)
    PROVE  \E r \in Runs, new \in WorkedOn, s \in {"finishing", "next"} :
               /\ step[w] = "asking"
               /\ (r = on[w] /\ Running(r)) \/ (on[w] = NoRun /\ NewId(r))
               /\ new.cursor <= new.plan
               /\ run' = [run EXCEPT ![r] = new]
               /\ asked' = [asked EXCEPT ![r] = 1..new.cursor]
               /\ on' = [on EXCEPT ![w] = r]
               /\ step' = [step EXCEPT ![w] = s]
               /\ new.status = "failed" => s = "finishing"
               /\ new.status = "running" /\ s = "finishing" => new.cursor = new.plan
  <1>1. PICK r \in Runs, row \in Plans \union {run[q] : q \in Runs} :
            /\ step[w] = "asking" /\ Row(w, r, row) /\ on' = [on EXCEPT ![w] = r]
            /\ \/ /\ run' = [run EXCEPT ![r] = [row EXCEPT !.cursor = Moved(row)]]
                  /\ asked' = [asked EXCEPT ![r] = @ \union (row.cursor + 1)..End(row)]
                  /\ GoTo(w, IF Moved(row) >= row.plan THEN "finishing" ELSE "next")
               \/ /\ run' = [run EXCEPT ![r] = [row EXCEPT !.status = "failed"]]
                  /\ GoTo(w, "finishing") /\ UNCHANGED asked
    BY DEF Ask, SourceBlocks
  <1>2. /\ asked \in [Runs -> SUBSET (1..MaxPlan)]
        /\ run \in [Runs -> Rows]
    BY DEF RefreshInv, RefreshTypeOK
  <1>3. PICK c \in 0..MaxPlan, q \in 0..MaxPlan :
            /\ row = [status |-> "running", plan |-> q, cursor |-> c]
            /\ c <= q /\ asked[r] = 1..c
            /\ (r = on[w] /\ Running(r)) \/ (on[w] = NoRun /\ NewId(r))
    <2>1. CASE r = on[w] /\ row = run[r]
      <3>1. Running(r)
        BY <1>1, <2>1, RefreshAssumption DEF RefreshInv, RefreshWork, HandsAgree
      <3>2. row.cursor <= row.plan /\ asked[r] = 1..row.cursor
        BY <2>1 DEF RefreshInv, RefreshWork, QuestionsInOrder, RefreshTypeOK
      <3>3. row \in Rows /\ row.status = "running"
        BY <1>2, <2>1, <3>1 DEF Running
      <3>4. row = [status |-> "running", plan |-> row.plan, cursor |-> row.cursor]
            /\ row.plan \in 0..MaxPlan /\ row.cursor \in 0..MaxPlan
        BY <3>3, RowParts
      <3>5. PICK c \in 0..MaxPlan, q \in 0..MaxPlan : c = row.cursor /\ q = row.plan
        BY <3>4
      <3>6. row = [status |-> "running", plan |-> q, cursor |-> c] /\ c <= q
            /\ asked[r] = 1..c
        BY <3>2, <3>4, <3>5
      <3> QED
        BY <2>1, <3>1, <3>6
    <2>2. CASE on[w] = NoRun /\ NewId(r) /\ row \in Plans
      <3>1. asked[r] = 1..0
        <4>1. run[r].status = "absent"
          BY <2>2 DEF NewId, Exists
        <4>2. run[r] = NoRow
          BY <4>1 DEF RefreshInv, RefreshWork, QuestionsInOrder
        <4>3. asked[r] = 1..run[r].cursor
          BY DEF RefreshInv, RefreshWork, QuestionsInOrder
        <4> QED
          BY <4>2, <4>3 DEF NoRow
      <3>2. row = [status |-> "running", plan |-> row.plan, cursor |-> 0]
            /\ row.plan \in 0..MaxPlan
        BY <2>2, PlanParts
      <3>3. 0 \in 0..MaxPlan /\ 0 <= row.plan
        BY <3>2
      <3> QED
        BY <2>2, <3>1, <3>2, <3>3
    <2> QED
      BY <1>1, <2>1, <2>2 DEF Row
  <1>4. row.plan = q /\ row.cursor = c /\ row.status = "running" /\ q \in Nat /\ c \in Nat
    BY <1>3
  <1>5. CASE /\ run' = [run EXCEPT ![r] = [row EXCEPT !.cursor = Moved(row)]]
             /\ asked' = [asked EXCEPT ![r] = @ \union (row.cursor + 1)..End(row)]
             /\ GoTo(w, IF Moved(row) >= row.plan THEN "finishing" ELSE "next")
    <2>1. PICK e \in Nat : /\ e = End(row) /\ c <= e /\ e <= q
                           /\ (1..c) \union ((c + 1)..e) = 1..e
      BY <1>3, <1>4, ChunkEnds
    <2>2. PICK new \in WorkedOn : new = [status |-> "running", plan |-> q, cursor |-> e]
      <3>1. e \in 0..MaxPlan
        BY <2>1
      <3> QED
        BY <3>1 DEF WorkedOn
    <2>3. [row EXCEPT !.cursor = Moved(row)] = new
      BY <1>3, <2>1, <2>2 DEF Moved
    <2>4. asked' = [asked EXCEPT ![r] = 1..e]
      BY <1>2, <1>3, <1>4, <1>5, <2>1
    <2>5. PICK s \in {"finishing", "next"} : s = IF e >= q THEN "finishing" ELSE "next"
      OBVIOUS
    <2>6. step' = [step EXCEPT ![w] = s]
      BY <1>4, <1>5, <2>1, <2>5 DEF GoTo, Moved
    <2>7. s = "finishing" => new.cursor = new.plan
      BY <2>1, <2>2, <2>5
    <2>8. new.status = "running" /\ new.cursor = e /\ new.plan = q
      BY <2>2
    <2> QED
      BY <1>1, <1>3, <1>5, <2>1, <2>3, <2>4, <2>6, <2>7, <2>8
  <1>6. CASE /\ run' = [run EXCEPT ![r] = [row EXCEPT !.status = "failed"]]
             /\ GoTo(w, "finishing") /\ UNCHANGED asked
    <2>1. PICK new \in WorkedOn : new = [status |-> "failed", plan |-> q, cursor |-> c]
      BY <1>3 DEF WorkedOn
    <2>2. [row EXCEPT !.status = "failed"] = new
      BY <1>3, <2>1
    <2>3. asked' = [asked EXCEPT ![r] = 1..c]
      BY <1>2, <1>3, <1>6
    <2>4. new.status = "failed" /\ new.cursor = c /\ new.plan = q
      BY <2>1
    <2> QED
      BY <1>1, <1>3, <1>6, <2>2, <2>3, <2>4 DEF GoTo
  <1> QED
    BY <1>1, <1>5, <1>6

\* What a step may do to the rows of deal_runs: nothing, or run_chunk() on a
\* run that is running or new, or the verdict of finish_run().
LEMMA RunChanges ==
    ASSUME RefreshInv, [Next]_vars
    PROVE  \/ UNCHANGED <<run, asked>>
           \/ \E w \in Workers : Ask(w) \/ SourceBlocks(w)
           \/ \E w \in Workers : Close(w)
  BY DEF Next, vars, refreshVars, HandlerStep, Press, PressLook, PressInsert, PressDrop,
         Housekeep, HouseLook, HouseInsert, StartJob, Disabled, Pick, NextChunk, Finish,
         Bug, Die, ClockTick, TimePasses, Flip, AtRest

\* The verdict falls on the run at hand, and its questions are all put or it
\* has failed.
LEMMA CloseShape ==
    ASSUME RefreshInv, NEW w \in Workers, Close(w)
    PROVE  \E r \in Runs, v \in {"ok", "failed"} :
               /\ step[w] = "finishing" /\ r = on[w] /\ Exists(r)
               /\ run' = [run EXCEPT ![r] =
                             [status |-> v, plan |-> run[r].plan, cursor |-> run[r].cursor]]
               /\ Over(r) => v = run[r].status
               /\ v = "ok" => run[r].cursor = run[r].plan
  <1>1. PICK r \in Runs : r = on[w] /\ Exists(r) /\ (Running(r) => run[r].cursor = run[r].plan)
    BY RefreshAssumption DEF RefreshInv, RefreshWork, HandsAgree, Close
  <1>2. run[r] \in Rows
    BY DEF RefreshInv, RefreshTypeOK
  <1>3. PICK v \in {"ok", "failed"} : v = Verdict(run[r].status)
    BY DEF Verdict
  <1>4. [run[r] EXCEPT !.status = Verdict(run[r].status)]
        = [status |-> v, plan |-> run[r].plan, cursor |-> run[r].cursor]
    BY <1>2, <1>3 DEF Rows
  <1>5. run' = [run EXCEPT ![r] = [run[r] EXCEPT !.status = Verdict(run[r].status)]]
    BY <1>1 DEF Close
  <1>6. Over(r) => v = run[r].status
    BY <1>3 DEF Verdict, Over
  <1>7. v = "ok" => run[r].cursor = run[r].plan
    <2>1. v = "ok" => Running(r) \/ run[r].status = "ok"
      BY <1>1, <1>2, <1>3 DEF Verdict, Running, Exists, Rows
    <2> QED
      BY <1>1, <2>1 DEF RefreshInv, RefreshWork, QuestionsInOrder
  <1> QED
    BY <1>1, <1>4, <1>5, <1>6, <1>7 DEF Close

\* What the rows of deal_runs keep in every step: a new run is the next id,
\* a cursor stays within its plan and behind the questions put, and a run
\* that is over stays as it is.
RowsInOrder ==
    /\ run' \in [Runs -> Rows]
    /\ asked' \in [Runs -> SUBSET (1..MaxPlan)]
    /\ \A r \in Runs : run'[r].cursor <= run'[r].plan
    /\ \A r \in Runs : Exists(r) => run'[r].status # "absent"
    /\ \A r, s \in Runs : s < r /\ run'[r].status # "absent" => run'[s].status # "absent"
    /\ \A r \in Runs : Over(r) => asked'[r] = asked[r] /\ run'[r].status = run[r].status
    /\ QuestionsInOrder'

\* One row written, a running one or the next one.
LEMMA RowWritten ==
    ASSUME RefreshInv,
           NEW r \in Runs, NEW row \in Rows,
           Exists(r) \/ NewId(r),
           row.status # "absent" /\ row.cursor <= row.plan,
           row.status = "ok" => row.cursor = row.plan,
           Over(r) => row.status = run[r].status /\ row.cursor = run[r].cursor,
           run' = [run EXCEPT ![r] = row],
           asked' = [asked EXCEPT ![r] = 1..row.cursor]
    PROVE  RowsInOrder
  <1>1. /\ run \in [Runs -> Rows]
        /\ asked \in [Runs -> SUBSET (1..MaxPlan)]
        /\ \A q \in Runs : run[q].cursor <= run[q].plan
        /\ \A p, q \in Runs : q < p /\ Exists(p) => Exists(q)
        /\ QuestionsInOrder
    BY DEF RefreshInv, RefreshTypeOK, RefreshWork
  <1>2. row.cursor \in 0..MaxPlan
    BY RowParts
  <1>3. /\ run'[r] = row /\ asked'[r] = 1..row.cursor
        /\ \A q \in Runs \ {r} : run'[q] = run[q] /\ asked'[q] = asked[q]
    BY <1>1
  <1>4. run' \in [Runs -> Rows]
    BY <1>1
  <1>5. asked' \in [Runs -> SUBSET (1..MaxPlan)]
    <2>1. 1..row.cursor \in SUBSET (1..MaxPlan)
      BY <1>2, RefreshAssumption
    <2> QED
      BY <1>1, <2>1
  <1>6. \A q \in Runs : run'[q].cursor <= run'[q].plan
    BY <1>1, <1>3
  <1>7. \A q \in Runs : Exists(q) => run'[q].status # "absent"
    BY <1>3 DEF Exists
  <1>8. \A p, q \in Runs : q < p /\ run'[p].status # "absent" => run'[q].status # "absent"
    <2> SUFFICES ASSUME NEW p \in Runs, NEW q \in Runs, q < p, run'[p].status # "absent"
                 PROVE  run'[q].status # "absent"
      OBVIOUS
    <2>1. CASE p = r
      BY <1>1, <1>7, <2>1 DEF NewId
    <2>2. CASE p # r
      BY <1>1, <1>3, <1>7, <2>2 DEF Exists
    <2> QED
      BY <2>1, <2>2
  <1>9. \A q \in Runs : Over(q) => asked'[q] = asked[q] /\ run'[q].status = run[q].status
    <2>1. Over(r) => asked'[r] = asked[r] /\ run'[r].status = run[r].status
      BY <1>1, <1>3 DEF QuestionsInOrder
    <2> QED
      BY <1>3, <2>1
  <1>10. QuestionsInOrder'
    <2> SUFFICES ASSUME NEW q \in Runs
                 PROVE  /\ asked'[q] = 1..run'[q].cursor
                        /\ run'[q].status = "ok" => run'[q].cursor = run'[q].plan
                        /\ run'[q].status = "absent" => run'[q] = NoRow
      BY DEF QuestionsInOrder, NoRow
    <2>1. CASE q = r
      BY <1>3, <2>1
    <2>2. CASE q # r
      BY <1>1, <1>3, <2>2 DEF QuestionsInOrder
    <2> QED
      BY <2>1, <2>2
  <1> QED
    BY <1>4, <1>5, <1>6, <1>7, <1>8, <1>9, <1>10 DEF RowsInOrder

\* Every step of the refresh.
LEMMA RowsKeepOrder ==
    ASSUME RefreshInv, [Next]_vars
    PROVE  RowsInOrder
  <1>1. CASE UNCHANGED <<run, asked>>
    <2>1. /\ run \in [Runs -> Rows]
          /\ asked \in [Runs -> SUBSET (1..MaxPlan)]
          /\ \A q \in Runs : run[q].cursor <= run[q].plan
          /\ \A p, q \in Runs : q < p /\ Exists(p) => Exists(q)
          /\ QuestionsInOrder
      BY DEF RefreshInv, RefreshTypeOK, RefreshWork
    <2> QED
      BY <1>1, <2>1 DEF RowsInOrder, QuestionsInOrder, Exists
  <1>2. ASSUME NEW w \in Workers, Ask(w) \/ SourceBlocks(w)
        PROVE  RowsInOrder
    <2>1. PICK r \in Runs, new \in WorkedOn, s \in {"finishing", "next"} :
              /\ (r = on[w] /\ Running(r)) \/ (on[w] = NoRun /\ NewId(r))
              /\ new.cursor <= new.plan
              /\ run' = [run EXCEPT ![r] = new]
              /\ asked' = [asked EXCEPT ![r] = 1..new.cursor]
      BY <1>2, ChunkShape
    <2>2. new \in Rows /\ new.status \in {"running", "failed"}
      BY DEF WorkedOn, Rows
    <2>3. ~Over(r) /\ (Exists(r) \/ NewId(r))
      BY <2>1 DEF Over, Running, NewId, Exists
    <2> QED
      BY <2>1, <2>2, <2>3, RowWritten
  <1>3. ASSUME NEW w \in Workers, Close(w)
        PROVE  RowsInOrder
    <2>1. PICK r \in Runs, v \in {"ok", "failed"} :
              /\ Exists(r)
              /\ run' = [run EXCEPT ![r] =
                            [status |-> v, plan |-> run[r].plan, cursor |-> run[r].cursor]]
              /\ Over(r) => v = run[r].status
              /\ v = "ok" => run[r].cursor = run[r].plan
      BY <1>3, CloseShape
    <2>2. run[r] \in Rows /\ run[r].cursor <= run[r].plan /\ asked[r] = 1..run[r].cursor
          /\ asked \in [Runs -> SUBSET (1..MaxPlan)]
      BY DEF RefreshInv, RefreshTypeOK, RefreshWork, QuestionsInOrder
    <2>3. PICK row \in Rows :
              row = [status |-> v, plan |-> run[r].plan, cursor |-> run[r].cursor]
      BY <2>2 DEF Rows
    <2>4. row.status = v /\ row.plan = run[r].plan /\ row.cursor = run[r].cursor
      BY <2>3
    <2>5. asked' = [asked EXCEPT ![r] = 1..row.cursor]
      BY <1>3, <2>2, <2>4 DEF Close
    <2> QED
      BY <2>1, <2>2, <2>3, <2>4, <2>5, RowWritten
  <1> QED
    BY <1>1, <1>2, <1>3, RunChanges

\* The rest of the types.
LEMMA RefreshKeepsTypes ==
    ASSUME RefreshInv, JobTypeOK', [Next]_vars
    PROVE  RefreshTypeOK'
  <1>1. RowsInOrder
    BY RowsKeepOrder
  <1>2. /\ payload \in [Jobs -> Runs \union {NoRun}]
        /\ on \in [Workers -> Runs \union {NoRun}]
        /\ step \in [Workers -> {"idle", "inserting", "claimed", "asking", "finishing",
                                 "next", "settle"}]
        /\ page \in [Tabs -> {"idle", "pressed", "inserting"}]
        /\ age \in {"new", "settled", "old"} /\ enabled \in BOOLEAN
        /\ stranded \in SUBSET Runs
        /\ flips \in 0..MaxFlips /\ bugs \in 0..MaxBugs
    BY DEF RefreshInv, RefreshTypeOK
  <1> DEFINE Rest1 ==
         /\ payload' \in [Jobs -> Runs \union {NoRun}]
         /\ on' \in [Workers -> Runs \union {NoRun}]
         /\ step' \in [Workers -> {"idle", "inserting", "claimed", "asking", "finishing",
                                   "next", "settle"}]
         /\ page' \in [Tabs -> {"idle", "pressed", "inserting"}]
  <1> DEFINE Rest2 ==
         /\ age' \in {"new", "settled", "old"} /\ enabled' \in BOOLEAN
         /\ stranded' \in SUBSET Runs
         /\ flips' \in 0..MaxFlips /\ bugs' \in 0..MaxBugs
  <1>3. ASSUME NEW t \in Tabs, Press(t) \/ PressLook(t) \/ PressInsert(t) \/ PressDrop(t)
        PROVE  Rest1 /\ Rest2
    BY <1>2, <1>3 DEF Press, PressLook, PressInsert, PressDrop, NewRefresh, Turn
  <1>4. ASSUME NEW w \in Workers, Housekeep(w) \/ HouseLook(w) \/ HouseInsert(w) \/ StartJob(w)
        PROVE  Rest1 /\ Rest2
    BY <1>2, <1>4 DEF Housekeep, HouseLook, HouseInsert, NewRefresh, StartJob, GoTo, refreshVars
  <1>5. ASSUME ClockTick \/ TimePasses \/ Flip \/ AtRest \/ UNCHANGED vars
        PROVE  Rest1 /\ Rest2
    <2>1. Rest1
      BY <1>2, <1>5 DEF ClockTick, TimePasses, Flip, AtRest, vars, refreshVars
    <2>2. Rest2
      <3>1. stranded' \in SUBSET Runs /\ bugs' \in 0..MaxBugs
        BY <1>2, <1>5 DEF ClockTick, TimePasses, Flip, AtRest, vars, refreshVars
      <3>2. age' \in {"new", "settled", "old"} /\ enabled' \in BOOLEAN
        BY <1>2, <1>5 DEF ClockTick, TimePasses, Flip, AtRest, vars, refreshVars
      <3>3. flips' \in 0..MaxFlips
        BY <1>2, <1>5 DEF ClockTick, TimePasses, Flip, AtRest, vars, refreshVars
      <3> QED
        BY <3>1, <3>2, <3>3
    <2> QED
      BY <2>1, <2>2
  <1>6. ASSUME NEW w \in Workers, Disabled(w) \/ Pick(w) \/ Finish(w) \/ Close(w)
        PROVE  Rest1 /\ Rest2
    <2>1. Rest1
      BY <1>2, <1>6 DEF Disabled, Pick, Resume, Finish, Close, GoTo
    <2>2. UNCHANGED <<enabled, flips, bugs>>
      BY <1>6 DEF Disabled, Pick, Finish, Close
    <2>3. age' \in {"new", "settled", "old"} /\ stranded' \in SUBSET Runs
      BY <1>2, <1>6 DEF Disabled, Pick, Finish, Close, AgeAtEnd
    <2> QED
      BY <1>2, <2>1, <2>2, <2>3
  <1>7. ASSUME NEW w \in Workers, Ask(w) \/ SourceBlocks(w)
        PROVE  Rest1 /\ Rest2
    <2>1. PICK r \in Runs, s \in {"finishing", "next"} :
              on' = [on EXCEPT ![w] = r] /\ step' = [step EXCEPT ![w] = s]
      BY <1>7, ChunkShape
    <2>2. UNCHANGED <<payload, page, enabled, stranded, flips, bugs>>
      BY <1>7 DEF Ask, SourceBlocks
    <2>3. age' \in {"new", "settled", "old"}
      BY <1>2, <1>7 DEF Ask, SourceBlocks, AgeWith, AgeAtEnd
    <2> QED
      BY <1>2, <2>1, <2>2, <2>3
  <1>8. ASSUME NEW w \in Workers, NextChunk(w)
        PROVE  Rest1 /\ Rest2
    BY <1>2, <1>8 DEF NextChunk, NextPayload, GoTo
  <1>9. ASSUME NEW w \in Workers, Bug(w) \/ Die(w)
        PROVE  Rest1 /\ Rest2
    <2>1. Rest1
      BY <1>2, <1>9 DEF Bug, Die, GoTo
    <2>2. UNCHANGED <<age, enabled, flips>> /\ stranded' \in SUBSET Runs
      BY <1>2, <1>9 DEF Bug, Die, AtHand
    <2>3. bugs' \in 0..MaxBugs
      BY <1>2, <1>9, RefreshAssumption DEF Bug, Die
    <2> QED
      BY <1>2, <2>1, <2>2, <2>3
  <1> HIDE DEF Rest1, Rest2
  <1>10. Rest1 /\ Rest2
    BY <1>3, <1>4, <1>5, <1>6, <1>7, <1>8, <1>9 DEF Next, HandlerStep
  <1>11. \A r, s \in Runs : s < r /\ Exists(r)' => Exists(s)'
    BY <1>1 DEF RowsInOrder, Exists
  <1> QED
    BY <1>1, <1>10, <1>11 DEF RefreshTypeOK, RowsInOrder, Rest1, Rest2

\* A step of the web process, of the clock or of the housekeeping: no run
\* and no worker is touched, and a new job names no run.
LEMMA QuietWork ==
    ASSUME RefreshInv, UNCHANGED <<payload, run, on, asked, stranded, lease>>,
           \A j \in Jobs : Open(j) => Open(j)',
           \A j \in Jobs : Open(j)' => Open(j) \/ payload[j] = NoRun,
           \A j \in Jobs : status'[j] = "absent" => status[j] = "absent",
           \A w \in Workers : step'[w] = step[w] \/ {step[w], step'[w]} \subseteq {"idle", "inserting"}
    PROVE  RefreshWork'
  <1> USE DEF RefreshInv
  <1>1. StepsAgree'
    BY DEF RefreshWork, StepsAgree, Busy
  <1>2. NewJobsAreBlank'
    BY DEF RefreshWork, NewJobsAreBlank
  <1>3. QuestionsInOrder'
    BY DEF RefreshWork, QuestionsInOrder
  <1>4. HandsAgree'
    BY DEF RefreshWork, HandsAgree, Exists, Running, AtWork
  <1>5. \A j \in Jobs, r \in Runs : Carries(j, r)' <=> Carries(j, r)
    BY RefreshAssumption DEF Carries
  <1>6. OneHandEach'
    BY <1>5 DEF RefreshWork, OneHandEach
  <1>7. CarriedRunsExist'
    BY <1>5 DEF RefreshWork, CarriedRunsExist, Exists, AtWork, Payload, Over
  <1>8. NothingLeftRunning'
    BY DEF RefreshWork, NothingLeftRunning, Payload, Running
  <1>9. RunHasWork'
    BY <1>5 DEF RefreshWork, RunHasWork, Running
  <1> QED
    BY <1>1, <1>2, <1>3, <1>4, <1>6, <1>7, <1>8, <1>9 DEF RefreshWork

\* claim_next() gives the worker a job that was waiting, and no run yet.
LEMMA StartJobWork ==
    ASSUME RefreshInv, NEW w \in Workers, StartJob(w)
    PROVE  RefreshWork'
  <1> USE DEF RefreshInv
  <1>1. PICK d \in Jobs :
            /\ status[d] = "queued" /\ status' = [status EXCEPT ![d] = "running"]
            /\ lease' = [lease EXCEPT ![w] = [job |-> d, attempt |-> attempts[d] + 1, at |-> now]]
    BY DEF StartJob, Claim, Due
  <1>2. /\ UNCHANGED <<payload, run, on, asked, stranded>>
        /\ step' = [step EXCEPT ![w] = "claimed"] /\ step[w] = "idle" /\ ~Busy(w)
    BY DEF StartJob, Claim, BetweenJobs, GoTo
  <1>3. /\ JobTypeOK
        /\ step \in [Workers -> {"idle", "inserting", "claimed", "asking", "finishing", "next",
                                 "settle"}]
        /\ on[w] = NoRun
    BY <1>2 DEF RefreshTypeOK, RefreshWork, HandsAgree, AtWork
  <1>4. /\ lease'[w].job = d /\ step'[w] = "claimed" /\ d # NoJob
        /\ \A v \in Workers \ {w} : lease'[v] = lease[v] /\ step'[v] = step[v]
        /\ \A j \in Jobs : Open(j)' <=> Open(j)
        /\ \A j \in Jobs : status'[j] = "absent" => status[j] = "absent"
    BY <1>1, <1>2, <1>3, QueueAssumption DEF JobTypeOK, Open
  <1>5. StepsAgree'
    <2> SUFFICES ASSUME NEW v \in Workers
                 PROVE  lease'[v].job # NoJob <=> step'[v] \notin {"idle", "inserting"}
      BY DEF StepsAgree, Busy
    <2>1. CASE v = w
      BY <1>4, <2>1
    <2>2. CASE v # w
      BY <1>4, <2>2 DEF RefreshWork, StepsAgree, Busy
    <2> QED
      BY <2>1, <2>2
  <1>6. NewJobsAreBlank' /\ QuestionsInOrder'
    BY <1>2, <1>4 DEF RefreshWork, NewJobsAreBlank, QuestionsInOrder
  <1>7. \A v \in Workers : \/ step'[v] = step[v] /\ lease'[v] = lease[v]
                           \/ step'[v] = "claimed" /\ on[v] = NoRun
    BY <1>3, <1>4
  <1>8. HandsAgree'
    BY <1>2, <1>7 DEF RefreshWork, HandsAgree, Exists, Running, AtWork
  <1>9. \A j \in Jobs, r \in Runs : Carries(j, r)' <=> Carries(j, r)
    BY <1>2, <1>4 DEF Carries
  <1>10. OneHandEach'
    BY <1>2, <1>7, <1>9, RefreshAssumption DEF RefreshWork, OneHandEach
  <1>11. CarriedRunsExist'
    BY <1>2, <1>7, <1>9 DEF RefreshWork, CarriedRunsExist, Exists, AtWork, Payload, Over
  <1>12. NothingLeftRunning'
    BY <1>2, <1>7 DEF RefreshWork, NothingLeftRunning, Payload, Running
  <1>13. RunHasWork'
    BY <1>2, <1>9 DEF RefreshWork, RunHasWork, Running
  <1> QED
    BY <1>5, <1>6, <1>8, <1>10, <1>11, <1>12, <1>13 DEF RefreshWork

\* The radar is off: the run the job names is left, and known to be.
LEMMA DisabledWork ==
    ASSUME RefreshInv, NEW w \in Workers, Disabled(w)
    PROVE  RefreshWork'
  <1> USE DEF RefreshInv
  <1>1. /\ UNCHANGED <<status, lease, payload, run, on, asked>>
        /\ stranded' = stranded \union {r \in Runs : r = Payload(w) /\ Running(r)}
        /\ step' = [step EXCEPT ![w] = "settle"] /\ step[w] = "claimed"
    BY DEF Disabled, GoTo, jobVars
  <1>2. /\ step \in [Workers -> {"idle", "inserting", "claimed", "asking", "finishing", "next",
                                 "settle"}]
        /\ on[w] = NoRun
    BY <1>1 DEF RefreshTypeOK, RefreshWork, HandsAgree, AtWork
  <1>3. /\ step'[w] = "settle"
        /\ \A v \in Workers \ {w} : step'[v] = step[v]
    BY <1>1, <1>2
  <1>4. \A v \in Workers : step'[v] = step[v] \/ (step[v] = "claimed" /\ step'[v] = "settle")
    BY <1>1, <1>3
  <1>5. StepsAgree' /\ NewJobsAreBlank' /\ QuestionsInOrder'
    BY <1>1, <1>4 DEF RefreshWork, StepsAgree, Busy, NewJobsAreBlank, QuestionsInOrder
  <1>6. HandsAgree'
    BY <1>1, <1>4 DEF RefreshWork, HandsAgree, Exists, Running, AtWork
  <1>7. OneHandEach'
    BY <1>1 DEF RefreshWork, OneHandEach, Carries, Open
  <1>8. CarriedRunsExist'
    BY <1>1, <1>4 DEF RefreshWork, CarriedRunsExist, Carries, Open, Exists, AtWork, Payload, Over
  <1>9. NothingLeftRunning'
    <2> SUFFICES ASSUME NEW v \in Workers, NEW r \in Runs,
                        step'[v] = "settle", r = on[v] \/ r = Payload(v), Running(r)
                 PROVE  r \in stranded'
      BY <1>1 DEF NothingLeftRunning, Payload, Running
    <2>1. CASE v = w
      BY <1>1, <1>2, <2>1, RefreshAssumption
    <2>2. CASE v # w
      BY <1>1, <1>3, <2>2 DEF RefreshWork, NothingLeftRunning
    <2> QED
      BY <2>1, <2>2
  <1>10. RunHasWork'
    BY <1>1 DEF RefreshWork, RunHasWork, Carries, Open, Running
  <1> QED
    BY <1>5, <1>6, <1>7, <1>8, <1>9, <1>10 DEF RefreshWork

\* A worker goes on with the run its job names, if that is still running.
LEMMA PickWork ==
    ASSUME RefreshInv, NEW w \in Workers, Pick(w)
    PROVE  RefreshWork'
  <1> USE DEF RefreshInv
  <1>1. /\ UNCHANGED <<status, lease, payload, run, asked, stranded>>
        /\ on' = [on EXCEPT ![w] = Resume(w)]
        /\ step' = [step EXCEPT ![w] = "asking"] /\ step[w] = "claimed"
    BY DEF Pick, GoTo, jobVars
  <1>2. /\ step \in [Workers -> {"idle", "inserting", "claimed", "asking", "finishing", "next",
                                 "settle"}]
        /\ on \in [Workers -> Runs \union {NoRun}]
        /\ payload \in [Jobs -> Runs \union {NoRun}]
        /\ run \in [Runs -> Rows]
        /\ on[w] = NoRun
    BY <1>1 DEF RefreshTypeOK, RefreshWork, HandsAgree, AtWork
  <1>3. PICK q \in Runs \union {NoRun} :
            /\ q = Resume(w)
            /\ q # NoRun => Running(q) /\ q = Payload(w)
            /\ q = NoRun => Payload(w) \notin Runs \/ ~Running(Payload(w))
    BY RefreshAssumption DEF Resume
  <1>4. /\ step'[w] = "asking" /\ on'[w] = q
        /\ \A v \in Workers \ {w} : step'[v] = step[v] /\ on'[v] = on[v]
    BY <1>1, <1>2, <1>3
  <1>5. /\ Busy(w) /\ lease[w].job \in Jobs /\ status[lease[w].job] = "running"
        /\ \A v \in Workers : lease[v].job = lease[w].job => v = w
    BY <1>1, LeaseShape DEF RefreshWork, StepsAgree, SoleInv, LeaseIsCurrent, OneWorker
  <1>6. /\ q # NoRun => Carries(lease[w].job, q)
        /\ Payload(w) \in Runs => Carries(lease[w].job, Payload(w))
    BY <1>3, <1>5 DEF Carries, Open, Payload
  <1>7. q # NoRun => \A v \in Workers : on[v] # q
    <2> SUFFICES ASSUME q # NoRun, NEW v \in Workers, on[v] = q
                 PROVE  FALSE
      OBVIOUS
    <2>1. lease[v].job = lease[w].job
      BY <1>5, <1>6 DEF RefreshWork, OneHandEach
    <2> QED
      BY <1>2, <1>5, <2>1
  <1>8. StepsAgree'
    <2> SUFFICES ASSUME NEW v \in Workers
                 PROVE  lease[v].job # NoJob <=> step'[v] \notin {"idle", "inserting"}
      BY <1>1 DEF StepsAgree, Busy
    <2>1. lease[v].job # NoJob <=> step[v] \notin {"idle", "inserting"}
      BY DEF RefreshWork, StepsAgree, Busy
    <2> QED
      BY <1>1, <1>4, <2>1
  <1>9. NewJobsAreBlank' /\ QuestionsInOrder'
    BY <1>1 DEF RefreshWork, NewJobsAreBlank, QuestionsInOrder
  <1>10. HandsAgree'
    <2> SUFFICES ASSUME NEW v \in Workers
                 PROVE  /\ on'[v] # NoRun => Exists(on'[v]) /\ step'[v] \in AtWork \union {"settle"}
                        /\ step'[v] = "asking" /\ on'[v] # NoRun => Running(on'[v])
                        /\ step'[v] = "next" => on'[v] \in Runs /\ Running(on'[v])
                        /\ step'[v] = "finishing" =>
                              /\ on'[v] \in Runs
                              /\ Running(on'[v]) => run[on'[v]].cursor = run[on'[v]].plan
      BY <1>1 DEF HandsAgree, Exists, Running, AtWork
    <2>1. CASE v = w
      BY <1>3, <1>4, <2>1 DEF Exists, Running, AtWork
    <2>2. CASE v # w
      BY <1>4, <2>2 DEF RefreshWork, HandsAgree
    <2> QED
      BY <2>1, <2>2
  <1>11. OneHandEach'
    <2>1. \A u, v \in Workers : on'[u] = on'[v] /\ on'[u] # NoRun => u = v
      BY <1>4, <1>7 DEF RefreshWork, OneHandEach
    <2>2. \A v \in Workers, j \in Jobs, r \in Runs : on'[v] = r /\ Carries(j, r) => lease[v].job = j
      <3> SUFFICES ASSUME NEW v \in Workers, NEW j \in Jobs, NEW r \in Runs,
                          on'[v] = r, Carries(j, r)
                   PROVE  lease[v].job = j
        OBVIOUS
      <3>1. CASE v = w
        BY <1>4, <1>5, <1>6, <3>1, RefreshAssumption DEF RefreshWork, OneHandEach
      <3>2. CASE v # w
        BY <1>4, <3>2 DEF RefreshWork, OneHandEach
      <3> QED
        BY <3>1, <3>2
    <2> QED
      BY <1>1, <2>1, <2>2 DEF RefreshWork, OneHandEach, Carries, Open
  <1>12. CarriedRunsExist'
    <2>1. Payload(w) = NoRun \/ Payload(w) = q \/ Over(Payload(w))
      <3>1. Payload(w) \in Runs \union {NoRun}
        BY <1>2, <1>5 DEF Payload
      <3>2. Payload(w) \in Runs => Exists(Payload(w)) /\ run[Payload(w)] \in Rows
        BY <1>2, <1>5, <1>6 DEF RefreshWork, CarriedRunsExist
      <3> QED
        BY <1>3, <3>1, <3>2 DEF Exists, Running, Over, Rows
    <2>2. \A v \in Workers : step'[v] \in AtWork =>
              Payload(v) = NoRun \/ Payload(v) = on'[v] \/ Over(Payload(v))
      BY <1>4, <2>1 DEF RefreshWork, CarriedRunsExist
    <2> QED
      BY <1>1, <2>2 DEF RefreshWork, CarriedRunsExist, Carries, Open, Exists, AtWork, Payload, Over
  <1>13. NothingLeftRunning'
    BY <1>1, <1>4 DEF RefreshWork, NothingLeftRunning, Payload, Running
  <1>14. RunHasWork'
    <2>1. \A r \in Runs, v \in Workers : on[v] = r => on'[v] = r
      BY <1>2, <1>4, RefreshAssumption
    <2> QED
      BY <1>1, <2>1 DEF RefreshWork, RunHasWork, Carries, Open, Running
  <1> QED
    BY <1>8, <1>9, <1>10, <1>11, <1>12, <1>13, <1>14 DEF RefreshWork

\* A chunk is worked on a run the worker has at hand, or on a new one, which
\* nobody else can have.
LEMMA ChunkWork ==
    ASSUME RefreshInv, NEW w \in Workers, Ask(w) \/ SourceBlocks(w), RowsInOrder
    PROVE  RefreshWork'
  <1> USE DEF RefreshInv
  <1>1. PICK r \in Runs, new \in WorkedOn, s \in {"finishing", "next"} :
            /\ step[w] = "asking"
            /\ (r = on[w] /\ Running(r)) \/ (on[w] = NoRun /\ NewId(r))
            /\ run' = [run EXCEPT ![r] = new]
            /\ on' = [on EXCEPT ![w] = r]
            /\ step' = [step EXCEPT ![w] = s]
            /\ new.status = "failed" => s = "finishing"
            /\ new.status = "running" /\ s = "finishing" => new.cursor = new.plan
    BY ChunkShape
  <1>2. UNCHANGED <<status, lease, payload, stranded>>
    BY DEF Ask, SourceBlocks, jobVars
  <1>3. /\ step \in [Workers -> {"idle", "inserting", "claimed", "asking", "finishing", "next",
                                 "settle"}]
        /\ on \in [Workers -> Runs \union {NoRun}]
        /\ payload \in [Jobs -> Runs \union {NoRun}]
        /\ run \in [Runs -> Rows]
    BY DEF RefreshTypeOK
  <1>4. /\ step'[w] = s /\ on'[w] = r /\ run'[r] = new
        /\ \A v \in Workers \ {w} : step'[v] = step[v] /\ on'[v] = on[v]
        /\ \A q \in Runs \ {r} : run'[q] = run[q]
    BY <1>1, <1>3
  <1>5. new.status \in {"running", "failed"}
    BY DEF WorkedOn
  <1>6. /\ ~Over(r) /\ ~(Exists(r) /\ on[w] # r)
        /\ \A v \in Workers : v # w => on[v] # r
    <2>1. CASE r = on[w] /\ Running(r)
      BY <2>1, RefreshAssumption DEF Over, Running, RefreshWork, OneHandEach
    <2>2. CASE on[w] = NoRun /\ NewId(r)
      BY <2>2, RefreshAssumption DEF NewId, Over, Exists, RefreshWork, HandsAgree
    <2> QED
      BY <1>1, <2>1, <2>2
  <1>7. \A q \in Runs : Exists(q) => run'[q].status # "absent"
    BY DEF RowsInOrder
  <1>8. StepsAgree'
    <2> SUFFICES ASSUME NEW v \in Workers
                 PROVE  lease[v].job # NoJob <=> step'[v] \notin {"idle", "inserting"}
      BY <1>2 DEF StepsAgree, Busy
    <2>1. lease[v].job # NoJob <=> step[v] \notin {"idle", "inserting"}
      BY DEF RefreshWork, StepsAgree, Busy
    <2> QED
      BY <1>1, <1>4, <2>1
  <1>9. NewJobsAreBlank' /\ QuestionsInOrder'
    BY <1>2 DEF RefreshWork, NewJobsAreBlank, RowsInOrder
  <1>10. HandsAgree'
    <2> SUFFICES ASSUME NEW v \in Workers
                 PROVE  /\ on'[v] # NoRun => /\ run'[on'[v]].status # "absent"
                                            /\ step'[v] \in AtWork \union {"settle"}
                        /\ step'[v] = "asking" /\ on'[v] # NoRun => run'[on'[v]].status = "running"
                        /\ step'[v] = "next" => on'[v] \in Runs /\ run'[on'[v]].status = "running"
                        /\ step'[v] = "finishing" =>
                              /\ on'[v] \in Runs
                              /\ run'[on'[v]].status = "running" =>
                                     run'[on'[v]].cursor = run'[on'[v]].plan
      BY DEF HandsAgree, Exists, Running, AtWork
    <2>1. CASE v = w
      BY <1>1, <1>4, <1>5, <2>1 DEF AtWork
    <2>2. CASE v # w
      <3>1. on[v] # NoRun => on[v] \in Runs /\ run'[on[v]] = run[on[v]]
        BY <1>3, <1>4, <1>6, <2>2
      <3> QED
        BY <1>4, <2>2, <3>1, RefreshAssumption DEF RefreshWork, HandsAgree, Exists, Running
    <2> QED
      BY <2>1, <2>2
  <1>11. \A j \in Jobs, q \in Runs : Carries(j, q)' <=> Carries(j, q)
    BY <1>2 DEF Carries, Open
  <1>12. OneHandEach'
    <2>1. \A u, v \in Workers : on'[u] = on'[v] /\ on'[u] # NoRun => u = v
      BY <1>4, <1>6 DEF RefreshWork, OneHandEach
    <2>2. \A v \in Workers, j \in Jobs, q \in Runs : on'[v] = q /\ Carries(j, q) => lease[v].job = j
      <3> SUFFICES ASSUME NEW v \in Workers, NEW j \in Jobs, NEW q \in Runs,
                          on'[v] = q, Carries(j, q)
                   PROVE  lease[v].job = j
        OBVIOUS
      <3>1. Exists(q)
        BY DEF RefreshWork, CarriedRunsExist
      <3>2. on[v] = q
        BY <1>4, <1>6, <3>1
      <3> QED
        BY <3>2 DEF RefreshWork, OneHandEach
    <2> QED
      BY <1>2, <1>11, <2>1, <2>2 DEF RefreshWork, OneHandEach
  <1>13. CarriedRunsExist'
    <2>1. \A j \in Jobs, q \in Runs : Carries(j, q)' => run'[q].status # "absent"
      BY <1>7, <1>11 DEF RefreshWork, CarriedRunsExist
    <2>2. \A q : Over(q) => q # r
      BY <1>6
    <2>3. \A v \in Workers : step'[v] \in AtWork =>
              \/ Payload(v) = NoRun \/ Payload(v) = on'[v]
              \/ run'[Payload(v)].status \in {"ok", "failed"}
      <3> SUFFICES ASSUME NEW v \in Workers, step'[v] \in AtWork
                   PROVE  \/ Payload(v) = NoRun \/ Payload(v) = on'[v]
                          \/ run'[Payload(v)].status \in {"ok", "failed"}
        OBVIOUS
      <3>1. step[v] \in AtWork
        BY <1>1, <1>4 DEF AtWork
      <3>2. Payload(v) = NoRun \/ Payload(v) = on[v] \/ Over(Payload(v))
        BY <3>1 DEF RefreshWork, CarriedRunsExist
      <3>3. Payload(v) = on[v] /\ on[v] # NoRun => on'[v] = on[v]
        BY <1>1, <1>4
      <3>4. Payload(v) \in Runs \union {NoRun}
        <4>1. Busy(v)
          BY <3>1 DEF RefreshWork, StepsAgree, AtWork
        <4> QED
          BY <1>3, <4>1, LeaseShape DEF Payload, SoleInv
      <3>5. Over(Payload(v)) /\ Payload(v) \in Runs => run'[Payload(v)].status \in {"ok", "failed"}
        BY <1>4, <2>2 DEF Over
      <3> QED
        BY <3>2, <3>3, <3>4, <3>5
    <2> QED
      BY <1>2, <2>1, <2>3 DEF CarriedRunsExist, Exists, AtWork, Payload, Over
  <1>14. NothingLeftRunning'
    <2> SUFFICES ASSUME NEW v \in Workers, NEW q \in Runs,
                        step'[v] = "settle", q = on'[v] \/ q = Payload(v),
                        run'[q].status = "running"
                 PROVE  q \in stranded
      BY <1>2 DEF NothingLeftRunning, Payload, Running
    <2>1. v # w /\ step[v] = "settle" /\ on'[v] = on[v]
      BY <1>1, <1>4
    <2>2. Running(q)
      <3>1. Exists(q)
        <4>1. CASE q = on[v]
          BY <4>1, RefreshAssumption DEF RefreshWork, HandsAgree
        <4>2. CASE q = Payload(v)
          <5>1. Busy(v)
            BY <2>1 DEF RefreshWork, StepsAgree
          <5>2. Carries(lease[v].job, q) /\ lease[v].job \in Jobs
            BY <4>2, <5>1, LeaseShape DEF SoleInv, LeaseIsCurrent, Carries, Open, Payload
          <5> QED
            BY <5>2 DEF RefreshWork, CarriedRunsExist
        <4> QED
          BY <2>1, <4>1, <4>2
      <3>2. CASE q = r
        BY <1>1, <3>1, <3>2 DEF NewId
      <3>3. CASE q # r
        BY <1>4, <3>3 DEF Running
      <3> QED
        BY <3>2, <3>3
    <2> QED
      BY <2>1, <2>2 DEF RefreshWork, NothingLeftRunning
  <1>15. RunHasWork'
    <2> SUFFICES ASSUME NEW q \in Runs, run'[q].status = "running"
                 PROVE  \/ \E j \in Jobs : Carries(j, q)
                        \/ \E v \in Workers : on'[v] = q
                        \/ q \in stranded
      BY <1>2, <1>11 DEF RunHasWork, Running
    <2>1. CASE q = r
      BY <1>4, <2>1
    <2>2. CASE q # r
      <3>1. Running(q)
        BY <1>4, <2>2 DEF Running
      <3>2. \A v \in Workers : on[v] = q => on'[v] = q
        BY <1>1, <1>4, <2>2, RefreshAssumption
      <3> QED
        BY <3>1, <3>2 DEF RefreshWork, RunHasWork
    <2> QED
      BY <2>1, <2>2
  <1> QED
    BY <1>8, <1>9, <1>10, <1>12, <1>13, <1>14, <1>15 DEF RefreshWork

\* The verdict of finish_run(): one run is over, the others are as they were.
LEMMA CloseWork ==
    ASSUME RefreshInv, NEW w \in Workers, Close(w), RowsInOrder
    PROVE  RefreshWork'
  <1> USE DEF RefreshInv
  <1>1. PICK r \in Runs, v \in {"ok", "failed"} :
            /\ step[w] = "finishing" /\ r = on[w] /\ Exists(r)
            /\ run' = [run EXCEPT ![r] =
                          [status |-> v, plan |-> run[r].plan, cursor |-> run[r].cursor]]
    BY CloseShape
  <1>2. /\ UNCHANGED <<status, lease, payload, on, stranded>>
        /\ step' = [step EXCEPT ![w] = "settle"]
    BY DEF Close, GoTo, jobVars
  <1>3. /\ step \in [Workers -> {"idle", "inserting", "claimed", "asking", "finishing", "next",
                                 "settle"}]
        /\ on \in [Workers -> Runs \union {NoRun}]
        /\ payload \in [Jobs -> Runs \union {NoRun}]
        /\ run \in [Runs -> Rows]
    BY DEF RefreshTypeOK
  <1>4. /\ step'[w] = "settle" /\ run'[r].status \in {"ok", "failed"}
        /\ \A u \in Workers \ {w} : step'[u] = step[u]
        /\ \A q \in Runs \ {r} : run'[q] = run[q]
    BY <1>1, <1>2, <1>3
  <1>5. \A q \in Runs : run'[q].status = "running" => q # r /\ Running(q)
    BY <1>4 DEF Running
  <1>6. \A q \in Runs : Exists(q) => run'[q].status # "absent"
    BY DEF RowsInOrder
  <1>7. StepsAgree'
    <2> SUFFICES ASSUME NEW u \in Workers
                 PROVE  lease[u].job # NoJob <=> step'[u] \notin {"idle", "inserting"}
      BY <1>2 DEF StepsAgree, Busy
    <2>1. lease[u].job # NoJob <=> step[u] \notin {"idle", "inserting"}
      BY DEF RefreshWork, StepsAgree, Busy
    <2> QED
      BY <1>1, <1>4, <2>1
  <1>8. NewJobsAreBlank' /\ QuestionsInOrder'
    BY <1>2 DEF RefreshWork, NewJobsAreBlank, RowsInOrder
  <1>9. HandsAgree'
    <2> SUFFICES ASSUME NEW u \in Workers
                 PROVE  /\ on[u] # NoRun => /\ run'[on[u]].status # "absent"
                                           /\ step'[u] \in AtWork \union {"settle"}
                        /\ step'[u] = "asking" /\ on[u] # NoRun => run'[on[u]].status = "running"
                        /\ step'[u] = "next" => on[u] \in Runs /\ run'[on[u]].status = "running"
                        /\ step'[u] = "finishing" =>
                              /\ on[u] \in Runs
                              /\ run'[on[u]].status = "running" =>
                                     run'[on[u]].cursor = run'[on[u]].plan
      BY <1>2 DEF HandsAgree, Exists, Running, AtWork
    <2>1. CASE u = w
      BY <1>1, <1>4, <2>1
    <2>2. CASE u # w
      <3>1. on[u] # NoRun => on[u] \in Runs /\ run'[on[u]] = run[on[u]]
        <4>1. on[u] = r /\ r # NoRun => u = w
          BY <1>1 DEF RefreshWork, OneHandEach
        <4> QED
          BY <1>3, <1>4, <2>2, <4>1, RefreshAssumption
      <3> QED
        BY <1>4, <2>2, <3>1, RefreshAssumption DEF RefreshWork, HandsAgree, Exists, Running
    <2> QED
      BY <2>1, <2>2
  <1>10. \A j \in Jobs, q \in Runs : Carries(j, q)' <=> Carries(j, q)
    BY <1>2 DEF Carries, Open
  <1>11. OneHandEach'
    BY <1>2, <1>10 DEF RefreshWork, OneHandEach
  <1>12. CarriedRunsExist'
    <2>1. \A j \in Jobs, q \in Runs : Carries(j, q)' => run'[q].status # "absent"
      BY <1>6, <1>10 DEF RefreshWork, CarriedRunsExist
    <2>2. \A u \in Workers : step'[u] \in AtWork =>
              \/ Payload(u) = NoRun \/ Payload(u) = on[u]
              \/ run'[Payload(u)].status \in {"ok", "failed"}
      <3> SUFFICES ASSUME NEW u \in Workers, step'[u] \in AtWork
                   PROVE  \/ Payload(u) = NoRun \/ Payload(u) = on[u]
                          \/ run'[Payload(u)].status \in {"ok", "failed"}
        OBVIOUS
      <3>1. step[u] \in AtWork
        BY <1>4 DEF AtWork
      <3>2. Payload(u) = NoRun \/ Payload(u) = on[u] \/ Over(Payload(u))
        BY <3>1 DEF RefreshWork, CarriedRunsExist
      <3>3. Payload(u) \in Runs \union {NoRun}
        <4>1. Busy(u)
          BY <3>1 DEF RefreshWork, StepsAgree, AtWork
        <4> QED
          BY <1>3, <4>1, LeaseShape DEF Payload, SoleInv
      <3>4. Over(Payload(u)) /\ Payload(u) \in Runs => run'[Payload(u)].status \in {"ok", "failed"}
        BY <1>4 DEF Over
      <3> QED
        BY <3>2, <3>3, <3>4
    <2> QED
      BY <1>2, <2>1, <2>2 DEF CarriedRunsExist, Exists, AtWork, Payload, Over
  <1>13. NothingLeftRunning'
    <2> SUFFICES ASSUME NEW u \in Workers, NEW q \in Runs,
                        step'[u] = "settle", q = on[u] \/ q = Payload(u),
                        run'[q].status = "running"
                 PROVE  q \in stranded
      BY <1>2 DEF NothingLeftRunning, Payload, Running
    <2>1. CASE u = w
      <3>1. Payload(w) = NoRun \/ Payload(w) = r \/ Over(Payload(w))
        BY <1>1 DEF RefreshWork, CarriedRunsExist, AtWork
      <3> QED
        BY <1>1, <1>5, <2>1, <3>1, RefreshAssumption DEF Over, Running
    <2>2. CASE u # w
      BY <1>4, <1>5, <2>2 DEF RefreshWork, NothingLeftRunning
    <2> QED
      BY <2>1, <2>2
  <1>14. RunHasWork'
    BY <1>2, <1>5, <1>10 DEF RefreshWork, RunHasWork, Running
  <1> QED
    BY <1>7, <1>8, <1>9, <1>11, <1>12, <1>13, <1>14 DEF RefreshWork

\* A worker lets go of its job and of its run: what either of them still has
\* running goes on with the job or is known to be stranded.
LEMMA ReleaseWork ==
    ASSUME RefreshInv, NEW w \in Workers, NEW after,
           UNCHANGED <<payload, run, asked>>,
           step[w] # "idle",
           lease' = [lease EXCEPT ![w] = NoLease],
           on' = [on EXCEPT ![w] = NoRun],
           step' = [step EXCEPT ![w] = "idle"],
           status' = status \/ (Busy(w) /\ status' = [status EXCEPT ![lease[w].job] = after]),
           after \in {"done", "failed"},
           stranded \subseteq stranded',
           Busy(w) => \A r \in Runs : r \in {on[w], Payload(w)} /\ Running(r) =>
               r \in stranded' \/ (status' = status /\ r = Payload(w))
    PROVE  RefreshWork'
  <1> USE DEF RefreshInv
  <1>1. /\ step \in [Workers -> {"idle", "inserting", "claimed", "asking", "finishing", "next",
                                 "settle"}]
        /\ on \in [Workers -> Runs \union {NoRun}]
        /\ payload \in [Jobs -> Runs \union {NoRun}]
        /\ JobTypeOK
    BY DEF RefreshTypeOK
  <1>2. /\ step'[w] = "idle" /\ on'[w] = NoRun /\ ~Busy(w)'
        /\ \A v \in Workers \ {w} : step'[v] = step[v] /\ on'[v] = on[v] /\ lease'[v] = lease[v]
    BY <1>1 DEF JobTypeOK, Busy, NoLease
  <1>3. /\ Busy(w) => /\ lease[w].job \in Jobs /\ status[lease[w].job] = "running"
                      /\ \A v \in Workers \ {w} : lease[v].job # lease[w].job
        /\ ~Busy(w) => on[w] = NoRun
    <2>1. Busy(w) => /\ lease[w].job \in Jobs /\ status[lease[w].job] = "running"
                     /\ \A v \in Workers \ {w} : lease[v].job # lease[w].job
      BY LeaseShape DEF SoleInv, LeaseIsCurrent, OneWorker
    <2>2. ~Busy(w) => on[w] = NoRun
      BY DEF RefreshWork, StepsAgree, HandsAgree, AtWork
    <2> QED
      BY <2>1, <2>2
  <1>4. /\ \A j \in Jobs : j # lease[w].job \/ ~Busy(w) => status'[j] = status[j]
        /\ Busy(w) => status'[lease[w].job] \in {"running", "done", "failed"}
    BY <1>1, <1>3 DEF JobTypeOK
  <1>5. \A j \in Jobs : /\ Open(j)' => Open(j)
                        /\ status'[j] = "absent" => status[j] = "absent"
                        /\ Open(j) => Open(j)' \/ (Busy(w) /\ j = lease[w].job /\ status' # status)
    <2> SUFFICES ASSUME NEW j \in Jobs
                 PROVE  /\ status'[j] \in {"queued", "running"} => status[j] \in {"queued", "running"}
                        /\ status'[j] = "absent" => status[j] = "absent"
                        /\ status[j] \in {"queued", "running"} =>
                               \/ status'[j] \in {"queued", "running"}
                               \/ Busy(w) /\ j = lease[w].job /\ status' # status
      BY DEF Open
    <2> QED
      BY <1>3, <1>4
  <1>6. StepsAgree'
    <2> SUFFICES ASSUME NEW v \in Workers
                 PROVE  lease'[v].job # NoJob <=> step'[v] \notin {"idle", "inserting"}
      BY DEF StepsAgree, Busy
    <2>1. CASE v = w
      BY <1>2, <2>1 DEF Busy
    <2>2. CASE v # w
      BY <1>2, <2>2 DEF RefreshWork, StepsAgree, Busy
    <2> QED
      BY <2>1, <2>2
  <1>7. NewJobsAreBlank' /\ QuestionsInOrder'
    BY <1>5 DEF RefreshWork, NewJobsAreBlank, QuestionsInOrder
  <1>8. \A v \in Workers : \/ step'[v] = step[v] /\ on'[v] = on[v] /\ lease'[v] = lease[v]
                           \/ step'[v] = "idle" /\ on'[v] = NoRun
    BY <1>2
  <1>9. HandsAgree'
    BY <1>8 DEF RefreshWork, HandsAgree, Exists, Running, AtWork
  <1>10. \A j \in Jobs, q \in Runs : Carries(j, q)' => Carries(j, q)
    BY <1>5 DEF Carries
  <1>11. OneHandEach'
    BY <1>8, <1>10, RefreshAssumption DEF RefreshWork, OneHandEach
  <1>12. CarriedRunsExist'
    <2>1. \A j \in Jobs, q \in Runs : Carries(j, q)' => Exists(q)
      BY <1>10 DEF RefreshWork, CarriedRunsExist
    <2>2. \A v \in Workers : step'[v] \in AtWork =>
              payload[lease'[v].job] = NoRun \/ payload[lease'[v].job] = on'[v]
              \/ Over(payload[lease'[v].job])
      BY <1>8 DEF RefreshWork, CarriedRunsExist, Payload, AtWork
    <2> QED
      BY <2>1, <2>2 DEF CarriedRunsExist, Exists, AtWork, Payload, Over
  <1>13. NothingLeftRunning'
    BY <1>8 DEF RefreshWork, NothingLeftRunning, Payload, Running
  <1>14. RunHasWork'
    <2> SUFFICES ASSUME NEW q \in Runs, Running(q), q \notin stranded'
                 PROVE  \/ \E j \in Jobs : Open(j)' /\ payload[j] = q
                        \/ \E v \in Workers : on'[v] = q
      BY DEF RunHasWork, Running, Carries
    <2>1. \/ \E j \in Jobs : Carries(j, q)
          \/ \E v \in Workers : on[v] = q
      BY DEF RefreshWork, RunHasWork
    <2>2. ASSUME NEW j \in Jobs, Carries(j, q)
          PROVE  Open(j)' /\ payload[j] = q
      BY <1>5, <2>2 DEF Carries, Payload
    <2>3. ASSUME NEW v \in Workers, on[v] = q, v # w
          PROVE  on'[v] = q
      BY <1>2, <2>3
    <2>4. CASE on[w] = q
      <3>1. Busy(w) /\ status' = status /\ q = Payload(w)
        BY <1>3, <2>4, RefreshAssumption
      <3>2. Carries(lease[w].job, q)
        BY <1>3, <3>1 DEF Carries, Open, Payload
      <3> QED
        BY <1>3, <2>2, <3>1, <3>2
    <2> QED
      BY <2>1, <2>2, <2>3, <2>4
  <1> QED
    BY <1>6, <1>7, <1>9, <1>11, <1>12, <1>13, <1>14 DEF RefreshWork

\* The next chunk's job takes the run over from the worker, whose own job is
\* done: from one hand to one hand.
LEMMA NextChunkWork ==
    ASSUME RefreshInv, NEW w \in Workers, NextChunk(w)
    PROVE  RefreshWork'
  <1> USE DEF RefreshInv
  <1>1. PICK j \in Jobs, r \in Runs :
            /\ status[j] = "absent"
            /\ status' = [status EXCEPT ![j] = "queued", ![lease[w].job] = "done"]
            /\ payload' = [payload EXCEPT ![j] = r]
            /\ r = on[w] /\ Running(r)
    BY DEF NextChunk, NextPayload, RefreshWork, HandsAgree
  <1>2. /\ UNCHANGED <<run, asked, stranded>>
        /\ lease' = [lease EXCEPT ![w] = NoLease]
        /\ on' = [on EXCEPT ![w] = NoRun]
        /\ step' = [step EXCEPT ![w] = "idle"] /\ step[w] = "next"
    BY DEF NextChunk, GoTo
  <1>3. /\ step \in [Workers -> {"idle", "inserting", "claimed", "asking", "finishing", "next",
                                 "settle"}]
        /\ on \in [Workers -> Runs \union {NoRun}]
        /\ payload \in [Jobs -> Runs \union {NoRun}]
        /\ JobTypeOK
    BY DEF RefreshTypeOK
  <1>4. PICK d \in Jobs : d = lease[w].job /\ Busy(w) /\ status[d] = "running" /\ d # j
    BY <1>1, <1>2, LeaseShape DEF RefreshWork, StepsAgree, SoleInv, LeaseIsCurrent
  <1>5. /\ step'[w] = "idle" /\ on'[w] = NoRun /\ ~Busy(w)'
        /\ \A v \in Workers \ {w} : step'[v] = step[v] /\ on'[v] = on[v] /\ lease'[v] = lease[v]
    BY <1>2, <1>3 DEF JobTypeOK, Busy, NoLease
  <1>6. /\ status'[j] = "queued" /\ payload'[j] = r /\ status'[d] = "done"
        /\ \A k \in Jobs \ {j, d} : status'[k] = status[k]
        /\ \A k \in Jobs \ {j} : payload'[k] = payload[k]
    BY <1>1, <1>3, <1>4 DEF JobTypeOK
  <1>7. /\ Carries(j, r)'
        /\ \A k \in Jobs \ {j}, q \in Runs : Carries(k, q)' <=> Carries(k, q) /\ k # d
    BY <1>4, <1>6 DEF Carries, Open
  <1>8. \A q \in Runs : ~Carries(j, q)
    BY <1>1 DEF Carries, Open
  <1>9. \A k \in Jobs : Carries(k, r) => k = d
    BY <1>1, <1>4 DEF RefreshWork, OneHandEach
  <1>10. \A v \in Workers : on'[v] # r
    BY <1>1, <1>3, <1>5, RefreshAssumption DEF RefreshWork, OneHandEach
  <1>11. \A v \in Workers : Busy(v) => lease[v].job \in Jobs \ {j}
    BY <1>1, LeaseShape DEF SoleInv, LeaseIsCurrent
  <1>12. \A v \in Workers : \/ /\ v # w /\ step'[v] = step[v] /\ on'[v] = on[v]
                               /\ lease'[v] = lease[v]
                            \/ step'[v] = "idle" /\ on'[v] = NoRun
    BY <1>5
  <1>13. StepsAgree'
    <2> SUFFICES ASSUME NEW v \in Workers
                 PROVE  lease'[v].job # NoJob <=> step'[v] \notin {"idle", "inserting"}
      BY DEF StepsAgree, Busy
    <2>1. CASE v = w
      BY <1>5, <2>1 DEF Busy
    <2>2. CASE v # w
      BY <1>5, <2>2 DEF RefreshWork, StepsAgree, Busy
    <2> QED
      BY <2>1, <2>2
  <1>14. NewJobsAreBlank' /\ QuestionsInOrder'
    BY <1>2, <1>4, <1>6 DEF RefreshWork, NewJobsAreBlank, QuestionsInOrder
  <1>15. HandsAgree'
    BY <1>2, <1>12 DEF RefreshWork, HandsAgree, Exists, Running, AtWork
  <1>16. OneHandEach'
    <2>1. \A u, v \in Workers : on'[u] = on'[v] /\ on'[u] # NoRun => u = v
      BY <1>12 DEF RefreshWork, OneHandEach
    <2>2. \A k, l \in Jobs, q \in Runs : Carries(k, q)' /\ Carries(l, q)' => k = l
      <3> SUFFICES ASSUME NEW k \in Jobs, NEW l \in Jobs, NEW q \in Runs,
                          Carries(k, q)', Carries(l, q)'
                   PROVE  k = l
        OBVIOUS
      <3>1. k = j => q = r
        BY <1>6 DEF Carries
      <3>2. l = j => q = r
        BY <1>6 DEF Carries
      <3> QED
        BY <1>7, <1>9, <3>1, <3>2 DEF RefreshWork, OneHandEach
    <2>3. \A v \in Workers, k \in Jobs, q \in Runs : on'[v] = q /\ Carries(k, q)' => lease'[v].job = k
      <3> SUFFICES ASSUME NEW v \in Workers, NEW k \in Jobs, NEW q \in Runs,
                          on'[v] = q, Carries(k, q)'
                   PROVE  lease'[v].job = k
        OBVIOUS
      <3>1. q # r /\ on[v] = q /\ lease'[v] = lease[v]
        BY <1>10, <1>12, RefreshAssumption
      <3>2. k # j
        BY <1>6, <3>1 DEF Carries
      <3> QED
        BY <1>7, <3>1, <3>2 DEF RefreshWork, OneHandEach
    <2> QED
      BY <2>1, <2>2, <2>3 DEF OneHandEach
  <1>17. \A v \in Workers : Busy(v) => payload'[lease[v].job] = Payload(v)
    BY <1>6, <1>11 DEF Payload
  <1>18. CarriedRunsExist'
    <2>1. \A k \in Jobs, q \in Runs : Carries(k, q)' => Exists(q)
      <3> SUFFICES ASSUME NEW k \in Jobs, NEW q \in Runs, Carries(k, q)'
                   PROVE  Exists(q)
        OBVIOUS
      <3>1. CASE k = j
        BY <1>1, <1>6, <3>1 DEF Carries, Exists, Running
      <3>2. CASE k # j
        BY <1>7, <3>2 DEF RefreshWork, CarriedRunsExist
      <3> QED
        BY <3>1, <3>2
    <2>2. \A v \in Workers : step'[v] \in AtWork =>
              \/ payload'[lease'[v].job] = NoRun
              \/ payload'[lease'[v].job] = on'[v]
              \/ Over(payload'[lease'[v].job])
      <3> SUFFICES ASSUME NEW v \in Workers, step'[v] \in AtWork
                   PROVE  \/ payload'[lease'[v].job] = NoRun
                          \/ payload'[lease'[v].job] = on'[v]
                          \/ Over(payload'[lease'[v].job])
        OBVIOUS
      <3>1. step[v] \in AtWork /\ on'[v] = on[v] /\ lease'[v] = lease[v]
        BY <1>12 DEF AtWork
      <3>2. Busy(v)
        BY <3>1 DEF RefreshWork, StepsAgree, AtWork
      <3>3. payload'[lease'[v].job] = Payload(v)
        BY <1>17, <3>1, <3>2
      <3> QED
        BY <3>1, <3>3 DEF RefreshWork, CarriedRunsExist
    <2> QED
      BY <1>2, <2>1, <2>2 DEF CarriedRunsExist, Exists, AtWork, Payload, Over
  <1>19. NothingLeftRunning'
    <2> SUFFICES ASSUME NEW v \in Workers, NEW q \in Runs, step'[v] = "settle",
                        q = on'[v] \/ q = payload'[lease'[v].job], Running(q)
                 PROVE  q \in stranded
      BY <1>2 DEF NothingLeftRunning, Payload, Running
    <2>1. step[v] = "settle" /\ on'[v] = on[v] /\ lease'[v] = lease[v]
      BY <1>12
    <2>2. Busy(v)
      BY <2>1 DEF RefreshWork, StepsAgree
    <2>3. payload'[lease'[v].job] = Payload(v)
      BY <1>17, <2>1, <2>2
    <2> QED
      BY <2>1, <2>3 DEF RefreshWork, NothingLeftRunning
  <1>20. RunHasWork'
    <2> SUFFICES ASSUME NEW q \in Runs, Running(q), q \notin stranded
                 PROVE  \/ \E k \in Jobs : Carries(k, q)'
                        \/ \E v \in Workers : on'[v] = q
      BY <1>2 DEF RunHasWork, Running
    <2>1. CASE q = r
      BY <1>7, <2>1
    <2>2. CASE q # r
      <3>1. \A v \in Workers : on[v] = q => on'[v] = q
        BY <1>1, <1>5, <2>2
      <3>2. ~Carries(d, q)
        <4>1. Payload(w) = NoRun \/ Payload(w) = r \/ Over(Payload(w))
          BY <1>1, <1>2 DEF RefreshWork, CarriedRunsExist, AtWork
        <4>2. Payload(w) # q
          BY <2>2, <4>1, RefreshAssumption DEF Over, Running
        <4> QED
          BY <1>4, <4>2 DEF Carries, Payload
      <3> QED
        BY <1>7, <1>8, <3>1, <3>2 DEF RefreshWork, RunHasWork
    <2> QED
      BY <2>1, <2>2
  <1> QED
    BY <1>13, <1>14, <1>15, <1>16, <1>18, <1>19, <1>20 DEF RefreshWork

\* Every step keeps the work in order.
LEMMA RefreshKeepsWork ==
    ASSUME RefreshInv, [Next]_vars
    PROVE  RefreshWork'
  <1> USE DEF RefreshInv
  <1>1. RowsInOrder
    BY RowsKeepOrder
  <1>2. ASSUME NewRefresh, UNCHANGED <<run, on, asked, stranded>>,
               \A w \in Workers : step'[w] = step[w] \/ {step[w], step'[w]} \subseteq {"idle", "inserting"}
        PROVE  RefreshWork'
    <2>1. PICK j \in Jobs : status[j] = "absent" /\ status' = [status EXCEPT ![j] = "queued"]
      BY <1>2 DEF NewRefresh, Enqueue
    <2>2. UNCHANGED <<payload, lease>>
      BY <1>2 DEF NewRefresh, Enqueue
    <2>3. payload[j] = NoRun /\ status \in [Jobs -> Statuses]
      BY <2>1 DEF RefreshWork, NewJobsAreBlank, RefreshTypeOK, JobTypeOK
    <2>4. status'[j] = "queued" /\ \A k \in Jobs \ {j} : status'[k] = status[k]
      BY <2>1, <2>3
    <2>5. /\ \A k \in Jobs : Open(k) => Open(k)'
          /\ \A k \in Jobs : Open(k)' => Open(k) \/ payload[k] = NoRun
          /\ \A k \in Jobs : status'[k] = "absent" => status[k] = "absent"
      BY <2>3, <2>4 DEF Open
    <2> QED
      BY <1>2, <2>2, <2>5, QuietWork
  <1>3. step \in [Workers -> {"idle", "inserting", "claimed", "asking", "finishing", "next",
                             "settle"}]
    BY DEF RefreshTypeOK
  <1>4. ASSUME NEW t \in Tabs, Press(t) \/ PressLook(t) \/ PressInsert(t) \/ PressDrop(t)
        PROVE  RefreshWork'
    <2>1. CASE PressInsert(t)
      <3>1. NewRefresh /\ UNCHANGED <<run, step, on, asked, stranded>>
        BY <2>1 DEF PressInsert
      <3> QED
        BY <1>2, <3>1
    <2>2. CASE Press(t) \/ PressLook(t) \/ PressDrop(t)
      <3>1. UNCHANGED <<status, lease, payload, run, step, on, asked, stranded>>
        BY <2>2 DEF Press, PressLook, PressDrop, jobVars
      <3>2. \A k \in Jobs : (Open(k)' <=> Open(k)) /\ status'[k] = status[k]
        BY <3>1 DEF Open
      <3> QED
        BY <3>1, <3>2, QuietWork
    <2> QED
      BY <1>4, <2>1, <2>2
  <1>5. ASSUME NEW w \in Workers, HouseInsert(w)
        PROVE  RefreshWork'
    <2>1. /\ NewRefresh /\ UNCHANGED <<run, on, asked, stranded>>
          /\ step[w] = "inserting" /\ step' = [step EXCEPT ![w] = "idle"]
      BY <1>5 DEF HouseInsert, GoTo
    <2>2. \A v \in Workers : step'[v] = step[v] \/ {step[v], step'[v]} \subseteq {"idle", "inserting"}
      BY <1>3, <2>1
    <2> QED
      BY <1>2, <2>1, <2>2
  <1>6. ASSUME NEW w \in Workers, HouseLook(w)
        PROVE  RefreshWork'
    <2>1. /\ UNCHANGED <<status, lease, payload, run, on, asked, stranded>>
          /\ step[w] = "idle" /\ step' = [step EXCEPT ![w] = "inserting"]
      BY <1>6 DEF HouseLook, GoTo, jobVars
    <2>2. \A v \in Workers : step'[v] = step[v] \/ {step[v], step'[v]} \subseteq {"idle", "inserting"}
      BY <1>3, <2>1
    <2>3. \A k \in Jobs : (Open(k)' <=> Open(k)) /\ status'[k] = status[k]
      BY <2>1 DEF Open
    <2> QED
      BY <2>1, <2>2, <2>3, QuietWork
  <1>7. ASSUME NEW w \in Workers, Housekeep(w)
        PROVE  RefreshWork'
    <2>1. UNCHANGED <<lease, payload, run, step, on, asked, stranded>>
      BY <1>7 DEF Housekeep, RecoverStuck, SelectStuck, RequeueStuck, refreshVars
    <2>2. \A k \in Jobs : (Open(k)' <=> Open(k)) /\ (status'[k] = "absent" <=> status[k] = "absent")
      BY <1>7, SoleRecovers DEF Housekeep, Open
    <2> QED
      BY <2>1, <2>2, QuietWork
  <1>8. CASE ClockTick \/ TimePasses \/ Flip \/ AtRest \/ UNCHANGED vars
    <2>1. UNCHANGED <<status, lease, payload, run, step, on, asked, stranded>>
      BY <1>8 DEF ClockTick, Tick, TimePasses, Flip, AtRest, vars, refreshVars, jobVars
    <2>2. \A k \in Jobs : (Open(k)' <=> Open(k)) /\ status'[k] = status[k]
      BY <2>1 DEF Open
    <2> QED
      BY <2>1, <2>2, QuietWork
  <1>9. ASSUME NEW w \in Workers, Finish(w)
        PROVE  RefreshWork'
    <2>1. /\ UNCHANGED <<payload, run, asked, stranded>> /\ step[w] = "settle" /\ Busy(w)
          /\ lease' = [lease EXCEPT ![w] = NoLease] /\ on' = [on EXCEPT ![w] = NoRun]
          /\ step' = [step EXCEPT ![w] = "idle"]
          /\ status' = [status EXCEPT ![lease[w].job] = "done"]
      BY <1>9 DEF Finish, Complete, GoTo
    <2>2. \A r \in Runs : r \in {on[w], Payload(w)} /\ Running(r) => r \in stranded
      BY <2>1 DEF RefreshWork, NothingLeftRunning
    <2> QED
      BY <2>1, <2>2, ReleaseWork
  <1>10. ASSUME NEW w \in Workers, Bug(w)
        PROVE  RefreshWork'
    <2>1. /\ UNCHANGED <<payload, run, asked>> /\ step[w] # "idle" /\ Busy(w)
          /\ stranded' = stranded \union AtHand(w)
          /\ lease' = [lease EXCEPT ![w] = NoLease] /\ on' = [on EXCEPT ![w] = NoRun]
          /\ step' = [step EXCEPT ![w] = "idle"]
          /\ status' = [status EXCEPT ![lease[w].job] = "failed"]
      BY <1>10 DEF Bug, FailFinal, GoTo
    <2>2. \A r \in Runs : r \in {on[w], Payload(w)} /\ Running(r) => r \in stranded'
      BY <2>1 DEF AtHand
    <2>3. stranded \subseteq stranded'
      BY <2>1
    <2> QED
      BY <2>1, <2>2, <2>3, ReleaseWork
  <1>11. ASSUME NEW w \in Workers, Die(w)
        PROVE  RefreshWork'
    <2>1. /\ UNCHANGED <<payload, run, asked>> /\ step[w] # "idle" /\ status' = status
          /\ lease' = [lease EXCEPT ![w] = NoLease] /\ on' = [on EXCEPT ![w] = NoRun]
          /\ step' = [step EXCEPT ![w] = "idle"]
          /\ stranded' = IF step[w] = "inserting" THEN stranded
                         ELSE stranded \union (AtHand(w) \ {Payload(w)})
      BY <1>11 DEF Die, Crash, GoTo
    <2>2. stranded \subseteq stranded'
      BY <2>1
    <2>3. Busy(w) => step[w] # "inserting"
      BY DEF RefreshWork, StepsAgree
    <2>4. Busy(w) => \A r \in Runs : r \in {on[w], Payload(w)} /\ Running(r) =>
                         r \in stranded' \/ (status' = status /\ r = Payload(w))
      BY <2>1, <2>3 DEF AtHand
    <2>5. "done" \in {"done", "failed"}
      OBVIOUS
    <2> QED
      BY <2>1, <2>2, <2>4, <2>5, ReleaseWork
  <1> QED
    BY <1>1, <1>4, <1>5, <1>6, <1>7, <1>8, <1>9, <1>10, <1>11, StartJobWork, DisabledWork,
       PickWork, ChunkWork, CloseWork, NextChunkWork
    DEF Next, HandlerStep

\* Before anything has happened.
LEMMA RefreshInit ==
    ASSUME OneWorker, Init
    PROVE  RefreshInv
  <1>1. SoleInv
    BY InitSole DEF Init
  <1>2. RefreshTypeOK
    <2>1. JobTypeOK
      BY <1>1 DEF SoleInv
    <2>2. /\ payload \in [Jobs -> Runs \union {NoRun}] /\ run \in [Runs -> Rows]
          /\ \A r \in Runs : run[r].cursor <= run[r].plan
          /\ \A r, s \in Runs : s < r /\ Exists(r) => Exists(s)
      BY RefreshAssumption DEF Init, NoRow, Rows, Exists
    <2> QED
      BY <2>1, <2>2, RefreshAssumption DEF Init, RefreshTypeOK
  <1>3. \A j \in Jobs : ~Open(j)
    BY DEF Init, JobInit, Open
  <1>4. \A r \in Runs : ~Exists(r) /\ ~Running(r) /\ asked[r] = 1..run[r].cursor
                        /\ run[r] = NoRow
    BY DEF Init, NoRow, Exists, Running
  <1>5. \A w \in Workers : step[w] = "idle" /\ on[w] = NoRun /\ ~Busy(w)
    BY DEF Init, JobInit, NoLease, Busy
  <1>6. RefreshWork
    <2>1. StepsAgree /\ NewJobsAreBlank /\ QuestionsInOrder /\ HandsAgree
      BY <1>4, <1>5 DEF Init, StepsAgree, NewJobsAreBlank, QuestionsInOrder, HandsAgree, NoRow
    <2>2. OneHandEach /\ CarriedRunsExist /\ NothingLeftRunning /\ RunHasWork
      BY <1>3, <1>4, <1>5, RefreshAssumption
      DEF OneHandEach, CarriedRunsExist, NothingLeftRunning, RunHasWork, Carries, AtWork
    <2> QED
      BY <2>1, <2>2 DEF RefreshWork
  <1> QED
    BY <1>1, <1>2, <1>6 DEF RefreshInv

\* The inductive invariant holds throughout.
THEOREM RefreshInvariant ==
    ASSUME OneWorker
    PROVE  Spec => []RefreshInv
  <1>1. ASSUME RefreshInv, [Next]_vars
        PROVE  RefreshInv'
    <2>1. SoleInv'
      BY <1>1, RefreshKeepsQueue
    <2>2. OneWorker
      BY <1>1 DEF RefreshInv
    <2> QED
      BY <1>1, <2>1, <2>2, RefreshKeepsTypes, RefreshKeepsWork DEF RefreshInv, SoleInv
  <1> QED
    BY <1>1, RefreshInit, PTL DEF Spec

\* Every variable of the refresh keeps its type, ids of deal_runs are given
\* out in order, and a cursor never leaves its plan.
THEOREM RefreshTypes ==
    ASSUME OneWorker
    PROVE  Spec => []RefreshTypeOK
  <1>1. RefreshInv => RefreshTypeOK
    BY DEF RefreshInv
  <1> QED
    BY <1>1, RefreshInvariant, PTL

\* A run that is "ok" has put every question of its plan, whatever chunks,
\* crashes, recoveries and second jobs it went through, and none beyond the
\* cursor.
THEOREM RefreshIsComplete ==
    ASSUME OneWorker
    PROVE  Spec => []OkIsComplete
  <1>1. RefreshInv => OkIsComplete
    BY DEF RefreshInv, RefreshWork, QuestionsInOrder, OkIsComplete
  <1> QED
    BY <1>1, RefreshInvariant, PTL

\* A run that is "running" is in a worker's hand or in a job's, except for
\* those a crash in their first job, a bug or the switch left behind.
THEOREM RefreshKeepsRuns ==
    ASSUME OneWorker
    PROVE  Spec => []RunHasWork
  <1>1. RefreshInv => RunHasWork
    BY DEF RefreshInv, RefreshWork
  <1> QED
    BY <1>1, RefreshInvariant, PTL

\* A run that is over is not asked again and keeps its verdict.
THEOREM RefreshEndsOnce ==
    ASSUME OneWorker
    PROVE  Spec => OverIsOver
  <1>1. ASSUME RefreshInv, [Next]_vars
        PROVE  [\A r \in Runs : run[r].status \in {"ok", "failed"} =>
                   /\ asked'[r] = asked[r]
                   /\ run'[r].status = run[r].status]_vars
    BY <1>1, RowsKeepOrder DEF RowsInOrder, Over
  <1> QED
    BY <1>1, RefreshInvariant, PTL DEF Spec, OverIsOver

-----------------------------------------------------------------------------
(* The offers: what is announced, and what the page shows. *)

\* The offers a worker announces are in the table, and not announced before.
AnnouncesNew ==
    at[Worker] \in {"posting", "marking"} =>
        \A d \in seen[Worker].all : Stored(d) /\ d \notin alerted

\* Exactly what ToldOnceAndFaults allows: one announcement for the mark that
\* is set, or about to be, and one for each fault.
ToldOnce ==
    \A d \in Offers :
        told[d] <= faults + (IF \/ d \in alerted
                                \/ at[Worker] = "marking" /\ d \in seen[Worker].all
                             THEN 1 ELSE 0)

\* What a judgement that nothing has disturbed goes by is the truth: the
\* rules, the offers that are on, and which of them are relevant.
ReadTrue(p) ==
    /\ at[p] \in {"dismissing", "judging", "judging offers", "writing"}
    /\ at[p] \in {"judging offers", "writing"} => known[p] = rules
    /\ at[p] = "writing" => \A d \in Offers : life[d] = "current" => d \in seen[p].all
    /\ \A d \in seen[p].all : life[d] = "current" =>
           (d \in seen[p].relevant <=> d \in relevant)
CleanReadsAreTrue == \A p \in clean : ReadTrue(p)

\* The inductive invariant.
RadarInv == RadarTypeOK /\ AnnouncesNew /\ ToldOnce /\ CleanReadsAreTrue /\ ShownIsRight

Lives == {"absent", "current", "ended", "old"}
Stages == {"idle", "dismissing", "judging", "judging offers", "writing", "purging",
           "alerting", "posting", "marking"}
Reads == [all : SUBSET Offers, relevant : SUBSET Offers]

\* The type invariant, part by part.
LEMMA RadarTypeParts ==
    RadarTypeOK <=>
        /\ life \in [Offers -> Lives]
        /\ worth \subseteq Offers /\ relevant \subseteq Offers /\ alerted \subseteq Offers
        /\ \A d \in worth \union relevant \union alerted : life[d] # "absent"
        /\ rules \subseteq Rules
        /\ at \in [Processes -> Stages]
        /\ known \in [Processes -> SUBSET Rules]
        /\ seen \in [Processes -> Reads]
        /\ clean \subseteq Processes
        /\ late \in BOOLEAN
        /\ told \in [Offers -> Nat]
        /\ changes \in 0..MaxChanges
        /\ faults \in 0..MaxFaults
  BY DEF RadarTypeOK, Stored, Lives, Stages, Reads

\* The rows of the offers keep their type: what is worth a look, relevant or
\* alerted is in the table.
RowsTyped ==
    /\ life' \in [Offers -> Lives]
    /\ worth' \subseteq Offers /\ relevant' \subseteq Offers /\ alerted' \subseteq Offers
    /\ \A d \in worth' \union relevant' \union alerted' : life'[d] # "absent"
    /\ told' \in [Offers -> Nat]

\* So do the processes ...
ProcessesTyped ==
    /\ at' \in [Processes -> Stages]
    /\ known' \in [Processes -> SUBSET Rules]
    /\ seen' \in [Processes -> Reads]
    /\ clean' \subseteq Processes

\* ... and the rest.
OthersTyped ==
    /\ rules' \subseteq Rules
    /\ late' \in BOOLEAN
    /\ changes' \in 0..MaxChanges
    /\ faults' \in 0..MaxFaults

LEMMA RadarTypesPrimed ==
    ASSUME RowsTyped, ProcessesTyped, OthersTyped
    PROVE  RadarTypeOK'
  BY DEF RadarTypeOK, Stored, Lives, Stages, Reads, RowsTyped, ProcessesTyped, OthersTyped

\* What a process has read stays within the offers.
LEMMA ReadsTyped ==
    ASSUME RadarInv, NEW p \in Processes
    PROVE  seen[p].all \subseteq Offers /\ seen[p].relevant \subseteq Offers
  BY RadarTypeParts DEF RadarInv, Reads

\* The rows in every step.
LEMMA RowsStayTyped ==
    ASSUME RadarInv, [RadarNext]_radarVars
    PROVE  RowsTyped
  <1>1. /\ life \in [Offers -> Lives]
        /\ worth \subseteq Offers /\ relevant \subseteq Offers /\ alerted \subseteq Offers
        /\ \A d \in worth \union relevant \union alerted : life[d] # "absent"
        /\ told \in [Offers -> Nat]
    BY RadarTypeParts DEF RadarInv
  <1>2. Worker \in Processes
    BY DEF Processes
  <1>3. CASE UNCHANGED <<life, worth, relevant, alerted, told>>
    BY <1>1, <1>3 DEF RowsTyped
  <1>4. ASSUME NEW p \in Processes, Write(p)
        PROVE  RowsTyped
    <2>1. /\ relevant' \subseteq relevant \union worth
          /\ UNCHANGED <<life, worth, alerted, told>>
      BY <1>4 DEF Write, Written, Judged
    <2> QED
      BY <1>1, <2>1 DEF RowsTyped
  <1>5. CASE Find
    <2>1. PICK hits \in SUBSET Offers, good \in SUBSET Offers :
              /\ good \subseteq hits
              /\ life' = [d \in Offers |-> IF d \in hits THEN "current" ELSE life[d]]
              /\ worth' = (worth \ hits) \union good
      BY <1>5 DEF Find
    <2>2. UNCHANGED <<relevant, alerted, told>>
      BY <1>5 DEF Find, history
    <2>3. \A d \in Offers : life[d] # "absent" => life'[d] # "absent"
      BY <2>1
    <2>4. \A d \in good : life'[d] # "absent"
      BY <2>1
    <2>5. life' \in [Offers -> Lives]
      BY <1>1, <2>1 DEF Lives
    <2> QED
      BY <1>1, <2>1, <2>2, <2>3, <2>4, <2>5 DEF RowsTyped
  <1>6. CASE Purge
    <2>1. /\ life' = [d \in Offers |-> IF d \in Purged THEN "absent" ELSE life[d]]
          /\ worth' = worth \ Purged /\ relevant' = relevant \ Purged
          /\ alerted' = alerted \ Purged
          /\ told' = [d \in Offers |-> IF d \in Purged THEN 0 ELSE told[d]]
      BY <1>6 DEF Purge
    <2>2. life' \in [Offers -> Lives] /\ told' \in [Offers -> Nat]
      BY <1>1, <2>1 DEF Lives
    <2> QED
      BY <1>1, <2>1, <2>2 DEF RowsTyped
  <1>7. CASE UNCHANGED <<life, worth, relevant, alerted>> /\ told' = [d \in Offers |-> Announced(d)]
    <2>1. told' \in [Offers -> Nat]
      BY <1>1, <1>7 DEF Announced
    <2> QED
      BY <1>1, <1>7, <2>1 DEF RowsTyped
  <1>8. CASE Mark
    <2>1. \A d \in seen[Worker].all : d \in Offers /\ life[d] # "absent"
      BY <1>2, <1>8, ReadsTyped DEF RadarInv, AnnouncesNew, Mark, Stored
    <2>2. UNCHANGED <<life, worth, relevant, told>> /\ alerted' = alerted \union seen[Worker].all
      BY <1>8 DEF Mark, Marks, history
    <2> QED
      BY <1>1, <2>1, <2>2 DEF RowsTyped
  <1>9. ASSUME NEW d \in Offers, Ages(d)
        PROVE  RowsTyped
    <2>1. life' = [life EXCEPT ![d] = IF life[d] = "current" THEN "ended" ELSE "old"]
      BY <1>9 DEF Ages
    <2>2. UNCHANGED <<worth, relevant, alerted, told>>
      BY <1>9 DEF Ages, history
    <2>3. life' \in [Offers -> Lives] /\ \A e \in Offers : life[e] # "absent" => life'[e] # "absent"
      BY <1>1, <2>1 DEF Lives
    <2> QED
      BY <1>1, <2>2, <2>3 DEF RowsTyped
  <1>10. CASE CutShort
    <2>1. UNCHANGED <<life, worth, relevant, alerted>>
      BY <1>10 DEF CutShort, table
    <2>2. UNCHANGED told \/ told' = [d \in Offers |-> Announced(d)]
      BY <1>10 DEF CutShort
    <2> QED
      BY <1>3, <1>7, <2>1, <2>2
  <1>11. CASE Post
    <2>1. /\ UNCHANGED <<life, worth, relevant, alerted>>
          /\ told' = [d \in Offers |-> Announced(d)]
      BY <1>11 DEF Post, table
    <2> QED
      BY <1>7, <2>1
  <1>12. ASSUME NEW p \in Processes, LoadRules(p) \/ LoadOffers(p)
         PROVE  UNCHANGED <<life, worth, relevant, alerted, told>>
    BY <1>12 DEF LoadRules, LoadOffers, table, history
  <1>13. ASSUME NEW t \in Requests, Dismiss(t) \/ Refuse(t) \/ RemoveRule(t) \/ BreakOff(t)
         PROVE  UNCHANGED <<life, worth, relevant, alerted, told>>
    BY <1>13 DEF Dismiss, Refuse, RemoveRule, BreakOff, table, history
  <1>14. ASSUME NEW t \in Requests, NEW d \in Offers, OpenDismiss(t, d)
         PROVE  UNCHANGED <<life, worth, relevant, alerted, told>>
    BY <1>14 DEF OpenDismiss, table, history
  <1>15. CASE Alert \/ UNCHANGED radarVars
    <2>1. UNCHANGED <<life, worth, relevant, alerted, told>>
      BY <1>15 DEF Alert, radarVars, table, history
    <2> QED
      BY <1>3, <2>1
  <1> QED
    BY <1>2, <1>3, <1>4, <1>5, <1>6, <1>8, <1>9, <1>10, <1>11, <1>12, <1>13, <1>14, <1>15
    DEF RadarNext, Refresh, Judge, Processes

\* One process moves.
LEMMA OneMoves ==
    ASSUME RadarInv, NEW p \in Processes, NEW s \in Stages, NEW K \in SUBSET Rules,
           NEW R \in Reads,
           at' = [at EXCEPT ![p] = s],
           known' = known \/ known' = [known EXCEPT ![p] = K],
           seen' = seen \/ seen' = [seen EXCEPT ![p] = R],
           clean' \subseteq clean \union {p}
    PROVE  ProcessesTyped
  <1>1. /\ at \in [Processes -> Stages]
        /\ known \in [Processes -> SUBSET Rules]
        /\ seen \in [Processes -> Reads]
        /\ clean \subseteq Processes
    BY RadarTypeParts DEF RadarInv
  <1>2. at' \in [Processes -> Stages] /\ known' \in [Processes -> SUBSET Rules]
    BY <1>1
  <1>3. seen' \in [Processes -> Reads] /\ clean' \subseteq Processes
    BY <1>1
  <1> QED
    BY <1>2, <1>3 DEF ProcessesTyped

\* The processes in every step.
LEMMA ProcessesStayTyped ==
    ASSUME RadarInv, [RadarNext]_radarVars
    PROVE  ProcessesTyped
  <1>1. /\ relevant \subseteq Offers /\ rules \subseteq Rules
        /\ Worker \in Processes /\ Requests \subseteq Processes
        /\ {} \in SUBSET Rules
    BY RadarTypeParts DEF RadarInv, Processes
  <1>2. Nothing \in Reads /\ rules \in SUBSET Rules
    BY <1>1 DEF Nothing, Reads
  <1>3. {"idle", "dismissing", "judging", "judging offers", "writing", "purging", "alerting",
         "posting", "marking"} \subseteq Stages
    BY DEF Stages
  <1>4. CASE UNCHANGED <<at, known, seen, clean>>
    BY <1>4, RadarTypeParts DEF RadarInv, ProcessesTyped
  <1>5. ASSUME NEW p \in Processes, LoadRules(p)
        PROVE  ProcessesTyped
    <2>1. /\ at' = [at EXCEPT ![p] = "judging offers"] /\ known' = [known EXCEPT ![p] = rules]
          /\ seen' = seen /\ clean' \subseteq clean \union {p}
      BY <1>5 DEF LoadRules, Goes
    <2> QED
      BY <1>2, <1>3, <2>1, OneMoves
  <1>6. ASSUME NEW p \in Processes, LoadOffers(p)
        PROVE  ProcessesTyped
    <2> DEFINE on_now == {d \in Offers : life[d] = "current"}
               rel == {d \in on_now : d \in IF d \in seen[p].all THEN seen[p].relevant ELSE relevant}
    <2>1. seen \in [Processes -> Reads]
      BY RadarTypeParts DEF RadarInv
    <2>2. seen' = [seen EXCEPT ![p] = [all |-> on_now, relevant |-> rel]]
      BY <1>6, <2>1 DEF LoadOffers
    <2>3. [all |-> on_now, relevant |-> rel] \in Reads
      BY DEF Reads
    <2>4. at' = [at EXCEPT ![p] = "writing"] /\ UNCHANGED <<known, clean>>
      BY <1>6 DEF LoadOffers, Goes
    <2> HIDE DEF on_now, rel
    <2> QED
      BY <1>1, <1>3, <2>2, <2>3, <2>4, OneMoves
  <1>7. ASSUME NEW p \in Processes, Write(p)
        PROVE  ProcessesTyped
    <2>1. PICK s \in Stages : at' = [at EXCEPT ![p] = s]
      BY <1>3, <1>7 DEF Write, Goes
    <2>2. /\ known' = [known EXCEPT ![p] = {}] /\ seen' = [seen EXCEPT ![p] = Nothing]
          /\ clean' \subseteq clean
      BY <1>7 DEF Write, DisturbReaders
    <2>3. clean' \subseteq clean \union {p}
      BY <2>2
    <2> QED
      BY <1>1, <1>2, <2>1, <2>2, <2>3, OneMoves
  <1>8. ASSUME NEW t \in Requests, NEW d \in Offers, OpenDismiss(t, d)
        PROVE  ProcessesTyped
    <2>1. /\ at' = [at EXCEPT ![t] = "dismissing"] /\ known' = known
          /\ seen' = [seen EXCEPT ![t] = [all |-> {d}, relevant |-> {d} \intersect relevant]]
          /\ clean' \subseteq clean \union {t}
      BY <1>8 DEF OpenDismiss, Goes
    <2>2. [all |-> {d}, relevant |-> {d} \intersect relevant] \in Reads
      BY DEF Reads
    <2> QED
      BY <1>1, <1>3, <2>1, <2>2, OneMoves
  <1>9. ASSUME NEW t \in Requests, Dismiss(t) \/ RemoveRule(t)
        PROVE  ProcessesTyped
    <2>1. /\ at' = [at EXCEPT ![t] = "judging"] /\ UNCHANGED <<known, seen>>
          /\ clean' \subseteq clean \union {t}
      BY <1>9 DEF Dismiss, RemoveRule, Goes, Disturb
    <2> QED
      BY <1>1, <1>2, <1>3, <2>1, OneMoves
  <1>10. ASSUME NEW t \in Requests, Refuse(t) \/ BreakOff(t)
         PROVE  ProcessesTyped
    <2>1. /\ at' = [at EXCEPT ![t] = "idle"] /\ seen' = [seen EXCEPT ![t] = Nothing]
          /\ known' = known \/ known' = [known EXCEPT ![t] = {}]
          /\ clean' \subseteq clean \union {t}
      BY <1>10 DEF Refuse, BreakOff, Goes
    <2> QED
      BY <1>1, <1>2, <1>3, <2>1, OneMoves
  <1>11. CASE Find \/ Purge \/ Post
    <2>1. PICK s \in Stages : at' = [at EXCEPT ![Worker] = s]
      BY <1>3, <1>11 DEF Find, Purge, Post, Goes
    <2>2. UNCHANGED <<known, seen>> /\ clean' \subseteq clean
      BY <1>11 DEF Find, Purge, Post, DisturbReaders
    <2>3. clean' \subseteq clean \union {Worker}
      BY <2>2
    <2> QED
      BY <1>1, <1>2, <2>1, <2>2, <2>3, OneMoves
  <1>12. CASE Alert
    <2>1. PICK s \in Stages : at' = [at EXCEPT ![Worker] = s]
      BY <1>3, <1>12 DEF Alert, Goes
    <2>2. [Nothing EXCEPT !.all = Pending] \in Reads
      BY <1>1 DEF Nothing, Pending, Reads
    <2>3. UNCHANGED <<known, clean>> /\ seen' = [seen EXCEPT ![Worker] = [Nothing EXCEPT !.all = Pending]]
      BY <1>12 DEF Alert
    <2> QED
      BY <1>1, <2>1, <2>2, <2>3, OneMoves
  <1>13. CASE Mark \/ CutShort
    <2>1. /\ at' = [at EXCEPT ![Worker] = "idle"] /\ seen' = [seen EXCEPT ![Worker] = Nothing]
          /\ known' = known \/ known' = [known EXCEPT ![Worker] = {}]
          /\ clean' \subseteq clean \union {Worker}
      BY <1>13 DEF Mark, CutShort, Goes
    <2> QED
      BY <1>1, <1>2, <1>3, <2>1, OneMoves
  <1>14. CASE UNCHANGED radarVars \/ \E d \in Offers : Ages(d)
    <2>1. UNCHANGED <<at, known, seen, clean>>
      BY <1>14 DEF Ages, radarVars, process
    <2> QED
      BY <1>4, <2>1
  <1> QED
    BY <1>1, <1>5, <1>6, <1>7, <1>8, <1>9, <1>10, <1>11, <1>12, <1>13, <1>14
    DEF RadarNext, Refresh, Judge

\* The rules, the history and the bounds in every step.
LEMMA OthersStayTyped ==
    ASSUME RadarInv, [RadarNext]_radarVars
    PROVE  OthersTyped
  <1>1. /\ rules \subseteq Rules /\ late \in BOOLEAN
        /\ changes \in 0..MaxChanges /\ faults \in 0..MaxFaults
        /\ MaxChanges \in Nat /\ MaxFaults \in Nat
    BY RadarTypeParts, RadarAssumption DEF RadarInv
  <1>2. CASE UNCHANGED <<rules, late, changes, faults>>
    BY <1>1, <1>2 DEF OthersTyped
  <1>3. ASSUME NEW p \in Processes, Write(p)
        PROVE  OthersTyped
    <2>1. UNCHANGED <<rules, changes, faults>> /\ late' \in BOOLEAN
      BY <1>3 DEF Write
    <2> QED
      BY <1>1, <2>1 DEF OthersTyped
  <1>4. ASSUME NEW t \in Requests, Dismiss(t) \/ RemoveRule(t)
        PROVE  OthersTyped
    <2>1. UNCHANGED <<late, faults>> /\ changes < MaxChanges /\ changes' = changes + 1
      BY <1>4 DEF Dismiss, RemoveRule, Change
    <2>2. changes' \in 0..MaxChanges
      BY <1>1, <2>1
    <2>3. rules' \subseteq Rules
      <3>1. CASE RemoveRule(t)
        BY <1>1, <3>1 DEF RemoveRule
      <3>2. CASE Dismiss(t)
        <4>1. PICK d \in seen[t].all, kind \in Kinds : rules' = rules \union {Rule(kind, d)}
          BY <3>2 DEF Dismiss
        <4>2. d \in Offers
          BY ReadsTyped DEF Processes
        <4> QED
          BY <1>1, <4>1, <4>2 DEF Rules
      <3> QED
        BY <1>4, <3>1, <3>2
    <2> QED
      BY <1>1, <2>1, <2>2, <2>3 DEF OthersTyped
  <1>5. ASSUME NEW t \in Requests, BreakOff(t)
        PROVE  OthersTyped
    <2>1. UNCHANGED <<rules, changes>> /\ late' = TRUE /\ faults < MaxFaults /\ faults' = faults + 1
      BY <1>5 DEF BreakOff, Fault, table
    <2> QED
      BY <1>1, <2>1 DEF OthersTyped
  <1>6. CASE CutShort
    <2>1. UNCHANGED <<rules, changes>> /\ faults < MaxFaults /\ faults' = faults + 1
      BY <1>6 DEF CutShort, Fault, table
    <2>2. late' \in BOOLEAN
      BY <1>6 DEF CutShort
    <2>3. faults' \in 0..MaxFaults
      BY <1>1, <2>1
    <2> QED
      BY <1>1, <2>1, <2>2, <2>3 DEF OthersTyped
  <1>7. ASSUME NEW p \in Processes, LoadRules(p) \/ LoadOffers(p)
        PROVE  UNCHANGED <<rules, late, changes, faults>>
    BY <1>7 DEF LoadRules, LoadOffers, table, history
  <1>8. CASE Find \/ Purge \/ Alert \/ Post \/ Mark
    <2>1. UNCHANGED <<rules, late, changes, faults>>
      BY <1>8 DEF Find, Purge, Alert, Post, Mark, table, history
    <2> QED
      BY <1>2, <2>1
  <1>9. ASSUME NEW t \in Requests, NEW d \in Offers, OpenDismiss(t, d)
        PROVE  UNCHANGED <<rules, late, changes, faults>>
    BY <1>9 DEF OpenDismiss, table, history
  <1>10. ASSUME NEW t \in Requests, Refuse(t)
         PROVE  UNCHANGED <<rules, late, changes, faults>>
    BY <1>10 DEF Refuse, table, history
  <1>11. CASE UNCHANGED radarVars \/ \E d \in Offers : Ages(d)
    <2>1. UNCHANGED <<rules, late, changes, faults>>
      BY <1>11 DEF Ages, radarVars, table, history
    <2> QED
      BY <1>2, <2>1
  <1>12. Worker \in Processes /\ Requests \subseteq Processes
    BY DEF Processes
  <1> QED
    BY <1>2, <1>3, <1>4, <1>5, <1>6, <1>7, <1>8, <1>9, <1>10, <1>11, <1>12
    DEF RadarNext, Refresh, Judge

\* A request leaves the worker and what is announced alone.
RequestStep(t) ==
    \/ Judge(t) \/ Dismiss(t) \/ Refuse(t) \/ RemoveRule(t) \/ BreakOff(t)
    \/ \E d \in Offers : OpenDismiss(t, d)

LEMMA RequestsLeaveWorker ==
    ASSUME RadarInv, NEW t \in Requests, RequestStep(t)
    PROVE  /\ at'[Worker] = at[Worker] /\ seen'[Worker] = seen[Worker]
           /\ UNCHANGED <<life, worth, alerted, told>>
           /\ faults' \in Nat /\ faults <= faults'
  <1>1. /\ at \in [Processes -> Stages] /\ seen \in [Processes -> Reads]
        /\ faults \in Nat /\ t # Worker /\ Worker \in Processes
    BY RadarTypeParts, RadarAssumption DEF RadarInv, Processes
  <1>2. /\ \E s : at' = [at EXCEPT ![t] = s]
        /\ seen' = seen \/ \E R : seen' = [seen EXCEPT ![t] = R]
    BY DEF RequestStep, Judge, LoadRules, LoadOffers, Write, Dismiss, Refuse, RemoveRule,
           BreakOff, OpenDismiss, Goes
  <1>3. UNCHANGED <<life, worth, alerted, told>>
    BY DEF RequestStep, Judge, LoadRules, LoadOffers, Write, Dismiss, Refuse, RemoveRule,
           BreakOff, OpenDismiss, table, history
  <1>4. faults' = faults \/ faults' = faults + 1
    BY DEF RequestStep, Judge, LoadRules, LoadOffers, Write, Dismiss, Refuse, RemoveRule,
           BreakOff, OpenDismiss, Fault, history
  <1> QED
    BY <1>1, <1>2, <1>3, <1>4

\* The worker's stages.
LEMMA WorkerMoves ==
    ASSUME RadarInv, RadarNext
    PROVE  \/ \E t \in Requests : RequestStep(t)
           \/ \E d \in Offers : Ages(d)
           \/ Find \/ Judge(Worker) \/ Purge \/ Alert \/ Post \/ Mark \/ CutShort
  BY DEF RadarNext, Refresh, RequestStep

\* What is about to be announced is in the table and has no mark yet.
LEMMA AnnouncesStayNew ==
    ASSUME RadarInv, [RadarNext]_radarVars
    PROVE  AnnouncesNew'
  <1>1. /\ at \in [Processes -> Stages] /\ seen \in [Processes -> Reads]
        /\ life \in [Offers -> Lives]
        /\ Worker \in Processes
    BY RadarTypeParts DEF RadarInv, Processes
  <1>2. AnnouncesNew
    BY DEF RadarInv
  <1>3. ASSUME at'[Worker] = at[Worker], seen'[Worker] = seen[Worker], UNCHANGED alerted,
               \A d \in Offers : Stored(d) => life'[d] # "absent"
        PROVE  AnnouncesNew'
    <2>1. seen[Worker].all \subseteq Offers
      BY <1>1, ReadsTyped
    <2> QED
      BY <1>2, <1>3, <2>1 DEF AnnouncesNew, Stored
  <1>4. ASSUME NEW t \in Requests, RequestStep(t)
        PROVE  AnnouncesNew'
    BY <1>3, <1>4, RequestsLeaveWorker DEF Stored
  <1>5. ASSUME NEW d \in Offers, Ages(d)
        PROVE  AnnouncesNew'
    <2>1. life' = [life EXCEPT ![d] = IF life[d] = "current" THEN "ended" ELSE "old"]
      BY <1>5 DEF Ages
    <2>2. \A e \in Offers : Stored(e) => life'[e] # "absent"
      BY <1>1, <2>1 DEF Stored
    <2>3. UNCHANGED <<at, seen, alerted>>
      BY <1>5 DEF Ages, process
    <2> QED
      BY <1>3, <2>2, <2>3
  <1>6. CASE Find \/ Judge(Worker) \/ Purge \/ Mark \/ CutShort
    <2>1. at'[Worker] \notin {"posting", "marking"}
      BY <1>1, <1>6 DEF Find, Judge, LoadRules, LoadOffers, Write, Purge, Mark, CutShort, Goes
    <2> QED
      BY <2>1 DEF AnnouncesNew
  <1>7. CASE Alert
    <2>1. /\ seen' = [seen EXCEPT ![Worker] = [Nothing EXCEPT !.all = Pending]]
          /\ UNCHANGED <<life, alerted>>
      BY <1>7 DEF Alert, table
    <2>2. seen'[Worker].all = Pending
      BY <1>1, <2>1 DEF Nothing
    <2> QED
      BY <2>1, <2>2 DEF AnnouncesNew, Pending, Stored
  <1>8. CASE Post
    <2>1. at[Worker] = "posting" /\ UNCHANGED <<life, alerted, seen>>
      BY <1>8 DEF Post, table
    <2> QED
      BY <1>2, <2>1 DEF AnnouncesNew, Stored
  <1>9. CASE UNCHANGED radarVars
    <2>1. UNCHANGED <<at, seen, alerted, life>>
      BY <1>9 DEF radarVars, table, process
    <2> QED
      BY <1>2, <2>1 DEF AnnouncesNew, Stored
  <1> QED
    BY <1>4, <1>5, <1>6, <1>7, <1>8, <1>9, WorkerMoves

\* One announcement for a mark, one for a fault.
LEMMA ToldStaysOnce ==
    ASSUME RadarInv, [RadarNext]_radarVars
    PROVE  ToldOnce'
  <1>1. /\ at \in [Processes -> Stages] /\ seen \in [Processes -> Reads]
        /\ told \in [Offers -> Nat] /\ faults \in Nat
        /\ Worker \in Processes
    BY RadarTypeParts, RadarAssumption DEF RadarInv, Processes
  <1> DEFINE Marked(d) == d \in alerted \/ (at[Worker] = "marking" /\ d \in seen[Worker].all)
             Marked1(d) == d \in alerted' \/ (at'[Worker] = "marking" /\ d \in seen'[Worker].all)
  <1>2. \A d \in Offers : told[d] <= faults + (IF Marked(d) THEN 1 ELSE 0)
    BY DEF RadarInv, ToldOnce
  <1> SUFFICES ASSUME NEW d \in Offers
               PROVE  told'[d] <= faults' + (IF Marked1(d) THEN 1 ELSE 0)
    BY DEF ToldOnce
  <1>3. ASSUME told'[d] = told[d], faults' \in Nat, faults <= faults', Marked(d) => Marked1(d)
        PROVE  told'[d] <= faults' + (IF Marked1(d) THEN 1 ELSE 0)
    <2>1. told[d] \in Nat /\ told[d] <= faults + (IF Marked(d) THEN 1 ELSE 0)
      BY <1>1, <1>2
    <2> HIDE DEF Marked, Marked1
    <2> QED
      BY <1>1, <1>3, <2>1
  <1>4. ASSUME NEW t \in Requests, RequestStep(t)
        PROVE  told'[d] <= faults' + (IF Marked1(d) THEN 1 ELSE 0)
    BY <1>3, <1>4, RequestsLeaveWorker
  <1>5. CASE UNCHANGED radarVars \/ (\E e \in Offers : Ages(e)) \/ Find \/ Judge(Worker)
             \/ Alert
    <2>1. UNCHANGED <<told, faults, alerted>>
      BY <1>5 DEF Ages, Find, Judge, LoadRules, LoadOffers, Write, Alert, radarVars, table,
                  history
    <2>2. (UNCHANGED <<at, seen>>) \/ at[Worker] # "marking"
      BY <1>5 DEF Ages, Find, Judge, LoadRules, LoadOffers, Write, Alert, radarVars, process
    <2> QED
      BY <1>1, <1>3, <2>1, <2>2
  <1>6. CASE Purge
    <2>1. /\ told' = [e \in Offers |-> IF e \in Purged THEN 0 ELSE told[e]]
          /\ alerted' = alerted \ Purged /\ faults' = faults /\ at[Worker] = "purging"
      BY <1>6 DEF Purge
    <2>2. CASE d \in Purged
      <3>1. told'[d] = 0
        BY <2>1, <2>2
      <3> HIDE DEF Marked1
      <3> QED
        BY <1>1, <2>1, <3>1
    <2>3. CASE d \notin Purged
      <3>1. told'[d] = told[d] /\ (Marked(d) => Marked1(d))
        BY <2>1, <2>3
      <3> QED
        BY <1>1, <1>3, <2>1, <3>1
    <2> QED
      BY <2>2, <2>3
  <1>7. CASE Mark
    <2>1. /\ UNCHANGED <<told, faults>> /\ alerted' = alerted \union seen[Worker].all
          /\ at[Worker] = "marking"
      BY <1>7 DEF Mark, Marks, history
    <2> QED
      BY <1>1, <1>3, <2>1
  <1>8. at[Worker] = "posting" => told[d] + (IF d \in seen[Worker].all THEN 1 ELSE 0)
                                   <= faults + (IF d \in alerted \/ d \in seen[Worker].all
                                                THEN 1 ELSE 0)
    <2>1. at[Worker] = "posting" /\ d \in seen[Worker].all => d \notin alerted
      BY DEF RadarInv, AnnouncesNew
    <2>2. told[d] \in Nat /\ (at[Worker] = "posting" =>
              told[d] <= faults + (IF d \in alerted THEN 1 ELSE 0))
      BY <1>1, <1>2
    <2> QED
      BY <1>1, <2>1, <2>2
  <1>9. CASE Post
    <2>1. /\ at[Worker] = "posting" /\ UNCHANGED <<faults, alerted, seen>>
          /\ told' = [e \in Offers |-> Announced(e)]
          /\ at' = [at EXCEPT ![Worker] = "marking"]
      BY <1>9 DEF Post, Goes, table
    <2>2. told'[d] = told[d] + (IF d \in seen[Worker].all THEN 1 ELSE 0)
      BY <1>1, <2>1 DEF Announced
    <2>3. Marked1(d) <=> d \in alerted \/ d \in seen[Worker].all
      BY <1>1, <2>1
    <2> HIDE DEF Marked1
    <2> QED
      BY <1>8, <2>1, <2>2, <2>3
  <1>10. CASE CutShort
    <2>1. /\ faults' = faults + 1 /\ alerted' = alerted
          /\ \/ told' = told
             \/ at[Worker] = "posting" /\ told' = [e \in Offers |-> Announced(e)]
      BY <1>10 DEF CutShort, Fault, table
    <2>2. told[d] \in Nat /\ told[d] <= faults + (IF Marked(d) THEN 1 ELSE 0)
      BY <1>1, <1>2
    <2>3. d \in alerted => Marked1(d)
      BY <2>1
    <2>4. \/ told'[d] = told[d]
          \/ /\ told'[d] = told[d] + (IF d \in seen[Worker].all THEN 1 ELSE 0)
             /\ at[Worker] = "posting"
      BY <1>1, <2>1 DEF Announced
    <2>5. d \in alerted => Marked(d)
      OBVIOUS
    <2>6. CASE told'[d] = told[d]
      <3> HIDE DEF Marked, Marked1
      <3>1. CASE d \in alerted
        BY <1>1, <2>1, <2>2, <2>3, <2>6, <3>1
      <3>2. CASE d \notin alerted
        BY <1>1, <2>1, <2>2, <2>6, <3>2
      <3> QED
        BY <3>1, <3>2
    <2>7. CASE told'[d] = told[d] + (IF d \in seen[Worker].all THEN 1 ELSE 0)
               /\ at[Worker] = "posting"
      <3>1. ~(d \in seen[Worker].all /\ d \in alerted)
        BY <2>7 DEF RadarInv, AnnouncesNew
      <3> HIDE DEF Marked, Marked1
      <3> QED
        BY <1>1, <1>8, <2>1, <2>2, <2>3, <2>7, <3>1
    <2> QED
      BY <2>4, <2>6, <2>7
  <1> QED
    BY <1>4, <1>5, <1>6, <1>7, <1>9, <1>10, WorkerMoves

\* What an undisturbed process has read stays true while the process, the
\* rules and the offers that are on are let alone.
LEMMA ReadStaysTrue ==
    ASSUME RadarInv, NEW q \in clean,
           at'[q] = at[q], known'[q] = known[q], seen'[q] = seen[q], rules' = rules,
           \A d \in Offers : life'[d] = "current" =>
               life[d] = "current" /\ (d \in relevant' <=> d \in relevant)
    PROVE  ReadTrue(q)'
  <1>1. ReadTrue(q) /\ seen[q].all \subseteq Offers
    <2>1. q \in Processes
      BY RadarTypeParts DEF RadarInv
    <2> QED
      BY <2>1, ReadsTyped DEF RadarInv, CleanReadsAreTrue
  <1> QED
    BY <1>1 DEF ReadTrue

\* An undisturbed judgement has read what is true.
LEMMA CleanReadsStayTrue ==
    ASSUME RadarInv, [RadarNext]_radarVars
    PROVE  CleanReadsAreTrue'
  <1>1. /\ at \in [Processes -> Stages] /\ known \in [Processes -> SUBSET Rules]
        /\ seen \in [Processes -> Reads] /\ clean \subseteq Processes
        /\ Worker \in Processes /\ Requests \subseteq Processes
    BY RadarTypeParts DEF RadarInv, Processes
  <1>2. \A p \in clean : ReadTrue(p) /\ seen[p].all \subseteq Offers
    BY <1>1, ReadsTyped DEF RadarInv, CleanReadsAreTrue
  <1> SUFFICES ASSUME NEW q \in clean'
               PROVE  ReadTrue(q)'
    BY DEF CleanReadsAreTrue
  <1>3. ASSUME NEW p \in Processes, LoadRules(p)
        PROVE  ReadTrue(q)'
    <2>1. /\ at[p] = "judging" /\ UNCHANGED <<life, relevant, rules, seen>>
          /\ known' = [known EXCEPT ![p] = rules]
          /\ clean' = IF seen[p] = Nothing THEN clean \union {p} ELSE clean
          /\ at' = [at EXCEPT ![p] = "judging offers"]
      BY <1>3 DEF LoadRules, Goes, table
    <2>2. CASE q = p
      <3>1. at'[q] = "judging offers" /\ known'[q] = rules /\ seen'[q] = seen[p]
        BY <1>1, <2>1, <2>2
      <3>2. seen[p].all = {} \/ ReadTrue(p)
        <4>1. CASE seen[p] = Nothing
          BY <4>1 DEF Nothing
        <4>2. CASE seen[p] # Nothing
          BY <1>2, <2>1, <2>2, <4>2
        <4> QED
          BY <4>1, <4>2
      <3> QED
        BY <2>1, <2>2, <3>1, <3>2 DEF ReadTrue
    <2>3. CASE q # p
      <3>1. q \in clean /\ at'[q] = at[q] /\ known'[q] = known[q] /\ seen'[q] = seen[q]
        BY <1>1, <2>1, <2>3
      <3> QED
        BY <2>1, <3>1, ReadStaysTrue
    <2> QED
      BY <2>2, <2>3
  <1>4. ASSUME NEW p \in Processes, LoadOffers(p)
        PROVE  ReadTrue(q)'
    <2> DEFINE on_now == {d \in Offers : life[d] = "current"}
               rel == {d \in on_now : d \in IF d \in seen[p].all THEN seen[p].relevant ELSE relevant}
    <2>1. /\ at[p] = "judging offers" /\ UNCHANGED <<life, relevant, rules, known, clean>>
          /\ seen' = [seen EXCEPT ![p] = [all |-> on_now, relevant |-> rel]]
          /\ at' = [at EXCEPT ![p] = "writing"]
      BY <1>1, <1>4 DEF LoadOffers, Goes, table
    <2>2. CASE q = p
      <3>1. /\ at'[q] = "writing" /\ known'[q] = known[p]
            /\ seen'[q].all = on_now /\ seen'[q].relevant = rel
        BY <1>1, <2>1, <2>2
      <3>2. ReadTrue(p)
        BY <1>2, <2>1, <2>2
      <3>3. known[p] = rules
        BY <2>1, <3>2 DEF ReadTrue
      <3>4. \A d \in on_now : d \in rel <=> d \in relevant
        BY <3>2 DEF ReadTrue
      <3>5. at'[q] = "writing" => \A d \in Offers : life'[d] = "current" => d \in seen'[q].all
        BY <2>1, <3>1
      <3>6. \A d \in seen'[q].all : life'[d] = "current" =>
                (d \in seen'[q].relevant <=> d \in relevant')
        BY <2>1, <3>1, <3>4
      <3> QED
        BY <2>1, <3>1, <3>3, <3>5, <3>6 DEF ReadTrue
    <2>3. CASE q # p
      <3>1. q \in clean /\ at'[q] = at[q] /\ known'[q] = known[q] /\ seen'[q] = seen[q]
        BY <1>1, <2>1, <2>3
      <3> QED
        BY <2>1, <3>1, ReadStaysTrue
    <2> QED
      BY <2>2, <2>3
  <1>5. ASSUME NEW p \in Processes, DisturbReaders(p), rules' = rules,
               \A x \in Processes \ {p} : at'[x] = at[x] /\ known'[x] = known[x] /\ seen'[x] = seen[x]
        PROVE  ReadTrue(q)'
    <2>1. q \in clean /\ q # p /\ at[q] = "judging offers" /\ seen[q] = Nothing
      BY <1>5 DEF DisturbReaders
    <2>2. at'[q] = "judging offers" /\ known'[q] = known[q] /\ seen'[q].all = {}
      <3>1. seen'[q] = seen[q] /\ at'[q] = at[q] /\ known'[q] = known[q]
        BY <1>1, <1>5, <2>1
      <3>2. seen[q].all = Nothing.all /\ Nothing.all = {}
        <4>1. Nothing.all = {}
          BY DEF Nothing
        <4> QED
          BY <2>1, <4>1
      <3> QED
        BY <2>1, <3>1, <3>2
    <2>3. known[q] = rules
      BY <1>2, <2>1 DEF ReadTrue
    <2> QED
      BY <1>5, <2>2, <2>3 DEF ReadTrue
  <1>6. ASSUME NEW p \in Processes, Write(p)
        PROVE  ReadTrue(q)'
    <2>1. DisturbReaders(p) /\ rules' = rules
      BY <1>6 DEF Write
    <2>2. /\ \E s : at' = [at EXCEPT ![p] = s]
          /\ known' = [known EXCEPT ![p] = {}] /\ seen' = [seen EXCEPT ![p] = Nothing]
      BY <1>6 DEF Write, Goes
    <2>3. \A x \in Processes \ {p} : at'[x] = at[x] /\ known'[x] = known[x] /\ seen'[x] = seen[x]
      BY <1>1, <2>2
    <2> QED
      BY <1>5, <2>1, <2>3
  <1>7. CASE Find
    <2>1. DisturbReaders(Worker) /\ rules' = rules
      BY <1>7 DEF Find
    <2>2. at' = [at EXCEPT ![Worker] = "judging"] /\ UNCHANGED <<known, seen>>
      BY <1>7 DEF Find, Goes
    <2>3. \A x \in Processes \ {Worker} : at'[x] = at[x] /\ known'[x] = known[x] /\ seen'[x] = seen[x]
      BY <1>1, <2>2
    <2> QED
      BY <1>1, <1>5, <2>1, <2>3
  <1>8. ASSUME NEW t \in Requests, Dismiss(t) \/ RemoveRule(t)
        PROVE  ReadTrue(q)'
    <2>1. /\ clean' = clean \intersect {t} /\ at' = [at EXCEPT ![t] = "judging"]
          /\ UNCHANGED <<life, relevant, known, seen>>
      BY <1>8 DEF Dismiss, RemoveRule, Disturb, Goes
    <2>2. q = t /\ ReadTrue(q) /\ at'[q] = "judging"
      BY <1>1, <1>2, <2>1
    <2> QED
      BY <2>1, <2>2 DEF ReadTrue
  <1>9. ASSUME NEW t \in Requests, NEW d \in Offers, OpenDismiss(t, d)
        PROVE  ReadTrue(q)'
    <2>1. /\ at' = [at EXCEPT ![t] = "dismissing"] /\ UNCHANGED <<life, relevant, rules, known>>
          /\ seen' = [seen EXCEPT ![t] = [all |-> {d}, relevant |-> {d} \intersect relevant]]
          /\ clean' = clean \union {t}
      BY <1>9 DEF OpenDismiss, Goes, table
    <2>2. CASE q = t
      <3>1. at'[q] = "dismissing" /\ seen'[q].all = {d} /\ seen'[q].relevant = {d} \intersect relevant
        BY <1>1, <2>1, <2>2
      <3> QED
        BY <2>1, <3>1 DEF ReadTrue
    <2>3. CASE q # t
      <3>1. q \in clean /\ at'[q] = at[q] /\ known'[q] = known[q] /\ seen'[q] = seen[q]
        BY <1>1, <2>1, <2>3
      <3> QED
        BY <2>1, <3>1, ReadStaysTrue
    <2> QED
      BY <2>2, <2>3
  <1>10. ASSUME NEW t \in Requests, Refuse(t) \/ BreakOff(t)
         PROVE  ReadTrue(q)'
    <2>1. /\ at' = [at EXCEPT ![t] = "idle"] /\ UNCHANGED <<life, relevant, rules>>
          /\ seen' = [seen EXCEPT ![t] = Nothing]
          /\ known' = known \/ known' = [known EXCEPT ![t] = {}]
          /\ clean' = clean \ {t}
      BY <1>10 DEF Refuse, BreakOff, Goes, table
    <2>2. q \in clean /\ at'[q] = at[q] /\ known'[q] = known[q] /\ seen'[q] = seen[q]
      BY <1>1, <2>1
    <2> QED
      BY <2>1, <2>2, ReadStaysTrue
  <1>11. CASE CutShort
    <2>1. /\ at' = [at EXCEPT ![Worker] = "idle"] /\ UNCHANGED <<life, relevant, rules>>
          /\ seen' = [seen EXCEPT ![Worker] = Nothing]
          /\ known' = [known EXCEPT ![Worker] = {}]
          /\ clean' = clean \ {Worker}
      BY <1>11 DEF CutShort, Goes, table
    <2>2. q \in clean /\ at'[q] = at[q] /\ known'[q] = known[q] /\ seen'[q] = seen[q]
      BY <1>1, <2>1
    <2> QED
      BY <2>1, <2>2, ReadStaysTrue
  <1>12. CASE Purge \/ Alert \/ Post \/ Mark
    <2>1. at[Worker] \in {"purging", "alerting", "posting", "marking"}
      BY <1>12 DEF Purge, Alert, Post, Mark
    <2>2. UNCHANGED <<rules, known, clean>>
      BY <1>12 DEF Purge, Alert, Post, Mark, table
    <2>3. q \in clean /\ q # Worker
      BY <1>2, <2>1, <2>2 DEF ReadTrue
    <2>4. /\ \E s : at' = [at EXCEPT ![Worker] = s]
          /\ seen' = seen \/ \E R : seen' = [seen EXCEPT ![Worker] = R]
      BY <1>12 DEF Purge, Alert, Post, Mark, Goes
    <2>5. at'[q] = at[q] /\ seen'[q] = seen[q]
      BY <1>1, <2>3, <2>4
    <2>6. \A d \in Offers : life'[d] = "current" =>
              life[d] = "current" /\ (d \in relevant' <=> d \in relevant)
      BY <1>12 DEF Purge, Purged, Alert, Post, Mark, table
    <2> QED
      BY <2>2, <2>3, <2>5, <2>6, ReadStaysTrue
  <1>13. ASSUME NEW d \in Offers, Ages(d)
         PROVE  ReadTrue(q)'
    <2>1. /\ UNCHANGED <<relevant, rules, at, known, seen, clean>>
          /\ life' = [life EXCEPT ![d] = IF life[d] = "current" THEN "ended" ELSE "old"]
      BY <1>13 DEF Ages, process
    <2>2. \A e \in Offers : life'[e] = "current" => life[e] = "current"
      BY <2>1, RadarTypeParts DEF RadarInv
    <2> QED
      BY <2>1, <2>2, ReadStaysTrue
  <1>14. CASE UNCHANGED radarVars
    <2>1. UNCHANGED <<life, relevant, rules, at, known, seen, clean>>
      BY <1>14 DEF radarVars, table, process
    <2> QED
      BY <2>1, ReadStaysTrue
  <1> QED
    BY <1>1, <1>3, <1>4, <1>6, <1>7, <1>8, <1>9, <1>10, <1>11, <1>12, <1>13, <1>14
    DEF RadarNext, Refresh, Judge

\* An undisturbed judgement that is written makes the page right.
LEMMA CleanWriteIsRight ==
    ASSUME RadarInv, NEW p \in Processes, Write(p), p \in clean,
           NEW d \in Offers, life[d] = "current"
    PROVE  d \in relevant' <=> d \in worth /\ ~Blocked(rules, d)
  <1>1. /\ known[p] = rules /\ d \in seen[p].all
        /\ d \in seen[p].relevant <=> d \in relevant
    BY DEF RadarInv, CleanReadsAreTrue, ReadTrue, Write
  <1>2. d \in Judged(p) <=> d \in worth /\ ~Blocked(rules, d)
    BY <1>1 DEF Judged
  <1>3. d \in relevant' <=>
            \/ d \in relevant /\ ~(d \in seen[p].relevant /\ d \notin Judged(p))
            \/ d \in Judged(p) /\ d \notin seen[p].relevant
    BY DEF Write, Written
  <1> QED
    BY <1>1, <1>2, <1>3

\* The page, in every step.
LEMMA PageStaysRight ==
    ASSUME RadarInv, [RadarNext]_radarVars
    PROVE  ShownIsRight'
  <1> DEFINE Right(d) == d \in relevant' <=> d \in worth' /\ ~Blocked(rules', d)
             AtIt == {"judging", "judging offers", "writing"}
  <1>1. /\ at \in [Processes -> Stages] /\ Worker \in Processes
        /\ Requests \subseteq Processes
        /\ life \in [Offers -> Lives]
    BY RadarTypeParts DEF RadarInv, Processes
  <1> SUFFICES ASSUME ~late', \A p \in Processes : at'[p] \notin AtIt,
                      NEW d \in Offers, life'[d] = "current"
               PROVE  d \in relevant' <=> d \in worth' /\ ~Blocked(rules', d)
    BY DEF ShownIsRight, Judging, Blocked
  <1>2. ASSUME late' = late, rules' = rules, life[d] = "current",
               d \in relevant' <=> d \in relevant, d \in worth' <=> d \in worth,
               \A p \in Processes : at[p] \notin AtIt
        PROVE  Right(d)
    BY <1>2 DEF RadarInv, ShownIsRight, Judging, Blocked
  <1>3. ASSUME NEW p \in Processes, Write(p)
        PROVE  Right(d)
    <2>1. UNCHANGED <<life, worth, rules>> /\ p \in clean
      BY <1>3 DEF Write
    <2> QED
      BY <1>3, <2>1, CleanWriteIsRight
  <1>4. ASSUME NEW p \in Processes, LoadRules(p) \/ LoadOffers(p)
        PROVE  FALSE
    BY <1>1, <1>4 DEF LoadRules, LoadOffers, Goes
  <1>5. ASSUME NEW t \in Requests, Dismiss(t) \/ RemoveRule(t)
        PROVE  FALSE
    BY <1>1, <1>5 DEF Dismiss, RemoveRule, Goes
  <1>6. ASSUME Find
        PROVE  FALSE
    BY <1>1, <1>6 DEF Find, Goes
  <1>7. ASSUME NEW t \in Requests, BreakOff(t)
        PROVE  FALSE
    BY <1>7 DEF BreakOff
  <1>8. ASSUME NEW p \in Processes, at[p] \notin AtIt, NEW s, at' = [at EXCEPT ![p] = s]
        PROVE  \A x \in Processes : at[x] \notin AtIt
    BY <1>1, <1>8
  <1>9. ASSUME NEW t \in Requests, Refuse(t)
        PROVE  Right(d)
    <2>1. at[t] = "dismissing" /\ at' = [at EXCEPT ![t] = "idle"] /\ UNCHANGED <<table, late>>
      BY <1>9 DEF Refuse, Goes, history
    <2>2. \A x \in Processes : at[x] \notin AtIt
      BY <1>1, <1>8, <2>1
    <2> QED
      BY <1>2, <2>1, <2>2 DEF table
  <1>10. ASSUME NEW t \in Requests, NEW e \in Offers, OpenDismiss(t, e)
         PROVE  Right(d)
    <2>1. at[t] = "idle" /\ at' = [at EXCEPT ![t] = "dismissing"] /\ UNCHANGED <<table, late>>
      BY <1>10 DEF OpenDismiss, Goes, history
    <2>2. \A x \in Processes : at[x] \notin AtIt
      BY <1>1, <1>8, <2>1
    <2> QED
      BY <1>2, <2>1, <2>2 DEF table
  <1>11. CASE CutShort
    <2>1. /\ at[Worker] \notin AtIt /\ at' = [at EXCEPT ![Worker] = "idle"]
          /\ UNCHANGED table /\ late' = late
      BY <1>11, RadarTypeParts DEF RadarInv, CutShort, Goes
    <2>2. \A x \in Processes : at[x] \notin AtIt
      BY <1>1, <1>8, <2>1
    <2> QED
      BY <1>2, <2>1, <2>2 DEF table
  <1>12. CASE Purge \/ Alert \/ Post \/ Mark
    <2>1. /\ at[Worker] \in {"purging", "alerting", "posting", "marking"}
          /\ \E s : at' = [at EXCEPT ![Worker] = s]
      BY <1>12 DEF Purge, Alert, Post, Mark, Goes
    <2>2. \A x \in Processes : at[x] \notin AtIt
      BY <1>1, <1>8, <2>1
    <2>3. rules' = rules /\ late' = late
      BY <1>12 DEF Purge, Alert, Post, Mark, table, history
    <2>4. CASE Purge
      <3>1. d \notin Purged /\ life[d] = "current"
        BY <2>4 DEF Purge, Purged
      <3>2. relevant' = relevant \ Purged /\ worth' = worth \ Purged
        BY <2>4 DEF Purge
      <3> QED
        BY <1>2, <2>2, <2>3, <3>1, <3>2
    <2>5. CASE Alert \/ Post \/ Mark
      <3>1. UNCHANGED <<life, relevant, worth>>
        BY <2>5 DEF Alert, Post, Mark, table
      <3> QED
        BY <1>2, <2>2, <2>3, <3>1
    <2> QED
      BY <1>12, <2>4, <2>5
  <1>13. ASSUME NEW e \in Offers, Ages(e)
         PROVE  Right(d)
    <2>1. /\ UNCHANGED <<relevant, worth, rules, at, late>>
          /\ life' = [life EXCEPT ![e] = IF life[e] = "current" THEN "ended" ELSE "old"]
      BY <1>13 DEF Ages, process, history
    <2>2. life[d] = "current"
      BY <1>1, <2>1
    <2> QED
      BY <1>2, <2>1, <2>2
  <1>14. CASE UNCHANGED radarVars
    <2>1. UNCHANGED <<life, relevant, worth, rules, at, late>>
      BY <1>14 DEF radarVars, table, process, history
    <2> QED
      BY <1>2, <2>1
  <1> QED
    BY <1>1, <1>3, <1>4, <1>5, <1>6, <1>7, <1>9, <1>10, <1>11, <1>12, <1>13, <1>14
    DEF RadarNext, Refresh, Judge

\* Before anything is found.
LEMMA RadarStarts ==
    ASSUME RadarInit
    PROVE  RadarInv
  <1>1. Worker \in Processes
    BY DEF Processes
  <1>2. RadarTypeOK
    <2>1. Nothing \in Reads
      BY DEF Nothing, Reads
    <2>2. /\ life \in [Offers -> Lives] /\ at \in [Processes -> Stages]
          /\ seen \in [Processes -> Reads] /\ known \in [Processes -> SUBSET Rules]
          /\ told \in [Offers -> Nat] /\ late \in BOOLEAN
      BY <2>1 DEF RadarInit, Lives, Stages
    <2>3. changes \in 0..MaxChanges /\ faults \in 0..MaxFaults
      BY RadarAssumption DEF RadarInit
    <2>4. worth = {} /\ relevant = {} /\ alerted = {} /\ rules = {} /\ clean = {}
      BY DEF RadarInit
    <2> QED
      BY <2>2, <2>3, <2>4, RadarTypeParts
  <1>3. AnnouncesNew /\ CleanReadsAreTrue
    BY <1>1 DEF RadarInit, AnnouncesNew, CleanReadsAreTrue
  <1>4. ToldOnce
    BY <1>1 DEF RadarInit, ToldOnce
  <1>5. ShownIsRight
    BY DEF RadarInit, ShownIsRight
  <1> QED
    BY <1>2, <1>3, <1>4, <1>5 DEF RadarInv

\* The inductive invariant holds throughout.
THEOREM RadarInvariant == RadarSpec => []RadarInv
  <1>1. ASSUME RadarInv, [RadarNext]_radarVars
        PROVE  RadarInv'
    <2>1. RadarTypeOK'
      BY <1>1, RowsStayTyped, ProcessesStayTyped, OthersStayTyped, RadarTypesPrimed
    <2> QED
      BY <1>1, <2>1, AnnouncesStayNew, ToldStaysOnce, CleanReadsStayTrue, PageStaysRight
      DEF RadarInv
  <1> QED
    BY <1>1, RadarStarts, PTL DEF RadarSpec

\* Every variable of the radar keeps its type, and a purged row leaves no
\* mark behind.
THEOREM RadarTypes == RadarSpec => []RadarTypeOK
  <1>1. RadarInv => RadarTypeOK
    BY DEF RadarInv
  <1> QED
    BY <1>1, RadarInvariant, PTL

\* With every judgement at rest and the last one undisturbed, the page shows
\* the offers that are worth a look and that no rule blocks, and no others.
THEOREM RadarShowsRight == RadarSpec => []ShownIsRight
  <1>1. RadarInv => ShownIsRight
    BY DEF RadarInv
  <1> QED
    BY <1>1, RadarInvariant, PTL

\* An offer is announced once, and once more at most for each fault.
THEOREM RadarTellsOnce == RadarSpec => []ToldOnceAndFaults
  <1>1. RadarInv => ToldOnceAndFaults
    <2> SUFFICES ASSUME RadarInv, NEW d \in Offers
                 PROVE  told[d] <= faults + (IF d \in alerted \/ at[Worker] = "marking"
                                            THEN 1 ELSE 0)
      BY DEF ToldOnceAndFaults
    <2>1. told[d] \in Nat /\ faults \in Nat
      BY RadarTypeParts, RadarAssumption DEF RadarInv
    <2> QED
      BY <2>1 DEF RadarInv, ToldOnce
  <1> QED
    BY <1>1, RadarInvariant, PTL
=============================================================================
