----------------------- MODULE ReceiptPipelineProofs -----------------------
(***************************************************************************)
(* Proofs about ReceiptPipeline, for every number of jobs, workers,        *)
(* receipts, open requests, crashes and bugs, every budget and every cost. *)
(***************************************************************************)
EXTENDS ReceiptPipeline, JobQueueProofs

USE PipelineAssumption

-----------------------------------------------------------------------------
(* The pipeline runs the queue: its theorems are the pipeline's. *)

\* What every action of the pipeline does to the rows of the job table is a
\* transaction of the queue, or nothing.
LEMMA StepOfQueue == [Next]_vars => [JobNext]_jobVars
  <1> SUFFICES ASSUME [Next]_vars
               PROVE  JobNext \/ UNCHANGED jobVars
    OBVIOUS
  <1>1. CASE WebNext
    <2>1. ASSUME NEW r \in Receipts, NewJob(r)
          PROVE  JobNext
      BY <2>1 DEF NewJob, JobNext
    <2> QED
      BY <1>1, <2>1 DEF WebNext, Upload, QuickAdd, DeleteReceipt, OpenRetry, SaveRetry,
                        OpenConfirm, SaveConfirm, DropForm, NewJob, JobNext
  <1>2. ASSUME NEW w \in Workers, WorkerNext(w)
        PROVE  JobNext \/ UNCHANGED jobVars
    <2>1. CASE StartJob(w) \/ Die(w) \/ Housekeep(w)
      BY <2>1 DEF StartJob, Die, Housekeep, JobNext, WorkerStep
    <2>2. CASE HandlerStep(w)
      BY <2>2 DEF HandlerStep, NoReader, Load, Refuse, Accept, Unreadable, Transient,
                  AfterTransient, RowGone, Bug, Finish, GiveUp, Close, JobNext, WorkerStep
    <2> QED
      BY <1>2, <2>1, <2>2 DEF WorkerNext
  <1>3. CASE ClockTick
    BY <1>3 DEF ClockTick, JobNext
  <1>4. CASE AtRest \/ UNCHANGED vars
    BY <1>4 DEF AtRest, vars
  <1> QED
    BY <1>1, <1>2, <1>3, <1>4 DEF Next

\* The pipeline, seen on the job table alone, is the queue.
THEOREM PipelineRunsQueue == Spec => JobSpec
  <1>1. Init => JobInit
    BY DEF Init
  <1> QED
    BY <1>1, StepOfQueue, PTL DEF Spec, JobSpec

\* So whatever was proved of the queue holds of the pipeline: no receipt is
\* read by two workers on behalf of one job.
THEOREM PipelineKeepsQueueInvariant == Spec => []QueueInv
  BY PipelineRunsQueue, QueueInvariant, PTL

-----------------------------------------------------------------------------
(* Types, and how a worker's step, lease and target fit together. *)

PayloadOK == \A j \in Jobs : status[j] # "absent" => payload[j] \in Receipts

\* A worker holds a row exactly while it is in the handler proper, and the
\* receipt it handles is the one the row names.
StepsAgree ==
    \A w \in Workers :
        /\ Busy(w) <=> step[w] \notin {"idle"} \union Afterwards
        /\ Busy(w) => target[w] = payload[lease[w].job]

PipeTypes == PipelineTypeOK /\ PayloadOK /\ StepsAgree

\* The first state has the right types.
LEMMA InitTypes == Init => PipeTypes
  <1>1. JobInit => JobTypeOK
    BY InitInv DEF QueueInv
  <1> QED
    BY <1>1 DEF Init, JobInit, PipeTypes, PipelineTypeOK, PayloadOK, StepsAgree, RStatuses,
         Steps, Afterwards, Batches, OpenForms, NoForm, NoLease, Busy

\* Inserting a job keeps the payloads, and what the workers hold, in order.
LEMMA NewJobTypes ==
    ASSUME QueueInv, PipeTypes, NEW r \in Receipts, NewJob(r)
    PROVE  /\ payload' \in [Jobs -> Receipts \union {NoReceipt}]
           /\ PayloadOK'
           /\ UNCHANGED lease
           /\ \A w \in Workers : Busy(w) => payload'[lease[w].job] = payload[lease[w].job]
  <1>1. PICK j \in Jobs : Enqueue(j) /\ payload' = [payload EXCEPT ![j] = r]
    BY DEF NewJob
  <1>2. \A w \in Workers : Busy(w) => lease[w].job # j
    BY <1>1, LeasedRow DEF Enqueue
  <1>3. payload' \in [Jobs -> Receipts \union {NoReceipt}] /\ payload'[j] = r
    BY <1>1 DEF PipeTypes, PipelineTypeOK
  <1>4. PayloadOK'
    BY <1>1, <1>3 DEF Enqueue, PipeTypes, PipelineTypeOK, JobTypeOK, PayloadOK
  <1> QED
    BY <1>1, <1>2, <1>3, <1>4 DEF Enqueue, PipeTypes, PipelineTypeOK

\* What an open form can be.
LEMMA FormShape ==
    ASSUME PipelineTypeOK, NEW f \in Forms, form[f].kind # "none"
    PROVE  form[f] \in OpenForms /\ form[f].receipt \in Receipts
  BY DEF PipelineTypeOK, NoForm, OpenForms

\* The web handlers keep the types.
LEMMA WebTypes ==
    ASSUME QueueInv, QueueInv', PipeTypes, WebNext
    PROVE  PipeTypes'
  <1> USE DEF PipeTypes, PipelineTypeOK
  <1>1. JobTypeOK'
    BY DEF QueueInv
  <1>2. ASSUME NEW r \in Receipts, Upload(r)
        PROVE  PipeTypes'
    BY <1>1, <1>2, NewJobTypes DEF Upload, StepsAgree, Busy, RStatuses
  <1>3. ASSUME NEW r \in Receipts, QuickAdd(r) \/ DeleteReceipt(r)
        PROVE  PipeTypes'
    BY <1>1, <1>3 DEF QuickAdd, DeleteReceipt, PayloadOK, StepsAgree, Busy, RStatuses,
                      Batches, jobVars
  <1>4. ASSUME NEW f \in Forms, NEW r \in Receipts, OpenRetry(f, r) \/ OpenConfirm(f, r)
        PROVE  PipeTypes'
    BY <1>1, <1>4 DEF OpenRetry, OpenConfirm, PayloadOK, StepsAgree, Busy, jobVars,
                      OpenForms, RStatuses
  <1>5. ASSUME NEW f \in Forms, SaveRetry(f)
        PROVE  PipeTypes'
    <2>1. form[f].receipt \in Receipts
      BY <1>5, FormShape DEF SaveRetry
    <2> QED
      BY <1>1, <1>5, <2>1, NewJobTypes DEF SaveRetry, StepsAgree, Busy, RStatuses
  <1>6. ASSUME NEW f \in Forms, SaveConfirm(f)
        PROVE  PipeTypes'
    <2>1. form[f].receipt \in Receipts
      BY <1>6, FormShape DEF SaveConfirm
    <2>2. form' \in [Forms -> OpenForms \union {NoForm}]
      BY <1>6 DEF SaveConfirm
    <2>3. rstatus' \in [Receipts -> RStatuses] /\ total' \in [Receipts -> Batches \union {NoBatch}]
      BY <1>6, <2>1 DEF SaveConfirm, RStatuses, Batches
    <2>4. lines' \in [Receipts -> SUBSET Batches] /\ observed' \in [Receipts -> SUBSET Batches]
      BY <1>6, <2>1 DEF SaveConfirm, Replaces, Recorded, Batches
    <2> QED
      BY <1>1, <1>6, <2>2, <2>3, <2>4 DEF SaveConfirm, PayloadOK, StepsAgree, Busy, jobVars
  <1>7. ASSUME NEW f \in Forms, DropForm(f)
        PROVE  PipeTypes'
    BY <1>1, <1>7 DEF DropForm, PayloadOK, StepsAgree, Busy, jobVars
  <1> QED
    BY <1>2, <1>3, <1>4, <1>5, <1>6, <1>7 DEF WebNext

\* The handler's steps keep the types.
LEMMA HandlerTypes ==
    ASSUME QueueInv, QueueInv', PipeTypes, NEW w \in Workers, HandlerStep(w)
    PROVE  PipeTypes'
  <1> USE DEF PipeTypes, PipelineTypeOK, GoTo, Steps
  <1>1. JobTypeOK /\ JobTypeOK'
    BY DEF QueueInv
  <1>2. step[w] # "idle" /\ target[w] \in Receipts
    BY DEF HandlerStep, NoReader, Load, Refuse, Accept, Unreadable, Transient,
           AfterTransient, RowGone, Bug, Finish, GiveUp, Close
  <1>3. CASE NoReader(w) \/ Load(w) \/ Refuse(w) \/ Transient(w) \/ GiveUp(w) \/ Close(w)
    <2>1. rstatus' \in [Receipts -> RStatuses]
      BY <1>2, <1>3 DEF NoReader, Load, Refuse, Transient, GiveUp, Close, FailReceipt,
                        RStatuses
    <2>2. StepsAgree'
      BY <1>3 DEF NoReader, Load, Refuse, Transient, GiveUp, Close, StepsAgree,
                        Afterwards, Busy, jobVars
    <2> QED
      BY <1>1, <1>2, <1>3, <2>1, <2>2 DEF NoReader, Load, Refuse, Transient, GiveUp, Close,
                        PayloadOK, jobVars
  <1>4. CASE Accept(w) \/ Unreadable(w)
    <2>1. spent' \in Nat /\ billed' \in Nat
      BY <1>4 DEF Accept, Unreadable, Costs, Charge, Log
    <2>2. StepsAgree'
      BY <1>4 DEF Accept, Unreadable, StepsAgree, Afterwards, Busy, jobVars
    <2> QED
      BY <1>1, <1>2, <1>4, <2>1, <2>2 DEF Accept, Unreadable, PayloadOK, jobVars,
                        RStatuses, Batches
  <1>5. CASE AfterTransient(w) \/ RowGone(w) \/ Bug(w) \/ Finish(w)
    <2>1. /\ Busy(w) /\ lease' = [lease EXCEPT ![w] = NoLease]
          /\ \E s \in Statuses \ {"absent"} : status' = [status EXCEPT ![lease[w].job] = s]
          /\ UNCHANGED <<payload, target>>
          /\ \E s \in {"idle"} \union Afterwards : step' = [step EXCEPT ![w] = s]
      BY <1>5 DEF AfterTransient, RowGone, Bug, Finish, Complete, FailRetry, FailFinal,
                  Statuses, Afterwards
    <2>2. billed' \in Nat /\ bugs' \in Nat
      BY <1>5 DEF AfterTransient, RowGone, Bug, Finish, ChargeIfReading, Charge, Costs
    <2>3. StepsAgree'
      BY <1>1, <2>1, Released DEF StepsAgree
    <2>4. PayloadOK'
      <3>1. lease[w].job \in Jobs /\ status[lease[w].job] # "absent"
        BY <2>1, LeasedRow
      <3> QED
        BY <1>1, <2>1, <3>1 DEF PayloadOK, JobTypeOK
    <2> QED
      BY <1>1, <1>2, <1>5, <2>1, <2>2, <2>3, <2>4
         DEF AfterTransient, RowGone, Bug, Finish, Afterwards
  <1> QED
    BY <1>3, <1>4, <1>5 DEF HandlerStep

\* A claim makes its worker busy with the receipt the row names.
LEMMA StartJobTypes ==
    ASSUME QueueInv, QueueInv', PipeTypes, NEW w \in Workers, StartJob(w)
    PROVE  PipeTypes'
  <1> USE DEF PipeTypes, PipelineTypeOK
  <1>1. PICK j \in Jobs :
            /\ status[j] = "queued"
            /\ status' = [status EXCEPT ![j] = "running"]
            /\ lease' = [lease EXCEPT ![w] =
                            [job |-> j, attempt |-> attempts[j] + 1, at |-> now]]
    BY DEF StartJob, Claim, Due
  <1>2. /\ JobTypeOK /\ JobTypeOK'
        /\ lease'[w].job = j /\ j # NoJob
        /\ \A v \in Workers : v # w => lease'[v] = lease[v]
    BY <1>1, QueueAssumption DEF QueueInv, JobTypeOK
  <1>3. /\ step' = [step EXCEPT ![w] = "claimed"]
        /\ target' = [target EXCEPT ![w] = payload[j]]
        /\ UNCHANGED <<payload, rstatus, lines, total, observed, form, spent, billed, bugs,
                       abandoned>>
    BY <1>2 DEF StartJob, GoTo
  <1>4. payload[j] \in Receipts
    BY <1>1 DEF PayloadOK
  <1>5. PayloadOK'
    BY <1>1, <1>2, <1>3, <1>4 DEF PayloadOK, JobTypeOK
  <1>6. StepsAgree'
    BY <1>2, <1>3 DEF StepsAgree, Afterwards, Busy
  <1> QED
    BY <1>2, <1>3, <1>4, <1>5, <1>6 DEF Steps

\* A crash leaves the row and the receipt as they are.
LEMMA DieTypes ==
    ASSUME QueueInv, QueueInv', PipeTypes, NEW w \in Workers, Die(w)
    PROVE  PipeTypes'
  <1> USE DEF PipeTypes, PipelineTypeOK
  <1>1. JobTypeOK /\ JobTypeOK' /\ lease' = [lease EXCEPT ![w] = NoLease]
    BY DEF QueueInv, Die, Crash
  <1>2. billed' \in Nat /\ abandoned' \in SUBSET Receipts
    BY DEF Die, ChargeIfReading, Charge, Costs, Afterwards
  <1>3. StepsAgree'
    BY <1>1, Released DEF StepsAgree, Die, GoTo
  <1>4. PayloadOK'
    BY DEF PayloadOK, Die, Crash
  <1> QED
    BY <1>1, <1>2, <1>3, <1>4 DEF Die, GoTo, Steps

\* Every step keeps the types.
LEMMA NextTypes ==
    ASSUME QueueInv, QueueInv', PipeTypes, [Next]_vars
    PROVE  PipeTypes'
  <1>1. CASE WebNext
    BY <1>1, WebTypes
  <1>2. ASSUME NEW w \in Workers, WorkerNext(w)
        PROVE  PipeTypes'
    <2>1. CASE Housekeep(w)
      <3>1. /\ UNCHANGED <<lease, receiptVars>>
            /\ \A j \in Jobs : status'[j] # "absent" => status[j] # "absent"
        BY <2>1, Recovers DEF Housekeep
      <3> QED
        BY <3>1 DEF receiptVars, PipeTypes, PipelineTypeOK, QueueInv, PayloadOK, StepsAgree,
                    Busy
    <2> QED
      BY <1>2, <2>1, StartJobTypes, HandlerTypes, DieTypes DEF WorkerNext
  <1>3. CASE ClockTick \/ AtRest \/ UNCHANGED vars
    BY <1>3 DEF ClockTick, Tick, AtRest, vars, receiptVars, jobVars, PipeTypes,
                PipelineTypeOK, QueueInv, PayloadOK, StepsAgree, Busy
  <1> QED
    BY <1>1, <1>2, <1>3 DEF Next

\* Types, payloads and the workers' bookkeeping agree in every reachable state.
THEOREM PipeTypesHold == Spec => []PipeTypes
  BY InitTypes, NextTypes, PipelineKeepsQueueInvariant, PTL DEF Spec

\* Every variable of the pipeline keeps its type.
THEOREM PipelineTypes == Spec => []PipelineTypeOK
  <1>1. PipeTypes => PipelineTypeOK
    BY DEF PipeTypes
  <1> QED
    BY <1>1, PipeTypesHold, PTL

-----------------------------------------------------------------------------
(* A receipt that is being read is attended to. *)

\* The job is, or will be, on its way to a reading: it is not the row of a
\* worker that has its answer and is about to mark the job done.
WillBeRead(j) ==
    /\ status[j] \in {"queued", "running"}
    /\ \A w \in Workers : lease[w].job = j => step[w] # "settle"

Attended(r) ==
    \/ \E j \in Jobs : payload[j] = r /\ WillBeRead(j)
    \/ \E w \in Workers : step[w] \in Afterwards /\ target[w] = r
    \/ r \in abandoned

\* ReadingHasWork, strengthened to an inductive invariant.
ReadingIsAttended == \A r \in Receipts : rstatus[r] = "extracting" => Attended(r)

\* The first state reads nothing.
LEMMA InitAttended == Init => ReadingIsAttended
  BY DEF Init, ReadingIsAttended

\* A new job is queued for its receipt, and every other receipt keeps the
\* job it had.
LEMMA NewJobAttends ==
    ASSUME QueueInv, PipeTypes, NEW r \in Receipts, NewJob(r),
           UNCHANGED <<step, target, abandoned>>
    PROVE  /\ Attended(r)'
           /\ \A q \in Receipts : Attended(q) => Attended(q)'
  <1>1. PICK j \in Jobs : Enqueue(j) /\ payload' = [payload EXCEPT ![j] = r]
    BY DEF NewJob
  <1>2. /\ status[j] = "absent"
        /\ payload'[j] = r /\ status'[j] = "queued"
        /\ \A k \in Jobs : k # j => payload'[k] = payload[k] /\ status'[k] = status[k]
        /\ UNCHANGED lease
    BY <1>1 DEF Enqueue, PipeTypes, PipelineTypeOK, JobTypeOK
  <1>3. \A w \in Workers : lease[w].job # j
    BY <1>2, LeasedRow, QueueAssumption DEF Busy
  <1> QED
    BY <1>2, <1>3 DEF Attended, WillBeRead

\* The web handlers keep every receipt in reading attended to.
LEMMA WebAttended ==
    ASSUME QueueInv, PipeTypes, ReadingIsAttended, WebNext
    PROVE  ReadingIsAttended'
  <1>1. ASSUME NEW r \in Receipts, Upload(r)
        PROVE  ReadingIsAttended'
    BY <1>1, NewJobAttends DEF Upload, ReadingIsAttended, PipeTypes, PipelineTypeOK
  <1>2. ASSUME NEW f \in Forms, SaveRetry(f)
        PROVE  ReadingIsAttended'
    <2>1. form[f].receipt \in Receipts
      BY <1>2, FormShape DEF SaveRetry, PipeTypes
    <2> QED
      BY <1>2, <2>1, NewJobAttends DEF SaveRetry, ReadingIsAttended, PipeTypes,
                                       PipelineTypeOK
  <1>3. CASE /\ UNCHANGED <<jobVars, payload, step, target, abandoned>>
             /\ \A r \in Receipts : rstatus'[r] = "extracting" => rstatus[r] = "extracting"
    BY <1>3 DEF ReadingIsAttended, Attended, WillBeRead, jobVars
  <1>4. ASSUME NEW f \in Forms, SaveConfirm(f)
        PROVE  \A r \in Receipts : rstatus'[r] = "extracting" => rstatus[r] = "extracting"
    BY <1>4, FormShape DEF SaveConfirm, PipeTypes, PipelineTypeOK
  <1>5. ASSUME NEW r \in Receipts, QuickAdd(r) \/ DeleteReceipt(r)
        PROVE  \A q \in Receipts : rstatus'[q] = "extracting" => rstatus[q] = "extracting"
    BY <1>5 DEF QuickAdd, DeleteReceipt, PipeTypes, PipelineTypeOK
  <1> QED
    BY <1>1, <1>2, <1>3, <1>4, <1>5 DEF WebNext, QuickAdd, DeleteReceipt, OpenRetry,
       OpenConfirm, SaveConfirm, DropForm

\* The handler writes only the receipt it handles, and leaves it on
\* "extracting" only while its row is still on the way to a reading.
LEMMA HandlerAttended ==
    ASSUME QueueInv, PipeTypes, ReadingIsAttended, NEW w \in Workers, HandlerStep(w)
    PROVE  ReadingIsAttended'
  <1> DEFINE j == lease[w].job
             t == target[w]
  <1> USE DEF GoTo
  <1>0. /\ t \in Receipts
        /\ rstatus \in [Receipts -> RStatuses] /\ step \in [Workers -> Steps]
        /\ JobTypeOK
    BY DEF PipeTypes, PipelineTypeOK, HandlerStep, NoReader, Load, Refuse, Accept,
           Unreadable, Transient, AfterTransient, RowGone, Bug, Finish, GiveUp, Close
  <1>1. CASE \/ Load(w) /\ step'[w] # "settle"
             \/ Transient(w)
    BY <1>0, <1>1 DEF Load, Transient, ReadingIsAttended, Attended, WillBeRead, Afterwards,
                      jobVars
  <1>2. CASE \/ NoReader(w)
             \/ Load(w) /\ step'[w] = "settle"
             \/ Refuse(w)
             \/ Accept(w)
             \/ Unreadable(w)
    <2>1. /\ rstatus'[t] # "extracting"
          /\ \A r \in Receipts : r # t => rstatus'[r] = rstatus[r]
      BY <1>0, <1>2 DEF NoReader, Load, Refuse, Accept, Unreadable, FailReceipt,
                        WantsReading
    <2>2. /\ step' = [step EXCEPT ![w] = "settle"] /\ step[w] \notin Afterwards
          /\ UNCHANGED <<jobVars, payload, target, abandoned>>
      BY <1>0, <1>2 DEF NoReader, Load, Refuse, Accept, Unreadable, Afterwards
    <2>3. Busy(w) /\ payload[j] = t
      BY <1>2 DEF PipeTypes, StepsAgree, NoReader, Load, Refuse, Accept, Unreadable,
                  Afterwards
    <2>4. ASSUME NEW r \in Receipts, r # t, Attended(r)
          PROVE  Attended(r)'
      BY <1>0, <2>2, <2>3, <2>4 DEF Attended, WillBeRead, jobVars
    <2> QED
      BY <2>1, <2>4 DEF ReadingIsAttended
  <1>3. CASE GiveUp(w) \/ Close(w)
    <2>1. /\ rstatus'[t] # "extracting"
          /\ \A r \in Receipts : r # t => rstatus'[r] = rstatus[r]
      BY <1>0, <1>3 DEF GiveUp, Close, FailReceipt, Present
    <2>2. /\ step' = [step EXCEPT ![w] = "idle"]
          /\ UNCHANGED <<jobVars, payload, target, abandoned>>
      BY <1>3 DEF GiveUp, Close
    <2>3. ASSUME NEW r \in Receipts, r # t, Attended(r)
          PROVE  Attended(r)'
      BY <1>0, <2>2, <2>3 DEF Attended, WillBeRead, jobVars
    <2> QED
      BY <2>1, <2>3 DEF ReadingIsAttended
  <1>4. CASE AfterTransient(w) \/ RowGone(w) \/ Bug(w) \/ Finish(w)
    <2>1. /\ Busy(w) /\ payload[j] = t /\ j \in Jobs
          /\ step[w] \notin {"idle"} \union Afterwards
      <3>1. Busy(w)
        BY <1>4 DEF AfterTransient, RowGone, Bug, Finish, Complete, FailRetry, FailFinal
      <3> QED
        BY <1>0, <3>1, LeaseShape DEF PipeTypes, StepsAgree
    <2>2. lease'[w].job # j /\ \A v \in Workers : v # w => lease'[v] = lease[v]
      BY <1>0, <1>4, <2>1, Released, QueueAssumption DEF AfterTransient, RowGone, Bug, Finish,
         Complete, FailRetry, FailFinal
    <2>3. UNCHANGED <<payload, rstatus, target, abandoned>>
      BY <1>4 DEF AfterTransient, RowGone, Bug, Finish
    <2>4. \A k \in Jobs : k # j => status'[k] = status[k]
      BY <1>0, <1>4 DEF AfterTransient, RowGone, Bug, Finish, Complete, FailRetry,
                        FailFinal, JobTypeOK
    <2>5. \A v \in Workers : v # w => step'[v] = step[v]
      BY <1>0, <1>4 DEF AfterTransient, RowGone, Bug, Finish
    <2>6. \A k \in Jobs : WillBeRead(k) =>
                            \A v \in Workers : lease'[v].job = k => step'[v] # "settle"
      <3> SUFFICES ASSUME NEW k \in Jobs, WillBeRead(k),
                          NEW v \in Workers, lease'[v].job = k
                   PROVE  step'[v] # "settle"
        OBVIOUS
      <3>1. v # w
        <4>1. lease'[w].job = NoJob
          BY <1>0, <1>4, Released DEF AfterTransient, RowGone, Bug, Finish, Complete, FailRetry,
                                      FailFinal
        <4> QED
          BY <4>1, QueueAssumption
      <3> QED
        BY <2>2, <2>5, <3>1 DEF WillBeRead
    <2>7. \/ status'[j] = "queued"
          \/ step'[w] \in Afterwards
          \/ step[w] = "settle"
      BY <1>0, <1>4, <2>1 DEF AfterTransient, RowGone, Bug, Finish, FailRetry, JobTypeOK,
                              Afterwards
    <2>8. WillBeRead(j) => status'[j] = "queued" \/ step'[w] \in Afterwards
      BY <2>1, <2>7 DEF WillBeRead
    <2>9. ASSUME NEW r \in Receipts, Attended(r)
          PROVE  Attended(r)'
      <3>1. CASE \E k \in Jobs : payload[k] = r /\ WillBeRead(k)
        <4>1. PICK k \in Jobs : payload[k] = r /\ WillBeRead(k)
          BY <3>1
        <4>2. CASE k = j
          BY <2>1, <2>3, <2>6, <2>8, <4>1, <4>2 DEF Attended, WillBeRead
        <4>3. CASE k # j
          BY <2>3, <2>4, <2>6, <4>1, <4>3 DEF Attended, WillBeRead
        <4> QED
          BY <4>2, <4>3
      <3>2. CASE \E v \in Workers : step[v] \in Afterwards /\ target[v] = r
        BY <2>1, <2>3, <2>5, <3>2 DEF Attended
      <3>3. CASE r \in abandoned
        BY <2>3, <3>3 DEF Attended
      <3> QED
        BY <2>9, <3>1, <3>2, <3>3 DEF Attended
    <2> QED
      BY <2>3, <2>9 DEF ReadingIsAttended
  <1> QED
    BY <1>1, <1>2, <1>3, <1>4 DEF HandlerStep

\* A claimed row is on its way to a reading: its new worker is at the start.
LEMMA StartJobAttended ==
    ASSUME QueueInv, PipeTypes, ReadingIsAttended, NEW w \in Workers, StartJob(w)
    PROVE  ReadingIsAttended'
  <1>1. PICK j \in Jobs :
            /\ status[j] = "queued"
            /\ status' = [status EXCEPT ![j] = "running"]
            /\ lease' = [lease EXCEPT ![w] =
                            [job |-> j, attempt |-> attempts[j] + 1, at |-> now]]
    BY DEF StartJob, Claim, Due
  <1>2. /\ JobTypeOK /\ step \in [Workers -> Steps] /\ step[w] = "idle"
        /\ step' = [step EXCEPT ![w] = "claimed"]
        /\ UNCHANGED <<payload, rstatus, abandoned>>
        /\ \A v \in Workers : v # w => target'[v] = target[v]
    BY DEF StartJob, GoTo, PipeTypes, PipelineTypeOK
  <1>3. /\ lease'[w].job = j
        /\ \A v \in Workers : v # w => lease'[v] = lease[v]
    BY <1>1, <1>2 DEF JobTypeOK
  <1>4. \A k \in Jobs : status[k] \in {"queued", "running"} => status'[k] \in {"queued", "running"}
    BY <1>1, <1>2 DEF JobTypeOK
  <1>5. \A k \in Jobs : WillBeRead(k) => WillBeRead(k)'
    BY <1>2, <1>3, <1>4 DEF WillBeRead
  <1> QED
    BY <1>2, <1>5 DEF ReadingIsAttended, Attended, Afterwards

\* A crash leaves the row running and unheld; in the gap between the job and
\* the receipt it leaves the receipt abandoned.
LEMMA DieAttended ==
    ASSUME QueueInv, PipeTypes, ReadingIsAttended, NEW w \in Workers, Die(w)
    PROVE  ReadingIsAttended'
  <1>1. /\ JobTypeOK /\ step \in [Workers -> Steps]
        /\ lease' = [lease EXCEPT ![w] = NoLease]
        /\ step' = [step EXCEPT ![w] = "idle"]
        /\ UNCHANGED <<status, payload, rstatus, target>>
        /\ abandoned \subseteq abandoned'
    BY DEF Die, Crash, GoTo, PipeTypes, PipelineTypeOK
  <1>2. step[w] \in Afterwards /\ rstatus[target[w]] = "extracting" => target[w] \in abandoned'
    BY DEF Die
  <1>3. lease'[w].job = NoJob /\ \A v \in Workers : v # w => lease'[v] = lease[v]
    BY <1>1 DEF JobTypeOK, NoLease
  <1>4. \A k \in Jobs : WillBeRead(k) => WillBeRead(k)'
    BY <1>1, <1>3, QueueAssumption DEF WillBeRead
  <1> QED
    BY <1>1, <1>2, <1>4 DEF ReadingIsAttended, Attended

\* recover_stuck() only ever puts rows in the queue.
LEMMA HousekeepAttended ==
    ASSUME QueueInv, ReadingIsAttended, NEW w \in Workers, Housekeep(w)
    PROVE  ReadingIsAttended'
  BY Recovers DEF Housekeep, receiptVars, ReadingIsAttended, Attended, WillBeRead

\* Every step keeps every receipt in reading attended to.
LEMMA NextAttended ==
    ASSUME QueueInv, PipeTypes, ReadingIsAttended, [Next]_vars
    PROVE  ReadingIsAttended'
  <1>1. CASE WebNext
    BY <1>1, WebAttended
  <1>2. ASSUME NEW w \in Workers, WorkerNext(w)
        PROVE  ReadingIsAttended'
    BY <1>2, StartJobAttended, HandlerAttended, DieAttended, HousekeepAttended
       DEF WorkerNext
  <1>3. CASE ClockTick \/ AtRest \/ UNCHANGED vars
    BY <1>3 DEF ClockTick, Tick, AtRest, vars, receiptVars, jobVars, ReadingIsAttended,
                Attended, WillBeRead
  <1> QED
    BY <1>1, <1>2, <1>3 DEF Next

\* A receipt shown as "Reading..." has a job waiting or running for it, or a
\* worker about to fail it, unless a worker died between queue.fail() and
\* _fail_receipt(): whatever is retried, deleted, confirmed from a stale page
\* or recovered, and however many workers and tabs there are.
THEOREM ReadingKeepsWork == Spec => []ReadingHasWork
  <1>1. ReadingIsAttended => ReadingHasWork
    BY DEF ReadingIsAttended, Attended, WillBeRead, ReadingHasWork, HasWork
  <1>2. Spec => []ReadingIsAttended
    BY InitAttended, NextAttended, PipeTypesHold, PipelineKeepsQueueInvariant, PTL DEF Spec
  <1> QED
    BY <1>1, <1>2, PTL

-----------------------------------------------------------------------------
(* The budget, with the one worker docker-compose.yml runs. *)

\* The check of run_extraction() still holds when the reader answers: nothing
\* else adds to the month's spend meanwhile.
CheckedFirst == \A w \in Workers : step[w] = "reading" => spent < Budget

BudgetInv == BudgetHolds /\ CheckedFirst

\* Only the worker's reading adds to the spend, and it ends that reading.
LEMMA NextBudget ==
    ASSUME OneWorker, PipeTypes, BudgetInv, [Next]_vars
    PROVE  BudgetInv'
  <1> USE DEF BudgetInv, BudgetHolds, CheckedFirst
  <1>0. spent \in Nat /\ step \in [Workers -> Steps]
    BY DEF PipeTypes, PipelineTypeOK
  <1>1. CASE UNCHANGED <<spent, step>>
    BY <1>1
  <1>2. ASSUME NEW w \in Workers, Accept(w) \/ Unreadable(w)
        PROVE  BudgetInv'
    <2>1. PICK c \in {0} \union Costs : spent' = spent + c
      BY <1>2 DEF Accept, Unreadable, Log
    <2>2. c \in Nat /\ c <= MaxCost
      BY PipelineAssumption DEF Costs
    <2>3. spent < Budget /\ Budget \in Nat
      BY <1>2, PipelineAssumption DEF Accept, Unreadable
    <2>4. spent' < Budget + MaxCost
      BY <1>0, <2>1, <2>2, <2>3, PipelineAssumption
    <2>5. \A v \in Workers : step'[v] = "settle"
      BY <1>0, <1>2, OneWorker DEF OneWorker, Accept, Unreadable, GoTo
    <2> QED
      BY <2>4, <2>5
  <1>3. ASSUME NEW w \in Workers, WorkerNext(w), ~Accept(w), ~Unreadable(w)
        PROVE  BudgetInv'
    <2>1. /\ spent' = spent
          /\ \A v \in Workers : step'[v] = "reading" => step[v] = "reading" \/ BudgetLeft
      BY <1>0, <1>3 DEF WorkerNext, HandlerStep, StartJob, NoReader, Load, Refuse,
         Transient, AfterTransient, RowGone, Bug, Finish, GiveUp, Close, Die, Housekeep,
         GoTo, receiptVars
    <2> QED
      BY <2>1 DEF BudgetLeft
  <1>4. CASE WebNext
    BY <1>1, <1>4 DEF WebNext, Upload, QuickAdd, OpenRetry, SaveRetry, OpenConfirm,
       SaveConfirm, DropForm, DeleteReceipt
  <1> QED
    BY <1>1, <1>2, <1>3, <1>4 DEF Next, ClockTick, AtRest, vars, receiptVars

\* With one worker the month's spend passes the cap by less than one reading,
\* whatever is retried, crashes, is deleted or is queued twice.
THEOREM BudgetCap ==
    ASSUME OneWorker
    PROVE  Spec => []BudgetHolds
  <1>1. Init => BudgetInv
    BY PipelineAssumption DEF Init, BudgetInv, BudgetHolds, CheckedFirst
  <1>2. BudgetInv => BudgetHolds
    BY DEF BudgetInv
  <1>3. PipeTypes /\ BudgetInv /\ [Next]_vars => BudgetInv'
    BY NextBudget
  <1> QED
    BY <1>1, <1>2, <1>3, PipeTypesHold, PTL DEF Spec

-----------------------------------------------------------------------------
(* One worker, and one browser request at a time. *)

OneTab == \A f, g \in Forms : f = g

\* What an open request has loaded is still what the tables hold, or the
\* receipt is gone.
FormAgrees ==
    \A f \in Forms :
        LET r == form[f].receipt IN
        /\ form[f].kind = "retry" => rstatus[r] \in {"failed", "deleted"}
        /\ form[f].kind = "confirm" =>
            \/ rstatus[r] = "deleted"
            \/ /\ rstatus[r] = form[f].was
               /\ form[f].was \in {"needs_review", "confirmed"}
               /\ form[f].seen = lines[r]

\* A handler that has found its receipt in reading is still right about it.
HandlerAgrees ==
    \A w \in Workers :
        step[w] \in {"refusing", "reading", "retry", "givingup"} =>
            rstatus[target[w]] \in {"extracting", "deleted"}

AloneInv ==
    FormAgrees /\ HandlerAgrees /\ TotalMatchesLines /\ ObservationsMatchLines

\* Nothing is open, handled, saved or observed at first.
LEMMA InitAlone == Init => AloneInv
  BY DEF Init, AloneInv, FormAgrees, HandlerAgrees, TotalMatchesLines,
         ObservationsMatchLines, NoForm

\* The requests that create or delete a receipt touch no other one.
LEMMA RowAlone ==
    ASSUME PipeTypes, AloneInv, NEW r \in Receipts,
           Upload(r) \/ QuickAdd(r) \/ DeleteReceipt(r)
    PROVE  AloneInv'
  <1> USE DEF PipeTypes, PipelineTypeOK, AloneInv, Upload, QuickAdd, DeleteReceipt, Present
  <1>1. FormAgrees'
    BY FormShape DEF FormAgrees
  <1>2. HandlerAgrees'
    BY DEF HandlerAgrees
  <1>3. TotalMatchesLines'
    BY DEF TotalMatchesLines
  <1>4. ObservationsMatchLines'
    <2> SUFFICES ASSUME NEW q \in Receipts
                 PROVE  observed'[q] = IF rstatus'[q] = "confirmed" THEN lines'[q] ELSE {}
      BY DEF ObservationsMatchLines
    <2>1. observed[q] = IF rstatus[q] = "confirmed" THEN lines[q] ELSE {}
      BY DEF ObservationsMatchLines
    <2>2. CASE q = r
      BY <2>1, <2>2
    <2>3. CASE q # r
      BY <2>1, <2>3
    <2> QED
      BY <2>2, <2>3
  <1> QED
    BY <1>1, <1>2, <1>3, <1>4

\* The requests that load a receipt and later write it: what they loaded is
\* still true when they write.
LEMMA FormAlone ==
    ASSUME OneTab, PipeTypes, AloneInv, NEW f \in Forms,
           \/ \E r \in Receipts : OpenRetry(f, r) \/ OpenConfirm(f, r)
           \/ SaveRetry(f)
           \/ SaveConfirm(f)
           \/ DropForm(f)
    PROVE  AloneInv'
  <1> USE DEF PipeTypes, PipelineTypeOK, AloneInv
  <1> DEFINE q == form[f].receipt
  <1>1. CASE (\E r \in Receipts : OpenRetry(f, r) \/ OpenConfirm(f, r)) \/ DropForm(f)
    <2>1. UNCHANGED <<rstatus, lines, total, observed, step, target>>
      BY <1>1 DEF OpenRetry, OpenConfirm, DropForm
    <2>2. FormAgrees'
      BY <1>1, <2>1 DEF OpenRetry, OpenConfirm, DropForm, FormAgrees, NoForm
    <2> QED
      BY <2>1, <2>2 DEF HandlerAgrees, TotalMatchesLines, ObservationsMatchLines
  <1>2. CASE SaveRetry(f)
    <2>1. q \in Receipts /\ rstatus[q] = "failed"
      BY <1>2, FormShape DEF SaveRetry, FormAgrees, Present
    <2>2. FormAgrees'
      BY <1>2, OneTab DEF OneTab, SaveRetry, FormAgrees, NoForm
    <2> QED
      BY <1>2, <2>1, <2>2 DEF SaveRetry, HandlerAgrees, TotalMatchesLines,
                              ObservationsMatchLines
  <1>3. CASE SaveConfirm(f)
    <2>1. /\ q \in Receipts /\ rstatus[q] \in {"needs_review", "confirmed"}
          /\ rstatus[q] = form[f].was /\ form[f].seen = lines[q]
      BY <1>3, FormShape DEF SaveConfirm, FormAgrees, Present
    <2>2. FormAgrees'
      BY <1>3, OneTab DEF OneTab, SaveConfirm, FormAgrees, NoForm
    <2>3. /\ rstatus' = [rstatus EXCEPT ![q] = "confirmed"]
          /\ lines' = [lines EXCEPT ![q] = {f}]
          /\ total' = [total EXCEPT ![q] = f]
          /\ observed' = [observed EXCEPT ![q] = {f}]
      BY <1>3, <2>1 DEF SaveConfirm, Replaces, Recorded
    <2>4. HandlerAgrees'
      BY <1>3, <2>1, <2>3 DEF SaveConfirm, HandlerAgrees
    <2> QED
      BY <2>2, <2>3, <2>4 DEF TotalMatchesLines, ObservationsMatchLines
  <1> QED
    BY <1>1, <1>2, <1>3

\* The worker writes only a receipt in reading, and no request has one open.
LEMMA WorkerAlone ==
    ASSUME OneWorker, PipeTypes, AloneInv, NEW w \in Workers, WorkerNext(w)
    PROVE  AloneInv'
  <1> USE DEF PipeTypes, PipelineTypeOK, AloneInv, GoTo
  <1> DEFINE t == target[w]
  <1>1. CASE StartJob(w) \/ Load(w) \/ Transient(w) \/ AfterTransient(w) \/ RowGone(w)
             \/ Bug(w) \/ Finish(w) \/ Die(w) \/ Housekeep(w)
    <2>1. UNCHANGED <<rstatus, lines, total, observed, form>>
      BY <1>1 DEF StartJob, Load, Transient, AfterTransient, RowGone, Bug, Finish, Die,
                  Housekeep, receiptVars
    <2>2. HandlerAgrees'
      BY <1>1, <2>1, OneWorker DEF OneWorker, StartJob, Load, Transient, AfterTransient,
         RowGone, Bug, Finish, Die, Housekeep, receiptVars, HandlerAgrees, WantsReading
    <2> QED
      BY <2>1, <2>2 DEF FormAgrees, TotalMatchesLines, ObservationsMatchLines
  <1>2. CASE NoReader(w) \/ Refuse(w) \/ Unreadable(w) \/ GiveUp(w) \/ Close(w)
    <2>1. /\ t \in Receipts
          /\ \/ rstatus' = rstatus
             \/ rstatus[t] = "extracting" /\ rstatus' = [rstatus EXCEPT ![t] = "failed"]
      BY <1>2 DEF NoReader, Refuse, Unreadable, GiveUp, Close, FailReceipt, HandlerAgrees,
                  Present
    <2>2. UNCHANGED <<lines, total, observed, form, target>>
      BY <1>2 DEF NoReader, Refuse, Unreadable, GiveUp, Close
    <2>3. HandlerAgrees'
      BY <1>2, OneWorker DEF OneWorker, NoReader, Refuse, Unreadable, GiveUp, Close,
         HandlerAgrees
    <2>4. FormAgrees'
      BY <2>1, <2>2, FormShape DEF FormAgrees
    <2>5. TotalMatchesLines'
      BY <2>1, <2>2 DEF TotalMatchesLines
    <2>6. ObservationsMatchLines'
      BY <2>1, <2>2 DEF ObservationsMatchLines
    <2> QED
      BY <2>3, <2>4, <2>5, <2>6
  <1>3. CASE Accept(w)
    <2>1. t \in Receipts /\ rstatus[t] = "extracting"
      BY <1>3 DEF Accept, HandlerAgrees, Present
    <2>2. HandlerAgrees'
      BY <1>3, OneWorker DEF OneWorker, Accept, HandlerAgrees
    <2>3. FormAgrees'
      BY <1>3, <2>1, FormShape DEF Accept, FormAgrees
    <2> QED
      BY <1>3, <2>1, <2>2, <2>3 DEF Accept, TotalMatchesLines, ObservationsMatchLines
  <1> QED
    BY <1>1, <1>2, <1>3 DEF WorkerNext, HandlerStep

\* Every step keeps requests, handlers, lines, totals and observations in
\* agreement.
LEMMA NextAlone ==
    ASSUME OneWorker, OneTab, PipeTypes, AloneInv, [Next]_vars
    PROVE  AloneInv'
  <1>1. CASE WebNext
    BY <1>1, RowAlone, FormAlone DEF WebNext
  <1>2. CASE \E w \in Workers : WorkerNext(w)
    BY <1>2, WorkerAlone
  <1>3. CASE ClockTick \/ AtRest \/ UNCHANGED vars
    BY <1>3 DEF ClockTick, AtRest, vars, receiptVars, AloneInv, FormAgrees, HandlerAgrees,
                TotalMatchesLines, ObservationsMatchLines
  <1> QED
    BY <1>1, <1>2, <1>3 DEF Next

\* With one worker and one request at a time, AloneInv always holds.
THEOREM AloneHolds ==
    ASSUME OneWorker, OneTab
    PROVE  Spec => []AloneInv
  <1>1. PipeTypes /\ AloneInv /\ [Next]_vars => AloneInv'
    BY NextAlone
  <1> QED
    BY <1>1, InitAlone, PipeTypesHold, PTL DEF Spec

\* With one request at a time a saved receipt holds the lines and the total of
\* one submission, whatever the worker does.
THEOREM SavedReceiptsAreWhole ==
    ASSUME OneWorker, OneTab
    PROVE  Spec => []TotalMatchesLines
  <1>1. AloneInv => TotalMatchesLines
    BY DEF AloneInv
  <1> QED
    BY <1>1, AloneHolds, PTL

\* And its price observations are made from these lines.
THEOREM SavedPricesAreTheirs ==
    ASSUME OneWorker, OneTab
    PROVE  Spec => []ObservationsMatchLines
  <1>1. AloneInv => ObservationsMatchLines
    BY DEF AloneInv
  <1> QED
    BY <1>1, AloneHolds, PTL

\* What the user confirmed is not undone by a job that runs late or twice.
LEMMA StepKeepsConfirmed ==
    ASSUME PipeTypes, AloneInv, [Next]_vars, NEW r \in Receipts, rstatus[r] = "confirmed"
    PROVE  rstatus'[r] \in {"confirmed", "deleted"}
  <1> USE DEF PipeTypes, PipelineTypeOK, AloneInv
  <1>1. CASE WebNext
    <2>1. ASSUME NEW f \in Forms, SaveRetry(f) \/ SaveConfirm(f)
          PROVE  rstatus'[r] \in {"confirmed", "deleted"}
      BY <2>1, FormShape DEF SaveRetry, SaveConfirm, FormAgrees, Present
    <2> QED
      BY <1>1, <2>1 DEF WebNext, Upload, QuickAdd, DeleteReceipt, OpenRetry, OpenConfirm,
                        DropForm
  <1>2. ASSUME NEW w \in Workers, WorkerNext(w)
        PROVE  rstatus'[r] = "confirmed"
    BY <1>2 DEF WorkerNext, HandlerStep, StartJob, NoReader, Load, Refuse, Accept,
       Unreadable, Transient, AfterTransient, RowGone, Bug, Finish, GiveUp, Close, Die,
       Housekeep, receiptVars, FailReceipt, HandlerAgrees, Present
  <1>3. CASE ClockTick \/ AtRest \/ UNCHANGED vars
    BY <1>3 DEF ClockTick, AtRest, vars, receiptVars
  <1> QED
    BY <1>1, <1>2, <1>3 DEF Next

\* A confirmed receipt stays confirmed until it is deleted.
THEOREM ConfirmationIsFinal ==
    ASSUME OneWorker, OneTab
    PROVE  Spec => ConfirmedStays
  <1>1. PipeTypes /\ AloneInv /\ [Next]_vars =>
            [\A r \in Receipts :
                rstatus[r] = "confirmed" => rstatus'[r] \in {"confirmed", "deleted"}]_vars
    BY StepKeepsConfirmed
  <1> QED
    BY <1>1, AloneHolds, PipeTypesHold, PTL DEF Spec, ConfirmedStays

\* The API is only paid while the receipt waits for its answer, or after it
\* was deleted under the reader.
THEOREM NoReadingForNothing ==
    ASSUME OneWorker, OneTab
    PROVE  Spec => PaidOnlyWhenNeeded
  <1>1. PipeTypes /\ AloneInv /\ [Next]_vars =>
            [billed' > billed =>
                \E w \in Workers :
                    step[w] = "reading"
                        /\ rstatus[target[w]] \in {"extracting", "deleted"}]_vars
    <2> SUFFICES ASSUME PipeTypes, AloneInv, Next, billed' > billed
                 PROVE  \E w \in Workers : step[w] = "reading"
                            /\ rstatus[target[w]] \in {"extracting", "deleted"}
      OBVIOUS
    <2>1. billed \in Nat
      BY DEF PipeTypes, PipelineTypeOK
    <2>2. billed' # billed
      BY <2>1
    <2>3. \E w \in Workers : step[w] = "reading"
      BY <2>2 DEF Next, WebNext, Upload, QuickAdd, DeleteReceipt, OpenRetry, OpenConfirm,
         SaveRetry, SaveConfirm, DropForm, WorkerNext, HandlerStep, StartJob, NoReader, Load,
         Refuse, Accept, Unreadable, Transient, AfterTransient, RowGone, Bug, Finish, GiveUp,
         Close, Die, Housekeep, ChargeIfReading, ClockTick, AtRest, vars, receiptVars
    <2> QED
      BY <2>3 DEF AloneInv, HandlerAgrees
  <1> QED
    BY <1>1, AloneHolds, PipeTypesHold, PTL DEF Spec, PaidOnlyWhenNeeded
=============================================================================
