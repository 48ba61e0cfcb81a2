--------------------------- MODULE CaptureProofs ---------------------------
(***************************************************************************)
(* Proofs about CapturePipeline, for every number of jobs, workers,        *)
(* captures, open requests, crashes and bugs: the pipeline runs the queue, *)
(* a capture in reading has work, and one capture is one price, the one    *)
(* its row shows unless a confirmation overlooked another's.               *)
(***************************************************************************)
EXTENDS CapturePipeline, JobQueueProofs

USE CaptureAssumption

-----------------------------------------------------------------------------
(* The pipeline runs the queue: its theorems are the pipeline's. *)

\* What every action does to the rows of the job table is a transaction of
\* the queue, or nothing.
LEMMA StepOfQueue == [Next]_vars => [JobNext]_jobVars
  <1> SUFFICES ASSUME [Next]_vars
               PROVE  JobNext \/ UNCHANGED jobVars
    OBVIOUS
  <1>1. CASE WebNext
    <2>1. ASSUME NEW c \in Captures, NewJob(c)
          PROVE  JobNext
      BY <2>1 DEF NewJob, JobNext
    <2>2. ASSUME NEW f \in Forms, SaveRetry(f)
          PROVE  JobNext
      BY <2>2 DEF SaveRetry, NewJob, JobNext
    <2> QED
      BY <1>1, <2>1, <2>2 DEF WebNext, Create, OpenRetry, OpenConfirm, FlushConfirm,
                              SaveConfirm, OpenDelete, SaveDelete, DropForm
  <1>2. ASSUME NEW w \in Workers, WorkerNext(w)
        PROVE  JobNext \/ UNCHANGED jobVars
    <2>1. CASE StartJob(w) \/ Die(w) \/ Housekeep(w)
      BY <2>1 DEF StartJob, Die, Housekeep, JobNext, WorkerStep
    <2>2. CASE HandlerStep(w)
      BY <2>2 DEF HandlerStep, NoReader, Load, Refuse, NameIt, Accept, Transient,
                  AfterTransient, RowGone, Bug, FailJob, Finish, GiveUp, Close, JobNext,
                  WorkerStep
    <2> QED
      BY <1>2, <2>1, <2>2 DEF WorkerNext
  <1>3. CASE ClockTick
    BY <1>3 DEF ClockTick, JobNext
  <1>4. CASE AtRest \/ UNCHANGED vars
    BY <1>4 DEF AtRest, vars
  <1> QED
    BY <1>1, <1>2, <1>3, <1>4 DEF Next

\* The pipeline, seen on the job table alone, is the queue.
THEOREM CapturesRunQueue == Spec => JobSpec
  <1>1. Init => JobInit
    BY DEF Init
  <1> QED
    BY <1>1, StepOfQueue, PTL DEF Spec, JobSpec

\* So whatever was proved of the queue holds of the pipeline.
THEOREM CapturesKeepQueueInvariant == Spec => []QueueInv
  BY CapturesRunQueue, QueueInvariant, PTL

-----------------------------------------------------------------------------
(* Types, and how a worker's step, lease and target fit together. *)

PayloadOK == \A j \in Jobs : status[j] # "absent" => payload[j] \in Captures

\* A worker holds a row exactly while it is in the handler proper, and the
\* capture it handles is the one the row names.
StepsAgree ==
    \A w \in Workers :
        /\ Busy(w) <=> step[w] \notin {"idle"} \union Afterwards
        /\ Busy(w) => target[w] = payload[lease[w].job]

\* What a request has found of the observations is still there; two deletions
\* never found the same.
SeenIsThere ==
    /\ \A f \in Forms :
        form[f].kind \in {"saving", "delete"} => form[f].seen <= observed[form[f].capture].rows
    /\ \A f, g \in Forms :
        /\ form[f].kind = "delete" /\ form[g].kind = "delete"
        /\ form[f].capture = form[g].capture
        /\ form[f].seen > 0 /\ form[g].seen > 0
        => f = g

PipeTypes == CaptureTypeOK /\ PayloadOK /\ StepsAgree /\ SeenIsThere

\* The first state has the right types.
LEMMA InitTypes == Init => PipeTypes
  <1>1. JobInit => JobTypeOK
    BY InitInv DEF QueueInv
  <1> QED
    BY <1>1 DEF Init, JobInit, PipeTypes, CaptureTypeOK, PayloadOK, StepsAgree, SeenIsThere,
         CStatuses, Steps, Afterwards, Shown, Observed, NoForm, Page, NoLease, Busy

\* Inserting a job keeps the payloads, and what the workers hold, in order.
LEMMA NewJobTypes ==
    ASSUME QueueInv, PipeTypes, NEW c \in Captures, NewJob(c)
    PROVE  /\ payload' \in [Jobs -> Captures \union {NoCapture}]
           /\ PayloadOK'
           /\ UNCHANGED lease
           /\ \A w \in Workers : Busy(w) => payload'[lease[w].job] = payload[lease[w].job]
  <1>1. PICK j \in Jobs : Enqueue(j) /\ payload' = [payload EXCEPT ![j] = c]
    BY DEF NewJob
  <1>2. \A w \in Workers : Busy(w) => lease[w].job # j
    BY <1>1, LeasedRow DEF Enqueue
  <1>3. payload' \in [Jobs -> Captures \union {NoCapture}] /\ payload'[j] = c
    BY <1>1 DEF PipeTypes, CaptureTypeOK
  <1>4. PayloadOK'
    BY <1>1, <1>3 DEF Enqueue, PipeTypes, CaptureTypeOK, JobTypeOK, PayloadOK
  <1> QED
    BY <1>1, <1>2, <1>3, <1>4 DEF Enqueue, PipeTypes, CaptureTypeOK

\* What an open form can be.
LEMMA FormShape ==
    ASSUME CaptureTypeOK, NEW f \in Forms, form[f].kind # "none"
    PROVE  form[f] \in OpenForms /\ form[f].capture \in Captures
  BY DEF CaptureTypeOK, NoForm, Page, OpenForms

\* The commit of a confirmation replaces what it found, and a deletion that
\* waited for that finds nothing.
LEMMA SaveConfirmTypes ==
    ASSUME QueueInv', PipeTypes, NEW f \in Forms, SaveConfirm(f)
    PROVE  PipeTypes'
  <1> USE DEF PipeTypes, CaptureTypeOK
  <1>1. PICK c \in Captures : c = form[f].capture
    BY FormShape DEF SaveConfirm
  <1>2. PICK p \in Prices :
            /\ price' = [price EXCEPT ![c] = IF p = form[f].read THEN price[c] ELSE p]
            /\ observed' = [observed EXCEPT ![c] = Recorded(f, p)]
    BY <1>1 DEF SaveConfirm
  <1>3. /\ form[f].kind = "saving" /\ form[f] \in OpenForms /\ form[f].seen \in Nat
        /\ observed[c].rows \in Nat /\ form[f].seen <= observed[c].rows
    BY <1>1, FormShape DEF SaveConfirm, SeenIsThere, OpenForms
  <1>4. /\ cstatus' \in [Captures -> CStatuses] /\ price' \in [Captures -> Shown]
        /\ overlooked' \in SUBSET Captures
        /\ UNCHANGED <<jobVars, payload, step, target, bugs, abandoned>>
    BY <1>1, <1>2 DEF SaveConfirm, SetStatus, CStatuses, Shown, workVars
  <1>5. Recorded(f, p) \in [rows : Nat, price : Shown]
    <2>1. observed[c].rows - form[f].seen + 1 \in Nat
      BY <1>3
    <2> QED
      BY <1>1, <2>1 DEF Recorded, Observed, Shown
  <1>6. observed' \in [Captures -> [rows : Nat, price : Shown]]
    BY <1>1, <1>2, <1>5
  <1>7. ASSUME NEW g \in Forms
        PROVE  /\ form'[g] \in OpenForms \union {NoForm}
               /\ form'[g].kind # "none" => /\ form'[g].kind = form[g].kind
                                            /\ form'[g].capture = form[g].capture
               /\ form'[g].seen = IF g = f \/ form[g].capture = c THEN 0 ELSE form[g].seen
    <2>1. CASE g = f
      BY <1>1, <2>1 DEF SaveConfirm, NoForm, Page
    <2>2. CASE g # f /\ form[g].capture = c
      <3>1. form'[g] = [form[g] EXCEPT !.seen = 0]
        BY <1>1, <2>2 DEF SaveConfirm
      <3>2. form[g] \in OpenForms
        BY <2>2 DEF NoForm, Page
      <3> QED
        BY <2>2, <3>1, <3>2 DEF OpenForms
    <2>3. CASE g # f /\ form[g].capture # c
      BY <1>1, <2>3 DEF SaveConfirm
    <2> QED
      BY <2>1, <2>2, <2>3
  <1>8. form' \in [Forms -> OpenForms \union {NoForm}]
    <2>1. form' = [g \in Forms |-> form'[g]]
      BY DEF SaveConfirm
    <2> QED
      BY <1>7, <2>1
  <1>9. SeenIsThere'
    <2>1. \A d \in Captures : d # c => observed'[d] = observed[d]
      BY <1>1, <1>2
    <2>2. observed'[c].rows \in Nat
      BY <1>6
    <2>3. ASSUME NEW g \in Forms, form'[g].kind \in {"saving", "delete"}
          PROVE  form'[g].seen <= observed'[form'[g].capture].rows
      <3>1. form'[g].kind = form[g].kind /\ form'[g].capture = form[g].capture
        BY <1>7, <2>3
      <3>2. form[g].capture \in Captures
        BY <2>3, <3>1, FormShape
      <3>3. CASE form[g].capture = c
        BY <1>7, <2>2, <3>1, <3>3
      <3>4. CASE form[g].capture # c
        <4>1. g # f
          BY <1>1, <3>4
        <4> QED
          BY <1>7, <2>1, <2>3, <3>1, <3>2, <3>4, <4>1 DEF SeenIsThere
      <3> QED
        BY <3>3, <3>4
    <2>4. ASSUME NEW g \in Forms, form'[g].kind = "delete", form'[g].seen > 0
          PROVE  /\ form[g].kind = "delete" /\ form[g].seen > 0
                 /\ form'[g].capture = form[g].capture
      BY <1>7, <2>4
    <2> QED
      BY <2>3, <2>4 DEF SeenIsThere
  <1>10. JobTypeOK'
    BY DEF QueueInv
  <1> QED
    BY <1>4, <1>6, <1>8, <1>9, <1>10 DEF PayloadOK, StepsAgree, Busy, jobVars

\* The commit of a deletion takes the observations it found.
LEMMA SaveDeleteTypes ==
    ASSUME QueueInv', PipeTypes, NEW f \in Forms, SaveDelete(f)
    PROVE  PipeTypes'
  <1> USE DEF PipeTypes, CaptureTypeOK
  <1>1. PICK c \in Captures : c = form[f].capture
    BY FormShape DEF SaveDelete
  <1>2. /\ form[f].kind = "delete" /\ form[f] \in OpenForms /\ form[f].seen \in Nat
        /\ observed[c].rows \in Nat /\ form[f].seen <= observed[c].rows
        /\ observed[c].price \in Shown
    BY <1>1, FormShape DEF SaveDelete, SeenIsThere, OpenForms
  <1>3. /\ cstatus' \in [Captures -> CStatuses] /\ price' \in [Captures -> Shown]
        /\ form' = [form EXCEPT ![f] = NoForm]
        /\ UNCHANGED <<jobVars, payload, step, target, bugs, abandoned, overlooked>>
    BY <1>1 DEF SaveDelete, SetStatus, CStatuses, Shown, Closed, workVars
  <1>4. /\ observed' = [observed EXCEPT ![c] =
                           Observed(observed[c].rows - form[f].seen, observed[c].price)]
        /\ ~Locked(c)
    BY <1>1 DEF SaveDelete
  <1>5. Observed(observed[c].rows - form[f].seen, observed[c].price)
            \in [rows : Nat, price : Shown]
    <2>1. observed[c].rows - form[f].seen \in Nat
      BY <1>2
    <2> QED
      BY <1>2, <2>1 DEF Observed, Shown
  <1>6. observed' \in [Captures -> [rows : Nat, price : Shown]]
    BY <1>1, <1>4, <1>5
  <1>7. SeenIsThere'
    <2>1. \A g \in Forms : form'[g].kind # "none" => g # f /\ form'[g] = form[g]
      BY <1>3 DEF NoForm, Page
    <2>2. \A d \in Captures : d # c => observed'[d] = observed[d]
      BY <1>1, <1>4
    <2>3. ASSUME NEW g \in Forms, form'[g].kind \in {"saving", "delete"}
          PROVE  form'[g].seen <= observed'[form'[g].capture].rows
      <3>1. g # f /\ form'[g] = form[g] /\ form[g].seen \in Nat /\ form[g].capture \in Captures
        BY <2>1, <2>3, FormShape DEF OpenForms
      <3>2. CASE form[g].capture = c
        <4>1. form[g].kind = "delete"
          BY <1>4, <2>3, <3>1, <3>2 DEF Locked
        <4>2. form[g].seen = 0 \/ form[f].seen = 0
          BY <1>1, <1>2, <3>1, <3>2, <4>1 DEF SeenIsThere
        <4>3. form[g].seen <= observed[c].rows
          BY <3>2, <4>1 DEF SeenIsThere
        <4>4. observed'[c].rows = observed[c].rows - form[f].seen
          BY <1>1, <1>4 DEF Observed
        <4> QED
          BY <1>2, <3>1, <3>2, <4>2, <4>3, <4>4
      <3>3. CASE form[g].capture # c
        BY <2>2, <2>3, <3>1, <3>3 DEF SeenIsThere
      <3> QED
        BY <3>2, <3>3
    <2> QED
      BY <2>1, <2>3 DEF SeenIsThere
  <1>8. JobTypeOK'
    BY DEF QueueInv
  <1> QED
    BY <1>3, <1>6, <1>7, <1>8 DEF PayloadOK, StepsAgree, Busy, jobVars

\* A request that opens, or ends without a commit.
LEMMA OpenTypes ==
    ASSUME QueueInv', PipeTypes, NEW f \in Forms,
           \/ \E c \in Captures : OpenRetry(f, c) \/ OpenConfirm(f, c) \/ OpenDelete(f, c)
           \/ DropForm(f)
    PROVE  PipeTypes'
  <1> USE DEF PipeTypes, CaptureTypeOK
  <1> DEFINE Fits(page) ==
             /\ page \in OpenForms \union {NoForm}
             /\ page.kind # "saving"
             /\ page.kind = "delete" => /\ page.seen = observed[page.capture].rows
                                        /\ ~ObservationsLocked(page.capture)
  <1>1. \E page : form' = [form EXCEPT ![f] = page] /\ Fits(page)
    <2>1. CASE DropForm(f)
      <3>1. form' = [form EXCEPT ![f] = NoForm] /\ Fits(NoForm)
        BY <2>1 DEF DropForm, Closed, NoForm, Page
      <3> QED
        BY <3>1
    <2>2. ASSUME NEW c \in Captures, OpenRetry(f, c)
          PROVE  \E page : form' = [form EXCEPT ![f] = page] /\ Fits(page)
      <3> DEFINE page == Page("retry", c, FALSE, NoPrice, 0)
      <3>1. form' = [form EXCEPT ![f] = page]
        BY <2>2 DEF OpenRetry, Open, Page
      <3>2. Fits(page)
        BY DEF OpenForms, Shown, Page
      <3> QED
        BY <3>1, <3>2
    <2>3. ASSUME NEW c \in Captures, OpenConfirm(f, c)
          PROVE  \E page : form' = [form EXCEPT ![f] = page] /\ Fits(page)
      <3> DEFINE page == Page("confirm", c, cstatus[c] = "confirmed", price[c], 0)
      <3>1. form' = [form EXCEPT ![f] = page]
        BY <2>3 DEF OpenConfirm, Open, Page
      <3>2. Fits(page)
        BY DEF OpenForms, Page
      <3> QED
        BY <3>1, <3>2
    <2>4. ASSUME NEW c \in Captures, OpenDelete(f, c)
          PROVE  \E page : form' = [form EXCEPT ![f] = page] /\ Fits(page)
      <3> DEFINE page == Page("delete", c, FALSE, NoPrice, observed[c].rows)
      <3>1. form' = [form EXCEPT ![f] = page]
        BY <2>4 DEF OpenDelete, Open, Page
      <3>2. Fits(page)
        BY <2>4 DEF OpenDelete, OpenForms, Shown, Page
      <3> QED
        BY <3>1, <3>2
    <2> QED
      BY <2>1, <2>2, <2>3, <2>4
  <1>2. UNCHANGED <<jobVars, payload, cstatus, price, observed, overlooked, step, target, bugs,
                    abandoned>>
    BY DEF OpenRetry, OpenConfirm, OpenDelete, DropForm, priceVars, workVars
  <1>3. SeenIsThere'
    <2>1. PICK page : form' = [form EXCEPT ![f] = page] /\ Fits(page)
      BY <1>1
    <2>2. /\ form'[f] = page
          /\ \A g \in Forms : g # f => form'[g] = form[g]
      BY <2>1
    <2>3. \A g \in Forms :
              form'[g].kind \in {"saving", "delete"} =>
                  form'[g].seen <= observed'[form'[g].capture].rows
      <3>1. form'[f].kind = "delete" =>
                form'[f].seen = observed'[form'[f].capture].rows /\ form'[f].seen \in Nat
        BY <1>2, <2>1, <2>2 DEF OpenForms, NoForm, Page
      <3> QED
        BY <1>2, <2>1, <2>2, <3>1 DEF SeenIsThere
    <2> QED
      BY <2>1, <2>2, <2>3 DEF SeenIsThere, ObservationsLocked
  <1>4. JobTypeOK'
    BY DEF QueueInv
  <1> QED
    <2>1. form' \in [Forms -> OpenForms \union {NoForm}]
      BY <1>1
    <2> QED
      BY <2>1, <1>2, <1>3, <1>4 DEF PayloadOK, StepsAgree, Busy, jobVars

\* The web handlers keep the types.
LEMMA WebTypes ==
    ASSUME QueueInv, QueueInv', PipeTypes, WebNext
    PROVE  PipeTypes'
  <1> USE DEF PipeTypes, CaptureTypeOK, priceVars, workVars
  <1>1. JobTypeOK'
    BY DEF QueueInv
  <1>2. ASSUME NEW c \in Captures, Create(c)
        PROVE  PipeTypes'
    BY <1>1, <1>2, NewJobTypes DEF Create, SetStatus, StepsAgree, Busy, CStatuses, SeenIsThere
  <1>3. ASSUME NEW f \in Forms, SaveRetry(f)
        PROVE  PipeTypes'
    <2>1. form[f].capture \in Captures
      BY <1>3, FormShape DEF SaveRetry
    <2>2. SeenIsThere'
      BY <1>3 DEF SaveRetry, Closed, NoForm, Page, SeenIsThere
    <2> QED
      BY <1>1, <1>3, <2>1, <2>2, NewJobTypes DEF SaveRetry, SetStatus, Closed, StepsAgree, Busy,
                                                 CStatuses
  <1>4. ASSUME NEW f \in Forms, FlushConfirm(f)
        PROVE  PipeTypes'
    <2>1. form[f] \in OpenForms /\ observed[form[f].capture].rows \in Nat
      BY <1>4, FormShape DEF FlushConfirm
    <2>2. form' \in [Forms -> OpenForms \union {NoForm}]
      BY <1>4, <2>1 DEF FlushConfirm, OpenForms
    <2>3. SeenIsThere'
      BY <1>4, <2>1 DEF FlushConfirm, OpenForms, SeenIsThere
    <2> QED
      BY <1>1, <1>4, <2>2, <2>3 DEF FlushConfirm, PayloadOK, StepsAgree, Busy, jobVars
  <1> QED
    BY <1>2, <1>3, <1>4, OpenTypes, SaveConfirmTypes, SaveDeleteTypes DEF WebNext

\* The handler's steps keep the types.
LEMMA HandlerTypes ==
    ASSUME QueueInv, QueueInv', PipeTypes, NEW w \in Workers, HandlerStep(w)
    PROVE  PipeTypes'
  <1> USE DEF PipeTypes, CaptureTypeOK, GoTo, Steps, FailJob, priceVars, workVars
  <1>1. JobTypeOK /\ JobTypeOK'
    BY DEF QueueInv
  <1>2. step[w] # "idle" /\ target[w] \in Captures
    BY DEF HandlerStep, NoReader, Load, Refuse, NameIt, Accept, Transient, AfterTransient,
           RowGone, Bug, Finish, GiveUp, Close
  <1>3. CASE \/ NoReader(w) \/ Load(w) \/ Refuse(w) \/ NameIt(w) \/ Accept(w)
             \/ Transient(w) \/ GiveUp(w) \/ Close(w)
    <2> USE DEF NoReader, Load, Refuse, NameIt, Accept, Transient, GiveUp, Close
    <2>1. cstatus' \in [Captures -> CStatuses] /\ price' \in [Captures -> Shown]
      BY <1>2, <1>3 DEF FailCapture, SetStatus, CStatuses, Shown
    <2>2. StepsAgree'
      BY <1>3 DEF StepsAgree, Afterwards, Busy, jobVars
    <2> QED
      BY <1>1, <1>2, <1>3, <2>1, <2>2 DEF PayloadOK, jobVars, SeenIsThere
  <1>4. CASE AfterTransient(w) \/ RowGone(w) \/ Bug(w) \/ Finish(w)
    <2> USE DEF AfterTransient, RowGone, Bug, Finish
    <2>1. /\ Busy(w) /\ lease' = [lease EXCEPT ![w] = NoLease]
          /\ \E s \in Statuses \ {"absent"} : status' = [status EXCEPT ![lease[w].job] = s]
      BY <1>4 DEF Complete, FailRetry, FailFinal, Statuses
    <2>2. /\ UNCHANGED <<payload, cstatus, price, observed, overlooked, target, form,
                         abandoned>>
          /\ bugs' \in Nat
          /\ \E s \in {"idle"} \union Afterwards : step' = [step EXCEPT ![w] = s]
      BY <1>4 DEF Afterwards
    <2>3. StepsAgree'
      BY <1>1, <2>1, <2>2, Released DEF StepsAgree
    <2>4. PayloadOK'
      <3>1. lease[w].job \in Jobs /\ status[lease[w].job] # "absent"
        BY <2>1, LeasedRow
      <3> QED
        BY <1>1, <2>1, <2>2, <3>1 DEF PayloadOK, JobTypeOK
    <2> QED
      BY <1>1, <1>2, <2>2, <2>3, <2>4 DEF Afterwards, SeenIsThere
  <1> QED
    BY <1>3, <1>4 DEF HandlerStep

\* A claim makes its worker busy with the capture the row names.
LEMMA StartJobTypes ==
    ASSUME QueueInv, QueueInv', PipeTypes, NEW w \in Workers, StartJob(w)
    PROVE  PipeTypes'
  <1> USE DEF PipeTypes, CaptureTypeOK
  <1>1. PICK j \in Jobs :
            /\ status[j] = "queued"
            /\ status' = [status EXCEPT ![j] = "running"]
            /\ lease' = [lease EXCEPT ![w] =
                            [job |-> j, attempt |-> attempts[j] + 1, at |-> now]]
    BY DEF StartJob, Claim, Due
  <1>2. /\ JobTypeOK /\ JobTypeOK'
        /\ lease'[w].job = j /\ j # NoJob
        /\ \A v \in Workers : v # w => lease'[v] = lease[v]
        /\ step' = [step EXCEPT ![w] = "claimed"]
    BY <1>1, QueueAssumption DEF QueueInv, JobTypeOK, StartJob, GoTo
  <1>6. /\ target' = [target EXCEPT ![w] = payload[j]]
        /\ UNCHANGED <<payload, cstatus, price, observed, overlooked, form, bugs, abandoned>>
    BY <1>2 DEF StartJob, priceVars
  <1>3. payload[j] \in Captures
    BY <1>1 DEF PayloadOK
  <1>4. PayloadOK'
    BY <1>1, <1>2, <1>3, <1>6 DEF PayloadOK, JobTypeOK
  <1>5. StepsAgree'
    BY <1>1, <1>2, <1>6 DEF StepsAgree, Afterwards, Busy
  <1> QED
    BY <1>2, <1>3, <1>4, <1>5, <1>6 DEF Steps, SeenIsThere

\* A crash leaves the row and the capture as they are.
LEMMA DieTypes ==
    ASSUME QueueInv, QueueInv', PipeTypes, NEW w \in Workers, Die(w)
    PROVE  PipeTypes'
  <1> USE DEF PipeTypes, CaptureTypeOK
  <1>1. JobTypeOK /\ JobTypeOK' /\ lease' = [lease EXCEPT ![w] = NoLease]
    BY DEF QueueInv, Die, Crash
  <1>2. abandoned' \in SUBSET Captures
    BY DEF Die, Afterwards
  <1>3. StepsAgree'
    BY <1>1, Released DEF StepsAgree, Die, GoTo
  <1>4. PayloadOK'
    BY DEF PayloadOK, Die, Crash
  <1> QED
    BY <1>1, <1>2, <1>3, <1>4 DEF Die, GoTo, Steps, priceVars, SeenIsThere

\* Every step keeps the types.
LEMMA NextTypes ==
    ASSUME QueueInv, QueueInv', PipeTypes, [Next]_vars
    PROVE  PipeTypes'
  <1>1. CASE WebNext
    BY <1>1, WebTypes
  <1>2. ASSUME NEW w \in Workers, WorkerNext(w)
        PROVE  PipeTypes'
    <2>1. CASE Housekeep(w)
      <3>1. /\ UNCHANGED <<lease, captureVars>>
            /\ \A j \in Jobs : status'[j] # "absent" => status[j] # "absent"
        BY <2>1, Recovers DEF Housekeep
      <3> QED
        BY <3>1 DEF captureVars, priceVars, workVars, PipeTypes, CaptureTypeOK, QueueInv,
                    PayloadOK, StepsAgree, SeenIsThere, Busy
    <2> QED
      BY <1>2, <2>1, StartJobTypes, HandlerTypes, DieTypes DEF WorkerNext
  <1>3. CASE ClockTick \/ AtRest \/ UNCHANGED vars
    BY <1>3 DEF ClockTick, Tick, AtRest, vars, captureVars, priceVars, workVars, jobVars,
                PipeTypes, CaptureTypeOK, QueueInv, PayloadOK, StepsAgree, SeenIsThere, Busy
  <1> QED
    BY <1>1, <1>2, <1>3 DEF Next

\* Types, payloads and the workers' bookkeeping agree in every reachable state.
THEOREM PipeTypesHold == Spec => []PipeTypes
  BY InitTypes, NextTypes, CapturesKeepQueueInvariant, PTL DEF Spec

\* Every variable keeps its type, and a worker in its handler has a capture:
\* CaptureTypeOK holds whatever is confirmed, deleted, retried or recovered.
THEOREM CaptureTypes == Spec => []CaptureTypeOK
  <1>1. PipeTypes => CaptureTypeOK
    BY DEF PipeTypes
  <1> QED
    BY <1>1, PipeTypesHold, PTL

-----------------------------------------------------------------------------
(* A capture that is being read is attended to. *)

\* The job is, or will be, on its way to a reading: it is not the row of a
\* worker that has its answer and is about to mark the job done.
WillBeRead(j) ==
    /\ status[j] \in {"queued", "running"}
    /\ \A w \in Workers : lease[w].job = j => step[w] # "settle"

Attended(c) ==
    \/ \E j \in Jobs : payload[j] = c /\ WillBeRead(j)
    \/ \E w \in Workers : step[w] \in Afterwards /\ target[w] = c
    \/ c \in abandoned

\* CaptureHasWork, strengthened to an inductive invariant.
ReadingIsAttended == \A c \in Captures : cstatus[c] = "extracting" => Attended(c)

\* A new job is queued for its capture, and every other capture keeps the
\* job it had.
LEMMA NewJobAttends ==
    ASSUME QueueInv, PipeTypes, NEW c \in Captures, NewJob(c),
           UNCHANGED <<step, target, abandoned>>
    PROVE  /\ Attended(c)'
           /\ \A d \in Captures : Attended(d) => Attended(d)'
  <1>1. PICK j \in Jobs : Enqueue(j) /\ payload' = [payload EXCEPT ![j] = c]
    BY DEF NewJob
  <1>2. /\ status[j] = "absent"
        /\ payload'[j] = c /\ status'[j] = "queued"
        /\ \A k \in Jobs : k # j => payload'[k] = payload[k] /\ status'[k] = status[k]
        /\ UNCHANGED lease
    BY <1>1 DEF Enqueue, PipeTypes, CaptureTypeOK, JobTypeOK
  <1>3. \A w \in Workers : lease[w].job # j
    BY <1>2, LeasedRow, QueueAssumption DEF Busy
  <1> QED
    BY <1>2, <1>3 DEF Attended, WillBeRead

\* The web handlers keep every capture in reading attended to.
LEMMA WebAttended ==
    ASSUME QueueInv, PipeTypes, ReadingIsAttended, WebNext
    PROVE  ReadingIsAttended'
  <1>1. ASSUME NEW c \in Captures, Create(c)
        PROVE  ReadingIsAttended'
    BY <1>1, NewJobAttends DEF Create, SetStatus, workVars, ReadingIsAttended,
       PipeTypes, CaptureTypeOK
  <1>2. ASSUME NEW f \in Forms, SaveRetry(f)
        PROVE  ReadingIsAttended'
    <2>1. form[f].capture \in Captures
      BY <1>2, FormShape DEF SaveRetry, PipeTypes
    <2> QED
      BY <1>2, <2>1, NewJobAttends DEF SaveRetry, SetStatus, workVars,
                                       ReadingIsAttended, PipeTypes, CaptureTypeOK
  <1>3. CASE /\ UNCHANGED <<jobVars, payload, step, target, abandoned>>
             /\ \A c \in Captures : cstatus'[c] = "extracting" => cstatus[c] = "extracting"
    BY <1>3 DEF ReadingIsAttended, Attended, WillBeRead, jobVars
  <1>4. ASSUME NEW f \in Forms, SaveConfirm(f) \/ SaveDelete(f)
        PROVE  \A c \in Captures : cstatus'[c] = "extracting" => cstatus[c] = "extracting"
    BY <1>4, FormShape DEF SaveConfirm, SaveDelete, SetStatus, PipeTypes, CaptureTypeOK
  <1> QED
    BY <1>1, <1>2, <1>3, <1>4 DEF WebNext, OpenRetry, OpenConfirm, FlushConfirm,
       SaveConfirm, OpenDelete, SaveDelete, DropForm, workVars

\* The handler writes only the capture it handles, and leaves it on
\* "extracting" only while its row is still on the way to a reading.
LEMMA HandlerAttended ==
    ASSUME QueueInv, PipeTypes, ReadingIsAttended, NEW w \in Workers, HandlerStep(w)
    PROVE  ReadingIsAttended'
  <1> DEFINE j == lease[w].job
             t == target[w]
  <1> USE DEF GoTo, FailJob
  <1>0. /\ t \in Captures
        /\ cstatus \in [Captures -> CStatuses] /\ step \in [Workers -> Steps]
        /\ JobTypeOK
    BY DEF PipeTypes, CaptureTypeOK, HandlerStep, NoReader, Load, Refuse, NameIt, Accept,
           Transient, AfterTransient, RowGone, Bug, Finish, GiveUp, Close
  <1>1. CASE (Load(w) /\ step'[w] # "settle") \/ NameIt(w) \/ Transient(w)
    BY <1>0, <1>1 DEF Load, NameIt, Transient, ReadingIsAttended, Attended, WillBeRead,
                      Afterwards, jobVars
  <1>2. CASE \/ NoReader(w)
             \/ Load(w) /\ step'[w] = "settle"
             \/ Refuse(w)
             \/ Accept(w)
    <2> USE DEF NoReader, Load, Refuse, Accept
    <2>1. /\ cstatus'[t] # "extracting"
          /\ \A c \in Captures : c # t => cstatus'[c] = cstatus[c]
      BY <1>0, <1>2 DEF FailCapture, WantsReading, SetStatus
    <2>2. /\ step' = [step EXCEPT ![w] = "settle"] /\ step[w] \notin Afterwards
          /\ UNCHANGED <<jobVars, payload, target, abandoned>>
      BY <1>0, <1>2 DEF Afterwards
    <2>3. Busy(w) /\ payload[j] = t
      BY <1>2 DEF PipeTypes, StepsAgree, Afterwards
    <2>4. ASSUME NEW c \in Captures, c # t, Attended(c)
          PROVE  Attended(c)'
      BY <1>0, <2>2, <2>3, <2>4 DEF Attended, WillBeRead, jobVars
    <2> QED
      BY <2>1, <2>4 DEF ReadingIsAttended
  <1>3. CASE GiveUp(w) \/ Close(w)
    <2>1. /\ cstatus'[t] # "extracting"
          /\ \A c \in Captures : c # t => cstatus'[c] = cstatus[c]
      BY <1>0, <1>3 DEF GiveUp, Close, FailCapture, Present
    <2>2. /\ step' = [step EXCEPT ![w] = "idle"]
          /\ UNCHANGED <<jobVars, payload, target, abandoned>>
      BY <1>3 DEF GiveUp, Close
    <2>3. ASSUME NEW c \in Captures, c # t, Attended(c)
          PROVE  Attended(c)'
      BY <1>0, <2>2, <2>3 DEF Attended, WillBeRead, jobVars
    <2> QED
      BY <2>1, <2>3 DEF ReadingIsAttended
  <1>4. CASE AfterTransient(w) \/ RowGone(w) \/ Bug(w) \/ Finish(w)
    <2>1. /\ Busy(w) /\ payload[j] = t /\ j \in Jobs
          /\ step[w] \notin {"idle"} \union Afterwards
      <3>1. Busy(w)
        BY <1>4 DEF AfterTransient, RowGone, Bug, Finish, Complete, FailRetry, FailFinal
      <3> QED
        BY <1>0, <3>1, LeaseShape DEF PipeTypes, StepsAgree
    <2>2. lease'[w].job # j /\ \A v \in Workers : v # w => lease'[v] = lease[v]
      BY <1>0, <1>4, <2>1, Released, QueueAssumption DEF AfterTransient, RowGone, Bug, Finish,
         Complete, FailRetry, FailFinal
    <2>3. UNCHANGED <<payload, cstatus, target, abandoned>>
      BY <1>4 DEF AfterTransient, RowGone, Bug, Finish
    <2>4. \A k \in Jobs : k # j => status'[k] = status[k]
      BY <1>0, <1>4 DEF AfterTransient, RowGone, Bug, Finish, Complete, FailRetry,
                        FailFinal, JobTypeOK
    <2>5. \A v \in Workers : v # w => step'[v] = step[v]
      BY <1>0, <1>4 DEF AfterTransient, RowGone, Bug, Finish
    <2>6. \A k \in Jobs : WillBeRead(k) =>
                            \A v \in Workers : lease'[v].job = k => step'[v] # "settle"
      <3> SUFFICES ASSUME NEW k \in Jobs, WillBeRead(k),
                          NEW v \in Workers, lease'[v].job = k
                   PROVE  step'[v] # "settle"
        OBVIOUS
      <3>1. v # w
        <4>1. lease'[w].job = NoJob
          BY <1>0, <1>4, Released DEF AfterTransient, RowGone, Bug, Finish, Complete, FailRetry,
                                      FailFinal
        <4> QED
          BY <4>1, QueueAssumption
      <3> QED
        BY <2>2, <2>5, <3>1 DEF WillBeRead
    <2>7. \/ status'[j] = "queued"
          \/ step'[w] \in Afterwards
          \/ step[w] = "settle"
      BY <1>0, <1>4, <2>1 DEF AfterTransient, RowGone, Bug, Finish, FailRetry, JobTypeOK,
                              Afterwards
    <2>8. WillBeRead(j) => status'[j] = "queued" \/ step'[w] \in Afterwards
      BY <2>1, <2>7 DEF WillBeRead
    <2>9. ASSUME NEW c \in Captures, Attended(c)
          PROVE  Attended(c)'
      <3>1. CASE \E k \in Jobs : payload[k] = c /\ WillBeRead(k)
        <4>1. PICK k \in Jobs : payload[k] = c /\ WillBeRead(k)
          BY <3>1
        <4>2. CASE k = j
          BY <2>1, <2>3, <2>6, <2>8, <4>1, <4>2 DEF Attended, WillBeRead
        <4>3. CASE k # j
          BY <2>3, <2>4, <2>6, <4>1, <4>3 DEF Attended, WillBeRead
        <4> QED
          BY <4>2, <4>3
      <3>2. CASE \E v \in Workers : step[v] \in Afterwards /\ target[v] = c
        BY <2>1, <2>3, <2>5, <3>2 DEF Attended
      <3>3. CASE c \in abandoned
        BY <2>3, <3>3 DEF Attended
      <3> QED
        BY <2>9, <3>1, <3>2, <3>3 DEF Attended
    <2> QED
      BY <2>3, <2>9 DEF ReadingIsAttended
  <1> QED
    BY <1>1, <1>2, <1>3, <1>4 DEF HandlerStep

\* A claimed row is on its way to a reading: its new worker is at the start.
LEMMA StartJobAttended ==
    ASSUME QueueInv, PipeTypes, ReadingIsAttended, NEW w \in Workers, StartJob(w)
    PROVE  ReadingIsAttended'
  <1>1. PICK j \in Jobs :
            /\ status[j] = "queued"
            /\ status' = [status EXCEPT ![j] = "running"]
            /\ lease' = [lease EXCEPT ![w] =
                            [job |-> j, attempt |-> attempts[j] + 1, at |-> now]]
    BY DEF StartJob, Claim, Due
  <1>2. /\ JobTypeOK /\ step \in [Workers -> Steps] /\ step[w] = "idle"
        /\ step' = [step EXCEPT ![w] = "claimed"]
        /\ UNCHANGED <<payload, cstatus, abandoned>>
        /\ \A v \in Workers : v # w => target'[v] = target[v]
    BY DEF StartJob, GoTo, PipeTypes, CaptureTypeOK
  <1>3. /\ lease'[w].job = j
        /\ \A v \in Workers : v # w => lease'[v] = lease[v]
    BY <1>1, <1>2 DEF JobTypeOK
  <1>4. \A k \in Jobs : status[k] \in {"queued", "running"} => status'[k] \in {"queued", "running"}
    BY <1>1, <1>2 DEF JobTypeOK
  <1>5. \A k \in Jobs : WillBeRead(k) => WillBeRead(k)'
    BY <1>2, <1>3, <1>4 DEF WillBeRead
  <1> QED
    BY <1>2, <1>5 DEF ReadingIsAttended, Attended, Afterwards

\* A crash leaves the row running and unheld; in the gap between the job and
\* the capture it leaves the capture abandoned.
LEMMA DieAttended ==
    ASSUME QueueInv, PipeTypes, ReadingIsAttended, NEW w \in Workers, Die(w)
    PROVE  ReadingIsAttended'
  <1>1. /\ JobTypeOK /\ step \in [Workers -> Steps]
        /\ lease' = [lease EXCEPT ![w] = NoLease]
        /\ step' = [step EXCEPT ![w] = "idle"]
        /\ UNCHANGED <<status, payload, cstatus, target>>
        /\ abandoned \subseteq abandoned'
    BY DEF Die, Crash, GoTo, PipeTypes, CaptureTypeOK
  <1>2. step[w] \in Afterwards /\ cstatus[target[w]] = "extracting" => target[w] \in abandoned'
    BY DEF Die
  <1>3. lease'[w].job = NoJob /\ \A v \in Workers : v # w => lease'[v] = lease[v]
    BY <1>1 DEF JobTypeOK, NoLease
  <1>4. \A k \in Jobs : WillBeRead(k) => WillBeRead(k)'
    BY <1>1, <1>3, QueueAssumption DEF WillBeRead
  <1> QED
    BY <1>1, <1>2, <1>4 DEF ReadingIsAttended, Attended

\* recover_stuck() only ever puts rows in the queue.
LEMMA HousekeepAttended ==
    ASSUME QueueInv, ReadingIsAttended, NEW w \in Workers, Housekeep(w)
    PROVE  ReadingIsAttended'
  BY Recovers DEF Housekeep, captureVars, workVars, ReadingIsAttended, Attended, WillBeRead

\* Every step keeps every capture in reading attended to.
LEMMA NextAttended ==
    ASSUME QueueInv, PipeTypes, ReadingIsAttended, [Next]_vars
    PROVE  ReadingIsAttended'
  <1>1. ASSUME NEW w \in Workers, WorkerNext(w)
        PROVE  ReadingIsAttended'
    BY <1>1, StartJobAttended, HandlerAttended, DieAttended, HousekeepAttended DEF WorkerNext
  <1>2. CASE ClockTick \/ AtRest \/ UNCHANGED vars
    BY <1>2 DEF ClockTick, Tick, AtRest, vars, captureVars, workVars, jobVars,
                ReadingIsAttended, Attended, WillBeRead
  <1> QED
    BY <1>1, <1>2, WebAttended DEF Next

\* A capture that is being read has a job waiting or running for it, or a
\* worker about to fail it, unless a worker died between queue.fail() and
\* _fail_capture(): whatever is retried, deleted or confirmed meanwhile, and
\* however many workers and requests there are.
THEOREM CaptureKeepsWork == Spec => []CaptureHasWork
  <1>1. Init => ReadingIsAttended
    BY DEF Init, ReadingIsAttended
  <1>2. ReadingIsAttended => CaptureHasWork
    BY DEF ReadingIsAttended, Attended, WillBeRead, CaptureHasWork, HasWork
  <1>3. Spec => []ReadingIsAttended
    BY <1>1, NextAttended, PipeTypesHold, CapturesKeepQueueInvariant, PTL DEF Spec
  <1> QED
    BY <1>2, <1>3, PTL

-----------------------------------------------------------------------------
(* One capture is one price, and the row shows it or has been overlooked. *)

\* One confirmation at a time holds the row of a capture.
OneSaves ==
    \A f, g \in Forms :
        /\ form[f].kind = "saving" /\ form[g].kind = "saving"
        /\ form[f].capture = form[g].capture
        => f = g

\* What a confirmation found is what there is until its commit: nobody adds
\* an observation of its capture, or takes one away, while it holds the row.
SavingSeesAll ==
    \A f \in Forms :
        form[f].kind = "saving" => form[f].seen = observed[form[f].capture].rows

\* The inductive invariant.
PriceInv == OneSaves /\ SavingSeesAll /\ OnePriceEach /\ PriceIsConfirmed

\* The web handlers.  The row's lock orders the confirmations and keeps the
\* deletions out, and the observation of one that was quicker is found.
LEMMA WebPrices ==
    ASSUME PipeTypes, PriceInv, WebNext
    PROVE  PriceInv'
  <1> USE DEF PriceInv, OneSaves, SavingSeesAll, OnePriceEach, PriceIsConfirmed
  <1>0. /\ cstatus \in [Captures -> CStatuses] /\ price \in [Captures -> Shown]
        /\ observed \in [Captures -> [rows : Nat, price : Shown]]
        /\ form \in [Forms -> OpenForms \union {NoForm}]
        /\ \A f \in Forms : form[f].kind # "none" => form[f].capture \in Captures
    BY FormShape DEF PipeTypes, CaptureTypeOK
  <1>1. ASSUME NEW c \in Captures, Create(c)
        PROVE  PriceInv'
    BY <1>0, <1>1 DEF Create, SetStatus, priceVars
  <1>2. ASSUME NEW f \in Forms, NEW c \in Captures,
               OpenRetry(f, c) \/ OpenConfirm(f, c) \/ OpenDelete(f, c)
        PROVE  PriceInv'
    <2>1. UNCHANGED <<cstatus, price, observed, overlooked>>
      BY <1>2 DEF OpenRetry, OpenConfirm, OpenDelete, priceVars
    <2>2. PICK page : form' = [form EXCEPT ![f] = page] /\ page.kind # "saving"
      <3>1. CASE OpenRetry(f, c)
        <4>1. Page("retry", c, FALSE, NoPrice, 0).kind # "saving"
          BY DEF Page
        <4> QED
          BY <3>1, <4>1 DEF OpenRetry, Open
      <3>2. CASE OpenConfirm(f, c)
        <4>1. Page("confirm", c, cstatus[c] = "confirmed", price[c], 0).kind # "saving"
          BY DEF Page
        <4> QED
          BY <3>2, <4>1 DEF OpenConfirm, Open
      <3>3. CASE OpenDelete(f, c)
        <4>1. Page("delete", c, FALSE, NoPrice, observed[c].rows).kind # "saving"
          BY DEF Page
        <4> QED
          BY <3>3, <4>1 DEF OpenDelete, Open
      <3> QED
        BY <1>2, <3>1, <3>2, <3>3
    <2>3. \A g \in Forms : form'[g].kind = "saving" => g # f /\ form'[g] = form[g]
      BY <1>0, <2>2
    <2> QED
      BY <2>1, <2>3
  <1>3. ASSUME NEW f \in Forms, SaveRetry(f) \/ DropForm(f)
        PROVE  PriceInv'
    <2>1. /\ form' = [form EXCEPT ![f] = NoForm]
          /\ UNCHANGED <<price, observed, overlooked>>
          /\ \A c \in Captures : cstatus'[c] = "confirmed" => cstatus[c] = "confirmed"
      BY <1>0, <1>3 DEF SaveRetry, DropForm, SetStatus, Closed, priceVars
    <2>2. \A g \in Forms : form'[g].kind = "saving" => g # f /\ form'[g] = form[g]
      BY <1>0, <2>1 DEF NoForm, Page
    <2> QED
      BY <2>1, <2>2
  <1>4. ASSUME NEW f \in Forms, FlushConfirm(f)
        PROVE  PriceInv'
    <2>1. PICK c \in Captures : c = form[f].capture
      BY <1>0, <1>4 DEF FlushConfirm
    <2>2. /\ form[f].kind = "confirm"
          /\ \A g \in Forms : ~(form[g].kind = "saving" /\ form[g].capture = c)
          /\ form' = [form EXCEPT ![f].kind = "saving", ![f].seen = observed[c].rows]
          /\ UNCHANGED <<cstatus, price, observed, overlooked>>
      BY <1>4, <2>1 DEF FlushConfirm, TakesLock, Locked, priceVars
    <2>3. form[f] \in OpenForms
      BY <2>2, FormShape DEF PipeTypes
    <2>4. /\ form'[f].capture = c /\ form'[f].seen = observed[c].rows
          /\ \A g \in Forms : g # f => form'[g] = form[g]
      BY <1>0, <2>1, <2>2, <2>3 DEF OpenForms
    <2>5. \A g \in Forms : g # f => ~(form'[g].kind = "saving" /\ form'[g].capture = c)
      BY <2>2, <2>4
    <2>6. OneSaves'
      BY <2>4, <2>5
    <2>7. SavingSeesAll'
      BY <2>2, <2>4
    <2>8. OnePriceEach' /\ PriceIsConfirmed'
      BY <2>2
    <2> QED
      BY <2>6, <2>7, <2>8
  <1>5. ASSUME NEW f \in Forms, SaveConfirm(f)
        PROVE  PriceInv'
    <2>1. PICK c \in Captures : c = form[f].capture
      BY <1>0, <1>5 DEF SaveConfirm
    <2>2. form[f].seen = observed[c].rows /\ form[f].kind = "saving"
      BY <1>5, <2>1 DEF SaveConfirm
    <2>3. PICK p \in Prices :
              LET shows == IF p = form[f].read THEN price[c] ELSE p IN
              /\ price' = [price EXCEPT ![c] = shows]
              /\ observed' = [observed EXCEPT ![c] = Recorded(f, p)]
              /\ overlooked' = IF shows # p THEN overlooked \union {c} ELSE overlooked \ {c}
      BY <1>5, <2>1 DEF SaveConfirm
    <2>4. Recorded(f, p) = [rows |-> 1, price |-> p]
      <3>1. observed[c].rows - form[f].seen + 1 = 1
        BY <1>0, <2>2
      <3> QED
        BY <2>1, <3>1 DEF Recorded, Observed
    <2>5. /\ observed'[c].rows = 1 /\ observed'[c].price = p
          /\ price'[c] = p \/ c \in overlooked'
          /\ \A d \in Captures \ {c} :
                /\ observed'[d] = observed[d] /\ price'[d] = price[d]
                /\ d \in overlooked' <=> d \in overlooked
                /\ cstatus'[d] = cstatus[d]
      <3>1. observed' = [observed EXCEPT ![c] = [rows |-> 1, price |-> p]]
        BY <2>3, <2>4
      <3>2. \A d \in Captures \ {c} : cstatus'[d] = cstatus[d]
        BY <1>0, <1>5, <2>1 DEF SaveConfirm, SetStatus
      <3>3. observed'[c].rows = 1 /\ observed'[c].price = p
        BY <1>0, <3>1
      <3>4. price'[c] = p \/ c \in overlooked'
        BY <1>0, <2>3
      <3>5. \A d \in Captures \ {c} :
                /\ observed'[d] = observed[d] /\ price'[d] = price[d]
                /\ d \in overlooked' <=> d \in overlooked
        BY <1>0, <2>3, <3>1
      <3> QED
        BY <3>2, <3>3, <3>4, <3>5
    <2>6. \A g \in Forms : g # f /\ form[g].kind = "saving" => form[g].capture # c
      BY <2>1, <2>2
    <2>7. \A g \in Forms : form'[g].kind = "saving"
              => g # f /\ form'[g] = form[g] /\ form[g].capture # c
      <3> SUFFICES ASSUME NEW g \in Forms, form'[g].kind = "saving"
                   PROVE  g # f /\ form'[g] = form[g] /\ form[g].capture # c
        OBVIOUS
      <3>1. g # f
        BY <1>5 DEF SaveConfirm, NoForm, Page
      <3>2. CASE form[g].capture = c
        <4>1. form'[g] = [form[g] EXCEPT !.seen = 0] /\ form[g] \in OpenForms
          BY <1>0, <1>5, <2>1, <3>1, <3>2 DEF SaveConfirm, NoForm, Page
        <4>2. form[g].kind = "saving"
          BY <4>1 DEF OpenForms
        <4> QED
          BY <2>6, <3>1, <3>2, <4>2
      <3>3. CASE form[g].capture # c
        BY <1>5, <2>1, <3>1, <3>3 DEF SaveConfirm
      <3> QED
        BY <3>1, <3>2, <3>3
    <2>8. OneSaves' /\ SavingSeesAll'
      BY <1>0, <2>5, <2>7
    <2>9. OnePriceEach'
      BY <2>5
    <2>10. PriceIsConfirmed'
      BY <2>5
    <2> QED
      BY <2>8, <2>9, <2>10
  <1>6. ASSUME NEW f \in Forms, SaveDelete(f)
        PROVE  PriceInv'
    <2>1. PICK c \in Captures : c = form[f].capture
      BY <1>0, <1>6 DEF SaveDelete
    <2>2. /\ \A g \in Forms : ~(form[g].kind = "saving" /\ form[g].capture = c)
          /\ cstatus'[c] = "deleted"
          /\ form' = [form EXCEPT ![f] = NoForm]
          /\ overlooked' = overlooked
          /\ \A d \in Captures \ {c} :
                cstatus'[d] = cstatus[d] /\ price'[d] = price[d] /\ observed'[d] = observed[d]
      BY <1>0, <1>6, <2>1 DEF SaveDelete, SetStatus, Locked, Closed
    <2>3. observed'[c].rows <= 1
      <3>1. observed'[c].rows = observed[c].rows - form[f].seen
        BY <1>0, <1>6, <2>1 DEF SaveDelete, Observed
      <3>2. form[f].seen \in Nat /\ observed[c].rows \in Nat
        BY <1>0, <1>6, FormShape DEF SaveDelete, OpenForms, PipeTypes
      <3> QED
        BY <3>1, <3>2
    <2>4. \A g \in Forms : form'[g].kind = "saving"
              => g # f /\ form'[g] = form[g] /\ form[g].capture # c
      BY <1>0, <2>1, <2>2 DEF NoForm, Page
    <2> QED
      BY <1>0, <2>2, <2>3, <2>4
  <1> QED
    BY <1>1, <1>2, <1>3, <1>4, <1>5, <1>6 DEF WebNext

\* The worker never writes an observation, and whenever it writes a price or
\* a status the capture is not confirmed afterwards.
LEMMA WorkerPrices ==
    ASSUME PipeTypes, PriceInv, NEW w \in Workers, WorkerNext(w)
    PROVE  PriceInv'
  <1>1. UNCHANGED <<observed, overlooked, form>>
    BY DEF WorkerNext, StartJob, Die, Housekeep, HandlerStep, NoReader, Load, Refuse,
           NameIt, Accept, Transient, AfterTransient, RowGone, Bug, FailJob, Finish,
           GiveUp, Close, captureVars, priceVars
  <1>2. \A c \in Captures :
            cstatus'[c] = "confirmed" => cstatus[c] = "confirmed" /\ price'[c] = price[c]
    <2>1. CASE Accept(w) \/ Refuse(w) \/ NoReader(w) \/ GiveUp(w) \/ Close(w)
      BY <2>1 DEF PipeTypes, CaptureTypeOK, Accept, Refuse, NoReader, GiveUp, Close,
                  FailCapture, SetStatus, priceVars
    <2>2. CASE UNCHANGED <<cstatus, price>>
      BY <2>2
    <2> QED
      BY <2>1, <2>2 DEF WorkerNext, StartJob, Die, Housekeep, HandlerStep, Load, NameIt,
         Transient, AfterTransient, RowGone, Bug, FailJob, Finish, captureVars, priceVars
  <1> QED
    BY <1>1, <1>2 DEF PriceInv, OneSaves, SavingSeesAll, OnePriceEach, PriceIsConfirmed

\* The invariant of the prices holds in every reachable state.
THEOREM PricesHold == Spec => []PriceInv
  <1>1. Init => PriceInv
    BY DEF Init, PriceInv, OneSaves, SavingSeesAll, OnePriceEach, PriceIsConfirmed, NoForm, Page,
           Observed
  <1>2. PipeTypes /\ PriceInv /\ [Next]_vars => PriceInv'
    <2>1. ASSUME PriceInv, ClockTick \/ AtRest \/ UNCHANGED vars
          PROVE  PriceInv'
      BY <2>1 DEF ClockTick, AtRest, vars, captureVars, priceVars, PriceInv, OneSaves,
                  SavingSeesAll, OnePriceEach, PriceIsConfirmed
    <2> QED
      BY <2>1, WebPrices, WorkerPrices DEF Next
  <1> QED
    BY <1>1, <1>2, PipeTypesHold, PTL DEF Spec

\* However many confirmations, retries, readings and deletions meet, one
\* capture is one price.
THEOREM CaptureIsOnePrice == Spec => []OnePriceEach
  BY PricesHold, PTL DEF PriceInv

\* The price observed of a confirmed capture is the one its row shows, unless
\* its last confirmation submitted again what it had read while another tab,
\* or the worker, had given the row a price since: the one way the page and the
\* feedback come to disagree, whatever else is retried, read or deleted.
THEOREM ShownPriceIsObserved == Spec => []PriceIsConfirmed
  BY PricesHold, PTL DEF PriceInv
=============================================================================
