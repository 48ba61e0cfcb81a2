-------------------------- MODULE ReceiptPipeline --------------------------
(***************************************************************************)
(* The life of a receipt: the web handlers that create, retry, confirm and *)
(* delete it (receipts/routes.py, receipts/service.py), and the worker     *)
(* that reads it (jobs/handlers.py) through the job queue, whose actions   *)
(* this module composes with its own.                                      *)
(*                                                                         *)
(* An action ends where the code commits, or where it reads rows it will   *)
(* rely on after other transactions may have run.  The lines of a receipt  *)
(* are kept as the batches they were written in: the reader's, one per     *)
(* submitted form, or quick add's.                                         *)
(***************************************************************************)
EXTENDS JobQueue

CONSTANTS
    Receipts,    \* receipt ids
    Forms,       \* browser requests that can be open at the same time
    NoReceipt,   \* the target of a worker, or the receipt of a form, with none
    NoBatch,     \* the total of a receipt that has none yet
    Budget,      \* llm_monthly_budget_eur, in units of cost
    MaxCost,     \* the dearest reading
    MaxBugs      \* bound: handler exceptions outside the modelled paths

ASSUME PipelineAssumption ==
    /\ NoReceipt \notin Receipts
    /\ Budget \in Nat
    /\ MaxCost \in Nat \ {0}
    /\ MaxBugs \in Nat

VARIABLES
    payload,    \* Job.payload["receipt_id"]
    rstatus,    \* Receipt.status; "absent" before the insert, "deleted" after
    lines,      \* the batches whose rows are in receipt_lines
    total,      \* the batch whose total the receipt row holds
    observed,   \* the batches its price observations were made from
    step,       \* how far each worker is in its handler
    target,     \* the receipt each worker is handling
    form,       \* what each open request has loaded
    spent,      \* the month's sum over the extractions table
    billed,     \* history: what the API has charged
    bugs,       \* history: unexpected handler exceptions
    abandoned   \* history: receipts whose failure a crash left unwritten

receiptVars == <<payload, rstatus, lines, total, observed, step, target, form, spent,
                 billed, bugs, abandoned>>
vars == <<jobVars, receiptVars>>

RStatuses == {"absent", "extracting", "needs_review", "failed", "confirmed", "deleted"}
Steps == {"idle", "claimed", "refusing", "reading", "retry", "settle", "closing",
          "givingup"}
Afterwards == {"closing", "givingup"}   \* the job is failed, the receipt not yet
Batches == {"reader", "manual"} \union Forms
Costs == 1..MaxCost

NoForm == [kind |-> "none", receipt |-> NoReceipt, was |-> "absent", seen |-> {}]
Present(r) == rstatus[r] \notin {"absent", "deleted"}

Init ==
    /\ JobInit
    /\ payload = [j \in Jobs |-> NoReceipt]
    /\ rstatus = [r \in Receipts |-> "absent"]
    /\ lines = [r \in Receipts |-> {}]
    /\ total = [r \in Receipts |-> NoBatch]
    /\ observed = [r \in Receipts |-> {}]
    /\ step = [w \in Workers |-> "idle"]
    /\ target = [w \in Workers |-> NoReceipt]
    /\ form = [f \in Forms |-> NoForm]
    /\ spent = 0
    /\ billed = 0
    /\ bugs = 0
    /\ abandoned = {}

-----------------------------------------------------------------------------
(* The web handlers *)

NewJobForNothing(r) ==                                    \* mutant: empty payload
    /\ \E j \in Jobs : Enqueue(j)
    /\ UNCHANGED payload

\* enqueue(db, "extract_receipt", {"receipt_id": ...})
NewJob(r) ==
    \E j \in Jobs :
        /\ Enqueue(j)
        /\ payload' = [payload EXCEPT ![j] = r]

\* create_from_upload(): the receipt, its photos and its job in one commit.
Upload(r) ==
    /\ rstatus[r] = "absent"
    /\ rstatus' = [rstatus EXCEPT ![r] = "extracting"]
    /\ NewJob(r)
    /\ UNCHANGED <<lines, total, observed, step, target, form, spent, billed, bugs,
                   abandoned>>

\* quick_add(): confirmed at once, one line, no reading.
QuickAdd(r) ==
    /\ rstatus[r] = "absent"
    /\ rstatus' = [rstatus EXCEPT ![r] = "confirmed"]
    /\ lines' = [lines EXCEPT ![r] = {"manual"}]
    /\ total' = [total EXCEPT ![r] = "manual"]
    /\ observed' = [observed EXCEPT ![r] = {"manual"}]
    /\ UNCHANGED <<jobVars, payload, step, target, form, spent, billed, bugs, abandoned>>

\* retry(), first half: the row is loaded and found failed.
OpenRetry(f, r) ==
    /\ form[f] = NoForm
    /\ rstatus[r] = "failed"
    /\ form' = [form EXCEPT ![f] =
                    [kind |-> "retry", receipt |-> r, was |-> "failed", seen |-> {}]]
    /\ UNCHANGED <<jobVars, payload, rstatus, lines, total, observed, step, target, spent,
                   billed, bugs, abandoned>>

\* retry(), second half: the update is by primary key, whatever the row says
\* by now.
SaveRetry(f) ==
    LET r == form[f].receipt IN
    /\ form[f].kind = "retry"
    /\ Present(r)
    /\ rstatus' = [rstatus EXCEPT ![r] = "extracting"]
    /\ NewJob(r)
    /\ form' = [form EXCEPT ![f] = NoForm]
    /\ UNCHANGED <<lines, total, observed, step, target, spent, billed, bugs, abandoned>>

\* confirm(), first half: the status check, then `await request.form()`, and
\* the lines confirm_receipt() will replace.
OpenConfirm(f, r) ==
    /\ form[f] = NoForm
    /\ rstatus[r] \in {"needs_review", "confirmed"}
    /\ form' = [form EXCEPT ![f] =
                    [kind |-> "confirm", receipt |-> r, was |-> rstatus[r], seen |-> lines[r]]]
    /\ UNCHANGED <<jobVars, payload, rstatus, lines, total, observed, step, target, spent,
                   billed, bugs, abandoned>>

ReplacesNothing(f) == {}                                  \* mutant: no lines.clear()
Replaces(f) == form[f].seen

RecordsAlso(f) == observed[form[f].receipt] \union {f}     \* mutant: no delete first
\* record_receipt(): the old observations go, the new lines give the new ones.
Recorded(f) == {f}

\* confirm(), second half: receipt.lines.clear() deletes the rows it loaded
\* (rows gone meanwhile are a warning), then the form's own are inserted.  The
\* ORM writes the columns that differ from what the request loaded: a receipt
\* loaded as confirmed gets no new status.
SaveConfirm(f) ==
    LET r == form[f].receipt IN
    /\ form[f].kind = "confirm"
    /\ Present(r)
    /\ lines' = [lines EXCEPT ![r] = (@ \ Replaces(f)) \union {f}]
    /\ total' = [total EXCEPT ![r] = f]
    /\ observed' = [observed EXCEPT ![r] = Recorded(f)]
    /\ rstatus' = [rstatus EXCEPT ![r] = IF form[f].was = "confirmed" THEN @
                                                                     ELSE "confirmed"]
    /\ form' = [form EXCEPT ![f] = NoForm]
    /\ UNCHANGED <<jobVars, payload, step, target, spent, billed, bugs, abandoned>>

\* The request ends without a commit: the form has errors (422), the receipt
\* is gone (StaleDataError), or the web process is restarted.
DropForm(f) ==
    /\ form[f] # NoForm
    /\ form' = [form EXCEPT ![f] = NoForm]
    /\ UNCHANGED <<jobVars, payload, rstatus, lines, total, observed, step, target, spent,
                   billed, bugs, abandoned>>

\* delete_receipt(): allowed in any status, the reading one included.
DeleteReceipt(r) ==
    /\ Present(r)
    /\ rstatus' = [rstatus EXCEPT ![r] = "deleted"]
    /\ lines' = [lines EXCEPT ![r] = {}]
    /\ total' = [total EXCEPT ![r] = NoBatch]
    /\ observed' = [observed EXCEPT ![r] = {}]
    /\ UNCHANGED <<jobVars, payload, step, target, form, spent, billed, bugs, abandoned>>

-----------------------------------------------------------------------------
(* The worker: process_one() and _extract_receipt() *)

GoTo(w, s) == step' = [step EXCEPT ![w] = s]

\* process_one(): claim_next() found a job.
StartJob(w) ==
    /\ step[w] = "idle"
    /\ Claim(w)
    /\ GoTo(w, "claimed")
    /\ target' = [target EXCEPT ![w] = payload[lease'[w].job]]
    /\ UNCHANGED <<payload, rstatus, lines, total, observed, form, spent, billed, bugs,
                   abandoned>>

FailNothing(r) == rstatus                                 \* mutant: _fail_receipt forgotten

\* _fail_receipt(): only a receipt that is still being read fails.
FailReceipt(r) ==
    IF rstatus[r] = "extracting" THEN [rstatus EXCEPT ![r] = "failed"] ELSE rstatus

\* ReaderUnavailable: no API key is set.
NoReader(w) ==
    /\ step[w] = "claimed"
    /\ rstatus' = FailReceipt(target[w])
    /\ GoTo(w, "settle")
    /\ UNCHANGED <<jobVars, payload, lines, total, observed, target, form, spent, billed,
                   bugs, abandoned>>

WantsAnyReading(r) == Present(r)                          \* mutant: status not checked
WantsReading(r) == rstatus[r] = "extracting"

BudgetLeftInclusive == spent <= Budget                    \* mutant: > for >=
BudgetLeft == spent < Budget

\* The head of run_extraction(): nothing to do for a receipt that is gone or
\* no longer being read, a refusal when the budget is exhausted or no photo
\* is left, a call of the reader otherwise.
Load(w) ==
    /\ step[w] = "claimed"
    /\ \/ ~WantsReading(target[w]) /\ GoTo(w, "settle")
       \/ WantsReading(target[w]) /\ GoTo(w, "refusing")
       \/ WantsReading(target[w]) /\ BudgetLeft /\ GoTo(w, "reading")
    /\ UNCHANGED <<jobVars, payload, rstatus, lines, total, observed, target, form, spent,
                   billed, bugs, abandoned>>

\* _fail() on the receipt, with no reading.
Refuse(w) ==
    /\ step[w] = "refusing"
    /\ Present(target[w])
    /\ rstatus' = [rstatus EXCEPT ![target[w]] = "failed"]
    /\ GoTo(w, "settle")
    /\ UNCHANGED <<jobVars, payload, lines, total, observed, target, form, spent, billed,
                   bugs, abandoned>>

Charge(c) == billed' = billed + c
Log(c) == spent' = spent + c

\* The reader answers, its answer parses: _record_extraction() and
\* _apply_extraction() in one commit.
Accept(w) ==
    LET r == target[w] IN
    /\ step[w] = "reading"
    /\ Present(r)
    /\ \E c \in Costs : Charge(c) /\ Log(c)
    /\ lines' = [lines EXCEPT ![r] = {"reader"}]
    /\ total' = [total EXCEPT ![r] = "reader"]
    /\ rstatus' = [rstatus EXCEPT ![r] = "needs_review"]
    /\ GoTo(w, "settle")
    /\ UNCHANGED <<jobVars, payload, observed, target, form, bugs, abandoned>>

\* The answer is of no use (refused, cut off, not the schema, a 4xx).
Unreadable(w) ==
    /\ step[w] = "reading"
    /\ Present(target[w])
    /\ \E c \in {0} \union Costs : Charge(c) /\ Log(c)
    /\ rstatus' = [rstatus EXCEPT ![target[w]] = "failed"]
    /\ GoTo(w, "settle")
    /\ UNCHANGED <<jobVars, payload, lines, total, observed, target, form, bugs, abandoned>>

\* No answer (connection, rate limit, 5xx): the extraction row costs nothing,
\* and the commit touches no receipt, so a deleted one is not noticed.
Transient(w) ==
    /\ step[w] = "reading"
    /\ GoTo(w, "retry")
    /\ UNCHANGED <<jobVars, payload, rstatus, lines, total, observed, target, form, spent,
                   billed, bugs, abandoned>>

\* except ExtractionRetry: back to the queue while attempts remain.
AfterTransient(w) ==
    /\ step[w] = "retry"
    /\ \/ FailRetry(w) /\ GoTo(w, "idle")
       \/ ~AttemptsRemain(w) /\ FailFinal(w) /\ GoTo(w, "givingup")
    /\ UNCHANGED <<payload, rstatus, lines, total, observed, target, form, spent, billed,
                   bugs, abandoned>>

\* The last line of the handler: queue.complete().
Finish(w) ==
    /\ step[w] = "settle"
    /\ Complete(w)
    /\ GoTo(w, "idle")
    /\ UNCHANGED <<payload, rstatus, lines, total, observed, target, form, spent, billed,
                   bugs, abandoned>>

\* What the API may have charged for a call whose outcome is lost.
ChargeIfReading(w) ==
    IF step[w] = "reading" THEN \E c \in {0} \union Costs : Charge(c)
                           ELSE UNCHANGED billed

\* The receipt was deleted under the handler: its update matches no row, the
\* rollback takes the extraction row along, and process_one() fails the job.
RowGone(w) ==
    /\ step[w] \in {"refusing", "reading"}
    /\ ~Present(target[w])
    /\ ChargeIfReading(w)
    /\ FailFinal(w)
    /\ GoTo(w, "closing")
    /\ UNCHANGED <<payload, rstatus, lines, total, observed, target, form, spent, bugs,
                   abandoned>>

\* Any other exception in the handler: rollback, and the job fails for good.
Bug(w) ==
    /\ bugs < MaxBugs
    /\ step[w] \notin {"idle"} \union Afterwards
    /\ bugs' = bugs + 1
    /\ ChargeIfReading(w)
    /\ FailFinal(w)
    /\ GoTo(w, "closing")
    /\ UNCHANGED <<payload, rstatus, lines, total, observed, target, form, spent, abandoned>>

\* _fail_receipt() after the final fail() of an ExtractionRetry: the receipt
\* is still in the session as it was loaded, extracting, so it is failed
\* whatever it has become; if it is gone, process_one() has nothing to fail.
GiveUp(w) ==
    /\ step[w] = "givingup"
    /\ rstatus' = IF Present(target[w]) THEN [rstatus EXCEPT ![target[w]] = "failed"]
                                        ELSE rstatus
    /\ GoTo(w, "idle")
    /\ UNCHANGED <<jobVars, payload, lines, total, observed, target, form, spent, billed,
                   bugs, abandoned>>

\* _fail_receipt() in process_one(), after a rollback that made the session
\* forget what it loaded: a commit of its own.
Close(w) ==
    /\ step[w] = "closing"
    /\ rstatus' = FailReceipt(target[w])
    /\ GoTo(w, "idle")
    /\ UNCHANGED <<jobVars, payload, lines, total, observed, target, form, spent, billed,
                   bugs, abandoned>>

\* The worker dies anywhere in its handler.  (Between two jobs it has written
\* nothing: its housekeeping starts again.)
Die(w) ==
    /\ step[w] # "idle"
    /\ Crash(w)
    /\ ChargeIfReading(w)
    /\ abandoned' = IF step[w] \in Afterwards /\ rstatus[target[w]] = "extracting"
                    THEN abandoned \union {target[w]}
                    ELSE abandoned
    /\ GoTo(w, "idle")
    /\ UNCHANGED <<payload, rstatus, lines, total, observed, target, form, spent, bugs>>

\* housekeeping()
Housekeep(w) ==
    /\ step[w] = "idle"
    /\ RecoverStuck(w)
    /\ UNCHANGED receiptVars

ClockTick == Tick /\ UNCHANGED receiptVars

\* Every receipt is deleted or saved for good, every job settled.
AtRest ==
    /\ \A r \in Receipts : ~Present(r)
    /\ \A j \in Jobs : status[j] = "absent" \/ Settled(j)
    /\ UNCHANGED vars

-----------------------------------------------------------------------------
WebNext ==
    \/ \E r \in Receipts : Upload(r) \/ QuickAdd(r) \/ DeleteReceipt(r)
    \/ \E f \in Forms, r \in Receipts : OpenRetry(f, r) \/ OpenConfirm(f, r)
    \/ \E f \in Forms : SaveRetry(f) \/ SaveConfirm(f) \/ DropForm(f)

HandlerStep(w) ==
    \/ NoReader(w)
    \/ Load(w)
    \/ Refuse(w)
    \/ Accept(w)
    \/ Unreadable(w)
    \/ Transient(w)
    \/ AfterTransient(w)
    \/ RowGone(w)
    \/ Bug(w)
    \/ Finish(w)
    \/ GiveUp(w)
    \/ Close(w)

WorkerNext(w) ==
    \/ StartJob(w)
    \/ HandlerStep(w)
    \/ Die(w)
    \/ Housekeep(w)

Next ==
    \/ WebNext
    \/ \E w \in Workers : WorkerNext(w)
    \/ ClockTick
    \/ AtRest

Spec == Init /\ [][Next]_vars

\* The worker loop and the clock keep running; users owe nothing.
Fairness ==
    /\ WF_vars(ClockTick)
    /\ \A w \in Workers :
        WF_vars(StartJob(w)) /\ WF_vars(HandlerStep(w)) /\ WF_vars(Housekeep(w))

FairSpec == Spec /\ Fairness

-----------------------------------------------------------------------------
OpenForms == [kind : {"retry", "confirm"},
              receipt : Receipts,
              was : RStatuses,
              seen : SUBSET Batches]

\* Every variable keeps its type; a worker in its handler has a receipt.
PipelineTypeOK ==
    /\ JobTypeOK
    /\ payload \in [Jobs -> Receipts \union {NoReceipt}]
    /\ rstatus \in [Receipts -> RStatuses]
    /\ lines \in [Receipts -> SUBSET Batches]
    /\ total \in [Receipts -> Batches \union {NoBatch}]
    /\ observed \in [Receipts -> SUBSET Batches]
    /\ step \in [Workers -> Steps]
    /\ target \in [Workers -> Receipts \union {NoReceipt}]
    /\ \A w \in Workers : step[w] # "idle" => target[w] \in Receipts
    /\ form \in [Forms -> OpenForms \union {NoForm}]
    /\ spent \in Nat /\ billed \in Nat /\ bugs \in Nat
    /\ abandoned \in SUBSET Receipts

\* What the user has confirmed is never taken away by the worker or by a
\* second job: a confirmed receipt stays confirmed until it is deleted.
ConfirmedStays ==
    [][\A r \in Receipts :
        rstatus[r] = "confirmed" => rstatus'[r] \in {"confirmed", "deleted"}]_vars

\* validation.py:3-4: "the receipt total must equal the plain sum of all
\* lines".  A saved receipt holds the lines and the total of one submission.
TotalMatchesLines ==
    \A r \in Receipts :
        rstatus[r] \in {"needs_review", "confirmed"} => lines[r] = {total[r]}

\* Prices are only ever observed on what the user confirmed, and on all of
\* it: the observations of a receipt come from its saved lines.
ObservationsMatchLines ==
    \A r \in Receipts :
        observed[r] = IF rstatus[r] = "confirmed" THEN lines[r] ELSE {}

\* budget.py:35, "hard stop at 100%": one worker checks before each reading,
\* so the logged spend passes the cap by less than one reading, whatever is
\* retried, crashes or is queued twice.
BudgetHolds == spent < Budget + MaxCost

HasWork(r) ==
    \/ \E j \in Jobs : payload[j] = r /\ status[j] \in {"queued", "running"}
    \/ \E w \in Workers : step[w] \in Afterwards /\ target[w] = r

\* A receipt shown as "Reading..." is really going to be read, or the worker
\* is about to fail it: a job is waiting or running for it.  The one way to
\* lose it is a crash between queue.fail() and _fail_receipt().
ReadingHasWork ==
    \A r \in Receipts : rstatus[r] = "extracting" => HasWork(r) \/ r \in abandoned

\* No reading is paid for a receipt that already has its answer: a job that
\* is run again after a crash, or a second job of a double retry, does not
\* call the reader.
PaidOnlyWhenNeeded ==
    [][billed' > billed =>
        \E w \in Workers :
            step[w] = "reading" /\ rstatus[target[w]] \in {"extracting", "deleted"}]_vars

\* Reading ends: with a finite number of crashes and bugs every receipt
\* leaves "extracting", unless a crash hit the one gap ReadingHasWork names.
ReadingEnds ==
    \A r \in Receipts :
        rstatus[r] = "extracting" ~> rstatus[r] # "extracting" \/ r \in abandoned
=============================================================================
