-------------------------- MODULE CapturePipeline --------------------------
(***************************************************************************)
(* The life of a shelf capture: the web handlers that create, retry,       *)
(* confirm and delete it (capture/routes.py, capture/service.py), the      *)
(* price observation it leaves (prices/observations.py), and the worker    *)
(* that reads the label (jobs/handlers.py) through the job queue.          *)
(*                                                                         *)
(* One price stands for every column a form shows and submits.  A session  *)
(* writes a column only if its value differs from the one it loaded, so a  *)
(* form that submits what it had read leaves what another has written.     *)
(*                                                                         *)
(* A transaction that holds the lock of the capture's row while it goes on *)
(* is split in two, since the observations are other rows, found by the    *)
(* capture's id and tied to it by no key.                                  *)
(***************************************************************************)
EXTENDS JobQueue

CONSTANTS
    Captures,    \* capture ids
    Forms,       \* browser requests that can be open at the same time
    NoCapture,
    Prices,      \* what a label or a form can say
    NoPrice,     \* None
    MaxBugs      \* bound: handler exceptions outside the modelled paths

ASSUME CaptureAssumption ==
    /\ NoCapture \notin Captures
    /\ NoPrice \notin Prices
    /\ MaxBugs \in Nat

VARIABLES
    payload,    \* Job.payload["capture_id"]
    cstatus,    \* ShelfCapture.status; "absent" before the insert, "deleted" after
    price,      \* ShelfCapture.price_cents
    observed,   \* its price observations: how many rows, and the latest price
    step,       \* how far each worker is in its handler
    target,     \* the capture each worker is handling
    form,       \* what each open request has loaded, and submits
    bugs,       \* history: unexpected handler exceptions
    abandoned,  \* history: captures whose failure a crash left unwritten
    overlooked  \* history: captures whose last confirmation submitted the
                \* price it had read, after the row had moved on

priceVars == <<price, observed, overlooked>>
workVars == <<step, target>>
captureVars == <<payload, cstatus, priceVars, workVars, form, bugs, abandoned>>
vars == <<jobVars, captureVars>>

CStatuses == {"absent", "extracting", "needs_review", "failed", "confirmed", "deleted"}
Steps == {"idle", "claimed", "refusing", "reading", "naming", "retry", "settle",
          "closing", "givingup"}
Afterwards == {"closing", "givingup"}   \* the job is failed, the capture not yet
Shown == Prices \union {NoPrice}
Observed(n, p) == [rows |-> n, price |-> IF n = 0 THEN NoPrice ELSE p]

\* A request: what it does to which capture, whether it found it confirmed,
\* the price it read, and how many observations it has found.
Page(kind, c, again, read, seen) ==
    [kind |-> kind, capture |-> c, again |-> again, read |-> read, seen |-> seen]
NoForm == Page("none", NoCapture, FALSE, NoPrice, 0)
Present(c) == cstatus[c] \notin {"absent", "deleted"}

\* The flushed update of a confirmation holds the row until its commit.
Locked(c) == \E f \in Forms : form[f].kind = "saving" /\ form[f].capture = c
\* A deletion holds the observations it has deleted until its commit.
ObservationsLocked(c) ==
    \E f \in Forms : form[f].kind = "delete" /\ form[f].capture = c /\ form[f].seen > 0

Init ==
    /\ JobInit
    /\ payload = [j \in Jobs |-> NoCapture]
    /\ cstatus = [c \in Captures |-> "absent"]
    /\ price = [c \in Captures |-> NoPrice]
    /\ observed = [c \in Captures |-> Observed(0, NoPrice)]
    /\ step = [w \in Workers |-> "idle"]
    /\ target = [w \in Workers |-> NoCapture]
    /\ form = [f \in Forms |-> NoForm]
    /\ bugs = 0
    /\ abandoned = {}
    /\ overlooked = {}

SetStatus(c, s) == cstatus' = [cstatus EXCEPT ![c] = s]

-----------------------------------------------------------------------------
(* The web handlers *)

NoNewJob(c) == UNCHANGED <<jobVars, payload>>             \* mutant: enqueue forgotten

\* enqueue(db, "process_capture", {"capture_id": ...})
NewJob(c) ==
    \E j \in Jobs :
        /\ Enqueue(j)
        /\ payload' = [payload EXCEPT ![j] = c]

\* create_capture(): what Outbox calls Insert, with the job in the same commit.
Create(c) ==
    /\ cstatus[c] = "absent"
    /\ SetStatus(c, "extracting")
    /\ NewJob(c)
    /\ UNCHANGED <<priceVars, workVars, form, bugs, abandoned>>

Open(f, page) ==
    /\ form[f] = NoForm
    /\ form' = [form EXCEPT ![f] = page]
Closed(f) == [form EXCEPT ![f] = NoForm]

\* retry(): the row is loaded and found failed ...
OpenRetry(f, c) ==
    /\ cstatus[c] = "failed"
    /\ Open(f, Page("retry", c, FALSE, NoPrice, 0))
    /\ UNCHANGED <<jobVars, payload, cstatus, priceVars, workVars, bugs, abandoned>>

\* ... and updated by its primary key, whatever it says by now.
SaveRetry(f) ==
    LET c == form[f].capture IN
    /\ form[f].kind = "retry"
    /\ Present(c) /\ ~Locked(c)
    /\ SetStatus(c, "extracting")
    /\ NewJob(c)
    /\ form' = Closed(f)
    /\ UNCHANGED <<priceVars, workVars, bugs, abandoned>>

\* confirm(): the status check, then `await request.form()`.
OpenConfirm(f, c) ==
    /\ cstatus[c] \in {"needs_review", "failed", "confirmed"}
    /\ Open(f, Page("confirm", c, cstatus[c] = "confirmed", price[c], 0))
    /\ UNCHANGED <<jobVars, payload, cstatus, priceVars, workVars, bugs, abandoned>>

LocksNothing(c) == TRUE                                   \* mutant: no db.flush()
TakesLock(c) == ~Locked(c)

\* confirm_capture() up to the DELETE of record_shelf(): the flush updates the
\* row and so waits for another confirmation; the DELETE then finds what that
\* one inserted, and waits for a deletion that took the observations first.
FlushConfirm(f) ==
    LET c == form[f].capture IN
    /\ form[f].kind = "confirm"
    /\ Present(c)
    /\ TakesLock(c)
    /\ ~ObservationsLocked(c)
    /\ form' = [form EXCEPT ![f].kind = "saving", ![f].seen = observed[c].rows]
    /\ UNCHANGED <<jobVars, payload, cstatus, priceVars, workVars, bugs, abandoned>>

RecordedOnce(f, p) ==                                     \* mutant: get or create
    IF observed[form[f].capture].rows = 0 THEN Observed(1, p)
                                          ELSE observed[form[f].capture]
\* record_shelf(): the observations it found go, one is inserted at the price
\* of the session's object.
Recorded(f, p) == Observed(observed[form[f].capture].rows - form[f].seen + 1, p)

\* The commit of confirm_capture().  A column the form sets to what was loaded
\* has not changed for the session and is not written: the price submitted
\* again, or the status of a capture that was confirmed.  A deletion that
\* waits for the observations finds them gone.
SaveConfirm(f) ==
    LET c == form[f].capture
        Shows(p) == IF p = form[f].read THEN price[c] ELSE p
    IN
    /\ form[f].kind = "saving"
    /\ \E p \in Prices :
        /\ price' = [price EXCEPT ![c] = Shows(p)]
        /\ observed' = [observed EXCEPT ![c] = Recorded(f, p)]
        /\ overlooked' = IF Shows(p) # p THEN overlooked \union {c} ELSE overlooked \ {c}
    /\ SetStatus(c, IF form[f].again THEN cstatus[c] ELSE "confirmed")
    /\ form' = [g \in Forms |-> IF g = f THEN NoForm
                    ELSE IF form[g].capture = c THEN [form[g] EXCEPT !.seen = 0] ELSE form[g]]
    /\ UNCHANGED <<jobVars, payload, workVars, bugs, abandoned>>

\* delete_capture(), in any status: the observations it finds ...
OpenDelete(f, c) ==
    /\ Present(c)
    /\ ~ObservationsLocked(c)
    /\ Open(f, Page("delete", c, FALSE, NoPrice, observed[c].rows))
    /\ UNCHANGED <<jobVars, payload, cstatus, priceVars, workVars, bugs, abandoned>>

\* ... go with the row, once no confirmation holds it.
SaveDelete(f) ==
    LET c == form[f].capture IN
    /\ form[f].kind = "delete"
    /\ Present(c) /\ ~Locked(c)
    /\ SetStatus(c, "deleted")
    /\ price' = [price EXCEPT ![c] = NoPrice]
    /\ observed' = [observed EXCEPT ![c] = Observed(@.rows - form[f].seen, @.price)]
    /\ form' = Closed(f)
    /\ UNCHANGED <<jobVars, payload, workVars, bugs, abandoned, overlooked>>

\* The request ends without a commit: errors in the form (422), a row that is
\* gone (StaleDataError), a deadlock the database breaks, a restart.
DropForm(f) ==
    /\ form[f] # NoForm
    /\ form' = Closed(f)
    /\ UNCHANGED <<jobVars, payload, cstatus, priceVars, workVars, bugs, abandoned>>

-----------------------------------------------------------------------------
(* The worker: process_one() and _process_capture() *)

GoTo(w, s) == step' = [step EXCEPT ![w] = s]

StartJob(w) ==
    /\ step[w] = "idle"
    /\ Claim(w)
    /\ GoTo(w, "claimed")
    /\ target' = [target EXCEPT ![w] = payload[lease'[w].job]]
    /\ UNCHANGED <<payload, cstatus, priceVars, form, bugs, abandoned>>

FailNothing(c) == cstatus                             \* mutant: _fail_capture forgotten
\* _fail_capture(): only a capture that is still being read fails.
FailCapture(c) ==
    IF cstatus[c] = "extracting" THEN [cstatus EXCEPT ![c] = "failed"] ELSE cstatus

\* ReaderUnavailable: no API key is set.
NoReader(w) ==
    /\ step[w] = "claimed"
    /\ ~Locked(target[w])
    /\ cstatus' = FailCapture(target[w])
    /\ GoTo(w, "settle")
    /\ UNCHANGED <<jobVars, payload, priceVars, target, form, bugs, abandoned>>

WantsReading(c) == cstatus[c] = "extracting"

\* The head of run_capture(): nothing to do, a refusal (the budget, or no
\* photo), or a call of the reader, after the look-up of a known barcode.
Load(w) ==
    /\ step[w] = "claimed"
    /\ IF WantsReading(target[w]) THEN GoTo(w, "refusing") \/ GoTo(w, "reading")
                                  ELSE GoTo(w, "settle")
    /\ UNCHANGED <<jobVars, payload, cstatus, priceVars, target, form, bugs, abandoned>>

\* _fail(): the budget is exhausted or no photo is left, or the answer is of
\* no use.
Refuse(w) ==
    /\ step[w] \in {"refusing", "reading"}
    /\ Present(target[w]) /\ ~Locked(target[w])
    /\ SetStatus(target[w], "failed")
    /\ GoTo(w, "settle")
    /\ UNCHANGED <<jobVars, payload, priceVars, target, form, bugs, abandoned>>

\* _apply(), no barcode was scanned and the label shows one: the look-up it
\* makes commits the extraction and the barcode ahead of the rest.
NameIt(w) ==
    /\ step[w] = "reading"
    /\ Present(target[w]) /\ ~Locked(target[w])
    /\ GoTo(w, "naming")
    /\ UNCHANGED <<jobVars, payload, cstatus, priceVars, target, form, bugs, abandoned>>

\* _apply() and the commit of run_capture(): the price on the label, or none;
\* a label that repeats what was loaded leaves the price there is.
Accept(w) ==
    LET c == target[w] IN
    /\ step[w] \in {"reading", "naming"}
    /\ Present(c) /\ ~Locked(c)
    /\ \E p \in Shown : price' = [price EXCEPT ![c] = p]
    /\ SetStatus(c, "needs_review")
    /\ GoTo(w, "settle")
    /\ UNCHANGED <<jobVars, payload, observed, overlooked, target, form, bugs, abandoned>>

\* No answer: the commit writes an extraction and no capture.
Transient(w) ==
    /\ step[w] = "reading"
    /\ GoTo(w, "retry")
    /\ UNCHANGED <<jobVars, payload, cstatus, priceVars, target, form, bugs, abandoned>>

\* except ExtractionRetry
AfterTransient(w) ==
    /\ step[w] = "retry"
    /\ \/ FailRetry(w) /\ GoTo(w, "idle")
       \/ ~AttemptsRemain(w) /\ FailFinal(w) /\ GoTo(w, "givingup")
    /\ UNCHANGED <<payload, cstatus, priceVars, target, form, bugs, abandoned>>

Finish(w) ==
    /\ step[w] = "settle"
    /\ Complete(w)
    /\ GoTo(w, "idle")
    /\ UNCHANGED <<payload, cstatus, priceVars, target, form, bugs, abandoned>>

FailJob(w) ==
    /\ FailFinal(w)
    /\ GoTo(w, "closing")
    /\ UNCHANGED <<payload, cstatus, priceVars, target, form, abandoned>>

\* The capture was deleted under the handler: its update matches no row.
RowGone(w) ==
    /\ step[w] \in {"refusing", "reading", "naming"}
    /\ ~Present(target[w])
    /\ FailJob(w)
    /\ UNCHANGED bugs

\* Any other exception in the handler, the one of a look-up included.
Bug(w) ==
    /\ bugs < MaxBugs
    /\ step[w] \notin {"idle"} \union Afterwards
    /\ bugs' = bugs + 1
    /\ FailJob(w)

\* _fail_capture() after the last ExtractionRetry, whose traceback keeps the
\* capture in the session as it was loaded.
GiveUp(w) ==
    LET c == target[w] IN
    /\ step[w] = "givingup"
    /\ ~Locked(c)
    /\ cstatus' = IF Present(c) THEN [cstatus EXCEPT ![c] = "failed"] ELSE cstatus
    /\ GoTo(w, "idle")
    /\ UNCHANGED <<jobVars, payload, priceVars, target, form, bugs, abandoned>>

\* _fail_capture() in process_one(), on a capture loaded afresh.
Close(w) ==
    /\ step[w] = "closing"
    /\ ~Locked(target[w])
    /\ cstatus' = FailCapture(target[w])
    /\ GoTo(w, "idle")
    /\ UNCHANGED <<jobVars, payload, priceVars, target, form, bugs, abandoned>>

\* (Between two jobs it has written nothing: its housekeeping starts again.)
Die(w) ==
    /\ step[w] # "idle"
    /\ Crash(w)
    /\ abandoned' = IF step[w] \in Afterwards /\ cstatus[target[w]] = "extracting"
                    THEN abandoned \union {target[w]}
                    ELSE abandoned
    /\ GoTo(w, "idle")
    /\ UNCHANGED <<payload, cstatus, priceVars, target, form, bugs>>

Housekeep(w) ==
    /\ step[w] = "idle"
    /\ RecoverStuck(w)
    /\ UNCHANGED captureVars

ClockTick == Tick /\ UNCHANGED captureVars

\* Every capture is deleted or waits for the user, every job is settled.
AtRest ==
    /\ \A c \in Captures : cstatus[c] # "extracting" \/ c \in abandoned
    /\ \A j \in Jobs : status[j] = "absent" \/ Settled(j)
    /\ UNCHANGED vars

-----------------------------------------------------------------------------
WebNext ==
    \/ \E c \in Captures : Create(c)
    \/ \E f \in Forms, c \in Captures : OpenRetry(f, c) \/ OpenConfirm(f, c) \/ OpenDelete(f, c)
    \/ \E f \in Forms : SaveRetry(f) \/ FlushConfirm(f) \/ SaveConfirm(f) \/ SaveDelete(f)
                        \/ DropForm(f)

HandlerStep(w) ==
    \/ NoReader(w) \/ Load(w) \/ Refuse(w) \/ NameIt(w) \/ Accept(w)
    \/ Transient(w) \/ AfterTransient(w) \/ RowGone(w) \/ Bug(w)
    \/ Finish(w) \/ GiveUp(w) \/ Close(w)

WorkerNext(w) == StartJob(w) \/ HandlerStep(w) \/ Die(w) \/ Housekeep(w)

Next ==
    \/ WebNext
    \/ \E w \in Workers : WorkerNext(w)
    \/ ClockTick
    \/ AtRest

Spec == Init /\ [][Next]_vars

\* The worker loop and the clock keep running, and a transaction that holds
\* the row ends; the database serves those that wait for a row in turn, so the
\* handler is not passed over for ever (SF).  Users owe nothing.
Fairness ==
    /\ WF_vars(ClockTick)
    /\ \A f \in Forms : WF_vars(SaveConfirm(f))
    /\ \A w \in Workers :
        WF_vars(StartJob(w)) /\ SF_vars(HandlerStep(w)) /\ WF_vars(Housekeep(w))

FairSpec == Spec /\ Fairness

-----------------------------------------------------------------------------
OpenForms == [kind : {"retry", "confirm", "saving", "delete"},
              capture : Captures,
              again : BOOLEAN,
              read : Shown,
              seen : Nat]

\* Every variable keeps its type; a worker in its handler has a capture.
CaptureTypeOK ==
    /\ JobTypeOK
    /\ payload \in [Jobs -> Captures \union {NoCapture}]
    /\ cstatus \in [Captures -> CStatuses]
    /\ price \in [Captures -> Shown]
    /\ observed \in [Captures -> [rows : Nat, price : Shown]]
    /\ step \in [Workers -> Steps]
    /\ target \in [Workers -> Captures \union {NoCapture}]
    /\ \A w \in Workers : step[w] # "idle" => target[w] \in Captures
    /\ form \in [Forms -> OpenForms \union {NoForm}]
    /\ bugs \in Nat
    /\ abandoned \in SUBSET Captures
    /\ overlooked \in SUBSET Captures

\* However many confirmations, retries, readings and deletions meet, one
\* capture is one price: record_shelf() finds the observation of a
\* confirmation that was quicker.
OnePriceEach == \A c \in Captures : observed[c].rows <= 1

\* The price observed of a confirmed capture is the one its row shows, unless
\* its last confirmation submitted again what it had read and the row has
\* moved on since: the page, the feedback and the shopping advice tell one
\* story in every other case.
PriceIsConfirmed ==
    \A c \in Captures :
        cstatus[c] = "confirmed" =>
            observed[c].rows > 0 /\ (observed[c].price = price[c] \/ c \in overlooked)

HasWork(c) ==
    \/ \E j \in Jobs : payload[j] = c /\ status[j] \in {"queued", "running"}
    \/ \E w \in Workers : step[w] \in Afterwards /\ target[w] = c

\* A capture that is being read has a job, or the worker is about to fail it;
\* only a crash between queue.fail() and _fail_capture() loses it.
CaptureHasWork ==
    \A c \in Captures : cstatus[c] = "extracting" => HasWork(c) \/ c \in abandoned

\* With finitely many crashes and bugs a reading ends, the one gap aside.
CaptureReadingEnds ==
    \A c \in Captures :
        cstatus[c] = "extracting" ~> cstatus[c] # "extracting" \/ c \in abandoned
=============================================================================
