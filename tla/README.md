# Grocery-agent: a verification project

TLA+ models of the parts of Grocery-agent where several processes write the same rows, the TLC runs that check them,
and TLAPS proofs of what matters most. Paths below are relative to the repository (`src/` here), and `grocery/` stands
for `src/grocery/`.

    tlc -workers 2 -config queue_two_workers.cfg MCJobQueue     # a run; PROJECT.json lists them all
    tlapm JobQueueProofs.tla                                    # the proofs about a component

## 1. The system

A FastAPI web application and one worker process share a Postgres database (READ COMMITTED, one SQLAlchemy session per
request or per job, `expire_on_commit=False`); a phone keeps photos of shelf labels in an outbox until the server has
them. There is no queue server: jobs are rows. `docker-compose.yml` runs one worker and restarts it when it dies.

| Component | State | Operations | Correct when |
|---|---|---|---|
| Job queue, `grocery/jobs/queue.py` | `jobs` rows: status, attempts, run_after | enqueue, claim_next, complete, fail, recover_stuck | one executor per job but for overtaken recoveries, bounded starts, every job settled |
| Worker, `grocery/jobs/worker.py`, `handlers.py` | the job in hand, its session | process_one, five handlers, housekeeping | a bug or a crash leaves nothing stuck |
| Receipts, `grocery/receipts/` | `receipts`, `receipt_lines` | upload, read, retry, confirm, quick add, delete | lines, total and observations agree; what is confirmed stays |
| Reader and budget, `grocery/llm/` | `extractions` (cost per call) | read, month_spend_eur, budget_state | every call logged, the cap respected |
| Price observations, `grocery/prices/` | `price_observations` | record_receipt, record_shelf, delete | made from what the user saved, once |
| Shopping list, `grocery/shopping/` | `shopping_list_items`, the Home Assistant sensor | add, toggle, remove, clear, sync | the sensor follows the list |
| Shelf captures, `grocery/capture/` | `shelf_captures` | create, read, confirm, retry, delete | as receipts, plus one capture per client_uuid |
| Phone outbox, `grocery/web/static/js/outbox.js` | IndexedDB records | add, flush, retry, remove | each photo arrives, once |
| Photos, `grocery/uploads/storage.py` | `files` rows and the disk | save, purge, schedule_deletion, remove | no file without a row, no unconfirmed photo lost early |
| Deals radar, `grocery/deals/` | `deal_runs`, `deals`, `deal_rules` | refresh in chunks, evaluate, dismiss, alert | a run ends complete, what is shown follows the rules, told once |
| Cupboard, `grocery/cupboard/`, `products/off.py` | `cupboard_items`, `cupboard_scans`, `product_eans` | scan, look up, name, discard | no barcode stuck in "lookup" |
| Login, `grocery/security/` | `auth_events`, `auth_sessions` | login, lockout, session expiry | overlapping logins gain little on the throttle, a device in use stays signed in |
| Analytics, money, validation | none (pure) | cycles, totals, rounding | each day in one cycle, sums to the cent |

How they interact: web handlers change rows and insert jobs in the same transaction (receipts, captures) or in a second
one (shopping list, cupboard); the worker claims a job in one transaction, runs its handler in others, and settles the job
in a last one. Nothing else synchronises the processes: no handler locks the row of its subject, and updates go by primary
key with the columns the session saw change. A row deleted meanwhile surfaces as a `StaleDataError` at the flush.

What is hard here, listed line by line under `hazards` in `PROJECT.json`: the gap between a handler's commit and the
job's, worker crashes at every one of these gaps, recovery by age alone, rows read before an `await` or a minutes-long
API call and written after it, two tabs, uploads sent again when their answer was lost, images that no transaction covers,
logins that overlap while a password is verified, and post-and-forget calls to Home Assistant.

## 2. The modules

| Module | Models | Extends |
|---|---|---|
| `JobLedger` | the queue's promise: who may hold a job, how often, until when | - |
| `JobQueue` | `jobs/queue.py` and the worker loop; implements `JobLedger` | - |
| `ReceiptPipeline` | receipts, reader, budget, the `extract_receipt` handler | `JobQueue` |
| `CapturePipeline` | shelf captures, the `process_capture` handler | `JobQueue` |
| `CaptureDelivery` | the promise of phone and server about a capture | - |
| `Outbox` | the phone's outbox and the server's end of an upload; implements `CaptureDelivery` | - |
| `PhotoRetention` | images on disk, `files` rows, the purge | - |
| `ShoppingSync` | list changes, `queue_ha_sync`, the `ha_shopping_sync` handler | `JobQueue` |
| `DealsRefresh` | who queues a refresh, its runs and chunks, the `deals_refresh` handler | `JobQueue` |
| `DealsRadar` | offers, rules, judgements, alerts | - |
| `Cupboard` | scans, names, links, the `lookup_ean` handler and its cache | `JobQueue` |
| `Accounts` | the login throttle, sessions, the requests that use them | - |
| `Cycles` | the calendar of spending cycles, as functions | - |
| `Overview` | what the monthly pages add up, while days, receipts and the start day change | `Cycles` |
| `JobQueueProofs`, `ReceiptPipelineProofs`, `CaptureProofs`, `ShoppingSyncProofs`, `CupboardProofs` | theorems about the module they are named after | that module, and `JobQueueProofs` |
| `PhotoProofs` | theorems about `Outbox` and `PhotoRetention` | both |
| `DealsProofs` | theorems about `DealsRefresh` and `DealsRadar` | both, and `JobQueueProofs` |
| `WebProofs` | theorems about `Accounts`, `Cycles` and `Overview`; sums over finite sets | all three |
| `MC...` | finite instances for TLC | the model |

The modules compose through the job table: a pipeline's step is a queue step plus what its handler does in the same
transaction, and `PipelineRunsQueue` and `CapturesRunQueue` prove it for receipts and captures. `Outbox` stops where `CapturePipeline` begins (`Insert` and
`Create` are the same commit), `DealsRefresh` says when a refresh runs and `DealsRadar` what it does, `PhotoRetention` has
the images of both receipts and captures.

### JobQueue

One action is one committed transaction, but for `recover_stuck()`. `status`, `attempts` and `runAfter` are the columns of the row; `lease[w]` is the
worker's in-memory copy of the row it is executing (job, attempts, and the claim time that `process_one` hands down as
`now`). `complete` and `fail` write from that copy, as the code does, and look at nothing else. `Claim` is the `SELECT ...
FOR UPDATE SKIP LOCKED`, the update and the commit in one step, because the row lock is held throughout. `recover_stuck()`
locks nothing in its select, so it is two steps: `SelectStuck` keeps the rows it found and its `now` in `found[w]`, and
`RequeueStuck` writes them by primary key, whatever they say by then. The hourly timer of `housekeeping()` is replaced by
"whenever the worker is between two jobs", which allows more. `Crash` covers a kill, a lost database and an exception
outside `process_one`'s `try`.

`lost`, `undone` and `crashes` are history variables: `undone[j]` counts the updates of `recover_stuck()` that hit a row which was
no longer stuck. Time is an integer clock that advances only while a row waits for it. `JobLedger` knows such an update as a
*repeat*, at most one per crash and worker but the first; each gives the job one more holder and one more start. With one
worker there is none, and the ledger's promise is the plain one.

### ReceiptPipeline

A receipt's `rstatus` is `Receipt.status`, with "absent" and "deleted" around it. Its lines are the *batches* they were
written in (the reader's, a form's, quick add's): the properties ask whether rows of two submissions mix, not what the
lines say. `total` and `observed` name the batch the total column and the price observations come from. Two submissions
with equal totals are therefore told apart; the ORM would not write the column in that case, with the same value as result.

An action ends where the code commits or where it has read what it will rely on later:

- Web. `Upload`, `QuickAdd`, `DeleteReceipt` are one transaction each. `retry` and `confirm` are two actions, *Open* (the row
  and its status, then `await request.form()`) and *Save*, with the `form` record keeping what was loaded. `DropForm` is
  every end without a commit: 422, a stale row, a restart.
- Worker. `step[w]` is the place in the handler: claimed, refusing (budget or photos), reading (the API call), retry
  (`ExtractionRetry` raised), settle (before `queue.complete`), closing and givingup (the job failed, the receipt not yet).
  `closing` reads the receipt afresh after `process_one`'s rollback. `givingup` does not: the traceback of the
  `ExtractionRetry` keeps `run_extraction`'s receipt in the identity map, so `_fail_receipt` sees the status as loaded.
- `RowGone` is the `StaleDataError` of a receipt deleted under the handler, `Bug` any other exception, `Die` a crash.

Cost is counted twice: `spent` is the sum over `extractions`, which the budget looks at, `billed` what the API charged.
A call without an answer (connection error, 5xx) is taken to be free, as the code logs it.

### CapturePipeline

The same handler shape on `shelf_captures`. One price stands for all columns a form shows and submits: `price` is what the row
says, `observed` how many price observations there are and the price of the last. A session writes the columns that differ from
what it loaded, so the `form` record keeps the price it read, and `SaveConfirm` leaves the row alone when that price is submitted
again, while `record_shelf` takes the submitted one from the session's object (`Recorded`); the status is treated alike.
`overlooked` is a history variable, the captures whose last confirmation parted the two in this way. The observations are other rows, found by `capture_id` and tied to it by no foreign key with a
cascade, so a transaction that holds a row lock while it goes on is split: `FlushConfirm` (the flushed update takes the lock,
the DELETE of `record_shelf` has found what was there, the set `seen`) and `SaveConfirm` (the commit); `OpenDelete` and `SaveDelete` likewise.
`Locked` and `ObservationsLocked` are those locks: whoever wants the row waits. The observations are locked only where the DELETE
found one: a row that is not there cannot be locked. `NameIt` is the commit that the look-up of a
barcode on the label makes ahead of the rest of `_apply`.

### CaptureDelivery and Outbox

A capture is a number, in the order of `captured_at`, and stands for its `client_uuid`. `record` is the IndexedDB store (no
record, waiting, or with an error). A pass of `doFlush` is `page[p]`: the records read once at its start and not yet sent,
the one in hand, the call it awaits. `call[k]` is an upload at the server, which runs on when its page is closed or the
connection is lost (`BreakPass`); its steps are the look-up by id, the image, the insert with the unique constraint, and the
select after the rollback. `Poison` captures are answered 413 or 500 whenever they are tried.

`CaptureDelivery` knows neither pages nor calls: a copy leaves the phone, is filed unless one is there, and the phone lets
go only of what the server has had. The refinement maps the records to `held`, the calls under way to `moving`.

### PhotoRetention

`disk` and the rows of `files` are separate: `SaveImage` writes the image, `CommitUpload` the row; `OpenDelete` unlinks, its
commit follows; a purge selects rows, unlinks one by one and marks all in one commit. `adrift` is a history variable for
the two ways an image is left without a row. Time is counted in days.

### ShoppingSync

The list is the number of changes made, the sensor the number it shows, `names[w]` what the worker read. `queue_ha_sync`
is two actions (`Look`, `Ask`), after the commit of the change itself. `missed` is a history variable, emptied whenever the
worker reads the list.

### DealsRefresh and DealsRadar

`DealsRefresh`: a plan is a number of questions, `run[r]` its row with the cursor, `payload` the run a job carries or none. The first
job of a refresh makes the run, each later one goes on with it. The gaps of `ensure_refresh_queued` are compared with the
last run only and are kept as that run's `age`: "new" (the button's cooldown), "settled" (the nightly gap), "old". The look
for an open job and the insert are two steps, for the button and for housekeeping. `stranded` names the runs that a crash in
their first job, a bug, or the setting leaves running.

`DealsRadar`: an offer's `life` is its dates (current, ended, old enough to purge), `worth` what `judge` finds in the prices:
a free choice whenever the source answers. A judgement (`evaluate`) is three steps, rules read, offers read, differences
written, in the worker and in the requests that dismiss an offer or remove a rule; the offer a request was about is already
in its session as it was loaded. `clean` and `late` record whether anybody disturbed the last judgement.

### Cupboard

A request reads (`Open...`, the `form` record with the id of the row) and later commits; unique constraints and rows that are
gone make it fail. `scan[e]` is the row of a barcode with its id, since a barcode discarded and scanned again is another row
to the ORM. `fetched` and `misses` count what went to Open Food Facts and what was of no use, was lost or expired. The cupboard's
own rows (`items`, `heavy`) are there so that every request does all it does; no property is about them.

### Accounts

`failures` is the `login_fail` events in the order of their time stamps, `reset[u]` the length of that log at the user's last
`login_ok` or unlock. A login reads the log (`Submit`), verifies the password, and writes the outcome (`Reject`, `Accept`): the
handlers run in a thread pool, several between the two. The look-up of a session and the touch or deletion that follows from it
(`LookUp`) are one step, though other requests may come between them. `session` keeps every row ever made, `used` being the last successful
look-up, which `last_seen` follows at a distance. A password or a token is only its outcome.

### Cycles and Overview

A date is a month counted from year 0 and a day. `Cycles` has `days_in_month`, `cycle_start`, `cycle_bounds`,
`current_cycle_anchor` and the lengths as functions of a start day; `Overview` has the sums of `summarize_month` on receipts
with integer cents, the receipts `load_receipts` loads, and the series of the trend.

## 3. What is checked

| Run | Instance | Shows |
|---|---|---|
| `queue_two_workers` | 2 jobs, 2 workers that may overtake each other in `recover_stuck`, 2 crashes, handlers younger than STUCK_AFTER | types, one executor per job and one more per overtaken recovery, bounded starts, `JobQueue` implements `JobLedger`, every job is settled |
| `receipts_one_tab` | 1 receipt, 1 request, 2 jobs, a crash, a bug | lines, total and observations agree; confirmations final; no reading paid for twice; the cap passed by less than one reading; a receipt leaves "extracting" |
| `receipts_double_confirm` | 2 requests | **violation**: two sets of lines under one total |
| `captures_two_tabs` | 1 capture, 2 requests, 2 jobs, a crash, a bug | a capture is at most one price, the one its row shows but for one named cause; it has work while it is read, and leaves that state |
| `outbox_two_pages` | 2 captures, one never accepted, 2 pages, 2 uploads, 2 faults | no capture is lost; `Outbox` implements `CaptureDelivery`; what does not wait behind the unacceptable arrives |
| `photos_purged` | 2 photos, 4 days, 2 faults | tombstones are true; images without a row have one of two causes; what is due is purged |
| `sync_two_tabs` | 3 changes, 3 jobs, 2 tabs, 2 crashes, a failed post | a stale sensor has one of three causes; a queued sync is pushed |
| `refresh_two_runs` | 2 runs of up to 2 chunks, a button, a crash, a bug, the setting flipped | an "ok" run asked everything; a run has work; what is over stays over; a refresh always comes back |
| `radar_one_offer` | 1 offer, the worker and a request, 2 rule changes, a fault | an undisturbed judgement is right; announced once and once more per lost mark; announced in the end |
| `cupboard_two_tabs` | 1 barcode, 2 rows of it, 2 requests, a miss, a crash, a bug | a barcode in look-up has work; sent once; kept until named or discarded |
| `accounts_two_requests` | 2 requests, a user, 2 sessions, 5 units of time | failures are spaced by the throttle, up to the number of requests; the global cap likewise; devices stay signed in |
| `overview_leap_year` | 80 days over a leap February, 5 awkward receipts, 4 start days | food and the rest, categories, stores each make up the total; every day and receipt in one cycle |

Every property of a passing run has a mutant under `mutants` in `PROJECT.json`: the same model with one plausible bug, in
which TLC finds that property violated. Mutated definitions sit beside the real ones, marked `\* mutant`.

**Bounds.** In `queue_two_workers` waits keep the order of the real ones (backoff < STUCK_AFTER); in the runs of the modules above it
both are 1, where a row is due or stuck after one tick and nothing depends on which comes first. There is one worker in these, so
that a handler may last as long as it likes (MaxRun 100, which is never reached); in `captures_two_tabs` MaxRun is 0, the clock
standing still while a handler runs: no request and no handler looks at the time, and a lone worker's row is judged stuck only after its
crash. MaxAttempts is 3 as in the code for the queue, 2
for the modules above it, so that first, last and surplus attempts all occur. One receipt, capture or barcode suffices in
its pipeline: what two of them share is the worker, the budget and the queue, and a second job of one competes for these as
another's would; where there are proofs, they hold for any number. Two jobs are a first reading and a retry; three in
`sync_two_tabs`, one per change. Two captures in the outbox are one that is stuck and one before it or behind it. Runs of 0, 1 and 2 chunks are a plan that is empty,
that ends in its first job, and that is carried on. Two rule changes are a rule made and removed, or two kinds. Two overlapping requests against
2 free failures and a global limit of 2 let the second login pass on a stale count in every order; a session of 3 idle and 4 absolute units with a touch interval
of 1 ends in each of its ways. With MaxCost 2 a reading may overrun the cap by more than the least unit. Where a bound on jobs, rows or
sessions runs out, the handlers that would insert one are disabled: it cuts behaviours short and adds none.
Symmetry (requests in `cupboard_two_tabs` and `accounts_two_requests`) is used for invariants only.

**Fairness.** Weak fairness of the clock, of `claim_next`, of the handler (it ends one way or another: the API client
has a timeout) and of housekeeping: the `while` loop of `worker.run` under `restart: unless-stopped`. In `CapturePipeline` a
confirmation that holds the row ends, and the handler waiting for that row is not overtaken for ever (strong fairness):
Postgres serves those who wait for a row in turn. Pages of the outbox run on while they are open, and the app is opened again while something waits. Requests that have begun run on in
ShoppingSync and DealsRadar. Users owe nothing: no retry, confirm, delete or button is assumed. Crashes, bugs, failures and
faults are finite in number; with endless crashes nothing would ever end. Cupboard, Accounts and Overview state safety only.

**Types.** Each module states one type invariant (Overview's is in `WebProofs`). Those of the queue and of the receipts are part of
a run; all of them are proved (section 4).

**Deadlock** is checked in every run; `Rest` and `AtRest` name the states in which a system may stop.

### Where code and documentation disagree

One disagreement is a run, `receipts_double_confirm`. Modelling the code showed these too; each is a behaviour of the
models above, and the properties are stated so as to say exactly what is left:

- *Overtaken recovery* (`jobs/queue.py:68`): the rows are selected without a lock and updated later, so with two workers a job that the other
  has requeued and claimed, or settled, meanwhile is queued again: executed twice, or once more after its end. `:66`:
  "Jobs left 'running' by a crashed worker go back to the queue". Hence `undone` in `SingleExecutor` and the factor in
  `StartsBounded`. The deployed single worker is not affected (`SoleInvariant`).
- *Backoff* (`jobs/queue.py:56`): the delay of a retry counts from the claim, not from the failure, so after a slow attempt it is
  over at once. `:12` calls it the "wait before attempt 2 and 3".
- *Stranded readings* (`jobs/handlers.py:57`, also `:77` for captures and `:158` for barcodes): a crash between `queue.fail` and the
  row's own failure leaves a receipt in "extracting" with no job (`abandoned`). README.md:294 gives two other reasons for that
  state, neither of which is at work then.
- *Unlogged readings* (`receipts/service.py:200`): a receipt deleted under the reader takes the record of a paid call along in the
  rollback. README.md:106: "every reading logs its tokens and an estimated cost".
- *Missed sync* (`shopping/service.py:189`): a running sync counts as queued, though it may have read the list already.
  README.md:220: "Whenever the shopping list changes". `missed` names this cause.
- *Blocked outbox* (`outbox.js:89`): a pass stops at any answer but 2xx and 400, so an upload always answered 413 or 500 stands before
  all younger ones, for ever. README.md:131: "They upload by themselves". Hence the condition in `EveryCaptureArrives`.
- *Orphan images* (`capture/service.py:92`): the loser of two inserts has written its image and rolls the row back; nothing
  removes it. README.md:104: photos are deleted after 7 or 30 days. Hence `adrift` in `DiskIsKnown`.
- *Photos gone early* (`uploads/storage.py:82`): a confirmation that moves the deadline after a purge has selected the row is not
  seen; the image goes that night. docs/PLAN.md:20: 7 days after the confirmation.
- *A price left behind* (`capture/service.py:350`): a deletion that has looked for observations waits for a confirmation holding the
  row, and then deletes the capture but not the new observation. tests/test_capture_service.py:383 has the case without the
  crossing. Hence `OnePriceEach` speaks of how many prices, and `PriceIsConfirmed` of confirmed captures.
- *A price left at another tab's* (`capture/service.py:311`): two tabs load 2.99, one saves 3.49, the other submits 2.99 again: no
  column has changed for its session, the row stays at 3.49, and `record_shelf` (`prices/observations.py:89`) observes 2.99.
  `:90` there: "The price that applies at the shelf". Hence `overlooked` in `PriceIsConfirmed`.
- *Confirmed while it is read* (`capture/routes.py:178`, and for receipts): the status is checked before `await request.form()` and not
  again; `:179` refuses "This capture is still being read" on the old status. With two tabs a retry loaded earlier also
  reopens what has been confirmed since, which is why `ConfirmedStays` is about one request at a time.
- *Two refreshes* (`deals/service.py:129`): the button and housekeeping may both find no open job. `:126`: "unless one is queued".
  Also (`jobs/handlers.py:105`) a recovered first job starts a second run; docs/PLAN.md:218 speaks of 20 hours.
- *Told twice* (`deals/service.py:434`): posted, then marked; a fault in between announces the offer again. docs/PLAN.md:222: "alerted
  once". Hence the faults in `ToldOnceAndFaults`.
- *A dismissed offer announced* (`deals/service.py:321`): a rule committed after the refresh loaded the rules and before it
  writes its judgement is overruled and the offer may be announced. docs/PLAN.md:229: such rules "never alert". Hence `late` in `ShownIsRight`.
- *Signed out by each other*: two devices that press "sign out others" at once end both sessions; each request had
  been let in before the other's commit.

## 4. What is proved

The proofs hold for every value of the constants, from the assumption each module states about their kinds and from the
assumptions named here. Deployment has one worker, which is what most of the last ones say. Every invariant and every action
property of the runs, and both refinements, are proved.

*JobQueue*, any number of workers (`LeaseAssumption`, which every module that extends it shares: one worker, or no live handler
reaches STUCK_AFTER; nothing in the code enforces the second form of it). None of the bounds is inductive: they depend on recoveries
that are still to be written. `QueueInv` says of each worker that its copy is no newer than its row and no older than MaxRun (`CopyOK`), so
that a stuck row has lost its executor, and of each job three sums. `HoldersOK`: the executors are at most `undone`, and one more if the last
claim is still being executed. `StartsOK`: at the last attempt there is a start left for each executor that may hand the job
back, and one more if it is queued or orphaned. `RepeatsOK`: `undone` is at most (workers - 1) times the crashes survived,
the recoveries that were selected and not yet written included, since a row gets stuck anew only by another
crash. `ExclusiveExecution`, `BoundedStarts` and the refinement (`QueueImplementsLedger`, where `RequeueStuck` is a `Repeat`
of the rows that are no longer stuck) follow. `UndisturbedIsSole` is what is left without an overtaken recovery: the executor is alone and its
copy is the row.
`SoleInvariant` is the deployed case, one worker whose handlers may run for any time: no recovery is overtaken, and a row it takes for
stuck is one it has left itself.

*ReceiptPipeline.* `PipelineRunsQueue`: each step is a queue step or leaves the job table alone, so the queue's theorems carry over.
`PipeTypes` adds to the types that a worker holds a row exactly while in the handler proper (`StepsAgree`).

- `ReadingKeepsWork` (`ReadingHasWork`): not inductive, since a running job may be about to be marked done.
  `ReadingIsAttended` asks for a job still on its way to a reading, i.e. not the row of a worker in `settle`. No
  assumption on workers or tabs.
- `BudgetCap`, for one worker: `CheckedFirst`, the check still holds when the answer comes.
- `SavedReceiptsAreWhole`, `SavedPricesAreTheirs`, `ConfirmationIsFinal`, `NoReadingForNothing`, for one worker and one request
  at a time: `FormAgrees` (what an open request loaded is still so) and `HandlerAgrees` (the receipt in hand is still in
  reading, or deleted) protect each other: a request never has a receipt in reading open, and the worker writes no other.
  That both assumptions are needed, `receipts_double_confirm` shows for the lines.

*CapturePipeline*, any number of workers and tabs. `CaptureKeepsWork` is the argument of `ReadingKeepsWork`. `CaptureIsOnePrice` and
`ShownPriceIsObserved` share `PriceInv`: a row lock has one holder (`OneSaves`), and what the DELETE of a confirmation found is
what there is until it commits (`SavingSeesAll`), so that replacing what was seen replaces everything, and the price observed last is the
one submitted last; the row shows it too, or the capture is `overlooked`. The worker keeps it because it
writes no observation and never leaves a capture confirmed that was not.

*ShoppingSync*, one worker. `StaleSensorsAreExplained` needs `StaleIsAttended`: whoever still has a change to push, a tab that
will ask, a queued job, or the worker before its post; and that no handler posts a list older than the one shown (`NeverBack`).

*Outbox.* `CapturesAreKept` and the refinement `OutboxDelivers` share `OutboxInv`: a page waits for a call of its own that
carries the record it has in hand, and an answer "ok" comes from a server that has had the capture, at the server (`CallIsTrue`)
and at the page (`OkIsTrue`). Any number of pages and uploads.

*PhotoRetention.* `RetentionInv` adds that what a purge has unlinked is not on the disk (`PurgedIsGone`) and what a request at
work says of its image (`RequestIsKnown`); crashes anywhere.

*DealsRefresh*, one worker. On top of `SoleInv`, which keeps a job from being executed twice, `RefreshInv` says who has a run at hand. A run is
in one place (`OneHandEach`): at hand in the worker, or in the payload of one open job, and if in both, the worker executes that job.
Hence no question is put twice, the questions of a run are 1 up to its cursor (`QuestionsInOrder`), and "ok" is written
only when the cursor has reached the plan (`HandsAgree`): `RefreshIsComplete`. A job that names a run names one that exists, and a worker
goes on without it only if it is over (`CarriedRunsExist`); who is about to mark a job done leaves nothing running
(`NothingLeftRunning`), without which `RefreshKeepsRuns` is not inductive. `RefreshEndsOnce` follows, as only a running run is written.

*DealsRadar.* `RadarShowsRight` needs to know what a judgement has read while it is at work: as long as nobody has disturbed it, the rules
in its hands are the rules, and the offers in its session are all that are on, each relevant in the session exactly when it is in
the table (`CleanReadsAreTrue`). `RadarTellsOnce` needs that what a worker announces is in the table and not announced before
(`AnnouncesNew`), and counts the announcement whose mark is still to be set (`ToldOnce`).

*Cupboard.* `LookupKeepsWork` is `LookupIsAttended`, as for receipts, for any number of workers. `ScansAreKept` needs `LinkAgrees`: a
barcode that a request found linked is linked still, so a row goes with a link or a discard. `BarcodesAreSentOnce`
needs, for one worker, `Paid`: the count is above the misses only while an answer is in the cache, and nothing in the cache is fetched.

*Accounts.* `DevicesStay` is `RowOK` for every row: `last_seen` lags behind the last use by the touch interval at most. The throttle
is not inductive: a login may have passed the check some failures ago. `Spaced` counts the logins that still verify, each
a failure to come: while the delay a failure earned runs, the failures since and those logins are together fewer than the requests
(`FailuresAreSpaced`); `CapInv` does the same with the window (`GlobalLimitHolds`). That the delay grows with the count (`DelayGrows`) is
proved from its recursive definition.

*Cycles and Overview.* `OneCycleEach`: for every date and start day, beyond the days of a month too, the cycle that `current_cycle_anchor`
names contains the date and no other does; `CalendarIsCovered` lifts it to the pages, their receipts and the projection.
`NumbersAddUp` (`BooksBalance`) holds for any receipts and categories. Its sums are folds over finite sets; from the fold's definition
`WebProofs` proves that the order does not matter (`SumAny`), that a sum may be split (`SumOfTwo`), taken apart by a key (`SumByKey`)
and, of a table, taken by rows or by columns (`SumSwap`). Then each line is booked to one category of its receipt
(`SharesExplain`), the categories over all receipts are the lines of each (`CategoriesExplain`), and the stores part the receipts.

*Induction.* The prover cannot instantiate the library's induction theorems, whose parameter is a predicate. `SmallestCase` and the two
principles drawn from it, over finite sets (`AddOne`) and natural numbers (`NextOne`), take a set instead, and come from the
well-foundedness of the subset order, which the library states without a predicate. What the recursive functions of the sums and of the
delay compute is proved with these.

**Only model-checked.** Liveness (`EveryJobSettles`, `ReadingEnds`, `CaptureReadingEnds`, `QueuedIsPushed`, `EveryCaptureArrives`, `DueIsPurged`,
`RefreshComesBack`, `EveryOfferTold`): the prover handles neither fairness nor ENABLED.

## 5. Not modelled

- Image and PDF decoding, string similarity (`products/matching.py`), page rendering, charts, regulars and trend
  percentages, advice texts: computed from what was read, and wording.
- Rounding, the sum check and form parsing: local arithmetic that tests tabulate. Comparable prices and feedback: arithmetic over
  the observations of the moment.
- Inside the pipelines: products and name mappings learnt from a confirmation; the turn of the month, at which
  `spent` starts again; captures' readings, which count towards the same budget through the same worker. A check and its
  write with no `await`, call or commit between them (the few lines of `_fail_receipt`) are one step where one process at a time
  writes the row, which is not so in `recover_stuck`.
- The price comparison inside a judgement of the radar (a free choice), and offers that are not valid yet.
- The OpenID Connect and Tailscale exchanges, password hashing and the CSRF token: only their outcome.
- Settings other than the cycle's start day (constants here), the schema (its constraints are guards here), middleware, the
  service worker's page cache, and commands that only print.
