------------------------------ MODULE Cupboard ------------------------------
(***************************************************************************)
(* The cupboard and its barcodes: the requests that scan, name, discard    *)
(* and remove (cupboard/service.py, cupboard/routes.py), the worker that   *)
(* looks an unknown barcode up (_lookup_ean() in jobs/handlers.py), and    *)
(* the cache before Open Food Facts (products/off.py).                     *)
(*                                                                         *)
(* A request reads what it needs and later commits, whatever has changed   *)
(* in between; a row that is gone or that is there already makes it fail.  *)
(***************************************************************************)
EXTENDS JobQueue

CONSTANTS
    Eans,       \* valid barcodes
    NoEan,
    Products,
    NoProduct,
    Tabs,       \* requests that can be under way at the same time
    MaxRows,    \* bound: how often one barcode is scanned as unknown
    MaxMisses,  \* bound: fetches that fail and cache entries that expire
    MaxBugs     \* bound: unexpected handler exceptions

ASSUME CupboardAssumption ==
    /\ NoEan \notin Eans
    /\ NoProduct \notin Products
    /\ MaxRows \in Nat
    /\ MaxMisses \in Nat
    /\ MaxBugs \in Nat

VARIABLES
    payload,    \* Job.payload["ean"]
    scan,       \* the row of cupboard_scans for each barcode, with its id
    link,       \* product_eans
    items,      \* cupboard_items
    heavy,      \* the items with heavy_use
    cached,     \* the barcodes with an entry in off_cache that has not expired
    form,       \* what each request has read
    step,       \* how far each worker is in its handler
    loaded,     \* the row each worker has loaded
    born,       \* history: rows made for each barcode
    fetched,    \* history: barcodes sent to Open Food Facts, how often
    misses,     \* history: of those, sent in vain or forgotten since
    dropped,    \* history: barcodes discarded since they were last scanned
    bugs,       \* history: unexpected handler exceptions
    abandoned   \* history: rows whose failure a crash left unwritten

webVars == <<link, items, heavy, form, born, dropped>>
offVars == <<cached, fetched, misses>>
workVars == <<step, loaded, bugs, abandoned>>
cupboardVars == <<payload, scan, webVars, offVars, workVars>>
vars == <<jobVars, cupboardVars>>

NoRow == [id |-> 0, status |-> "gone"]
NoForm == [kind |-> "none", ean |-> NoEan, id |-> 0, product |-> NoProduct]
Waits(e) == scan[e] # NoRow
NoLoad == [ean |-> NoEan, id |-> 0]

Init ==
    /\ JobInit
    /\ payload = [j \in Jobs |-> NoEan]
    /\ scan = [e \in Eans |-> NoRow]
    /\ link = [e \in Eans |-> NoProduct]
    /\ items = {} /\ heavy = {}
    /\ cached = {}
    /\ form = [t \in Tabs |-> NoForm]
    /\ step = [w \in Workers |-> "idle"]
    /\ loaded = [w \in Workers |-> NoLoad]
    /\ born = [e \in Eans |-> 0]
    /\ fetched = [e \in Eans |-> 0]
    /\ misses = [e \in Eans |-> 0]
    /\ dropped = {}
    /\ bugs = 0
    /\ abandoned = {}

-----------------------------------------------------------------------------
(* The requests *)

Opens(t, kind, e, p) ==
    /\ form[t] = NoForm
    /\ form' = [form EXCEPT ![t] = [kind |-> kind, ean |-> e, id |-> scan[e].id, product |-> p]]
Ends(t) == form' = [form EXCEPT ![t] = NoForm]

\* scan(), what it reads: the product of the barcode, else the row that waits.
OpenScan(t, e) ==
    /\ IF link[e] # NoProduct
       THEN Opens(t, IF link[e] \in items THEN "already" ELSE "add", e, link[e])
       ELSE Opens(t, IF Waits(e) THEN "again" ELSE "new", e, NoProduct)
    /\ UNCHANGED <<jobVars, payload, scan, link, items, heavy, born, dropped, offVars, workVars>>

\* "added", or "already" with a new last_scanned_at.
ScanKnown(t) ==
    /\ \/ form[t].kind = "add" /\ form[t].product \notin items
       \/ form[t].kind = "already" /\ form[t].product \in items
    /\ items' = items \union {form[t].product}
    /\ Ends(t)
    /\ UNCHANGED <<jobVars, payload, scan, link, heavy, born, dropped, offVars, workVars>>

\* "unknown_again": seen_count of the row that was read.
ScanAgain(t) ==
    /\ form[t].kind = "again"
    /\ scan[form[t].ean].id = form[t].id
    /\ Ends(t)
    /\ UNCHANGED <<jobVars, payload, scan, link, items, heavy, born, dropped, offVars, workVars>>

\* mutant: enqueue forgotten
NoLookup(e) == UNCHANGED <<jobVars, payload>>
\* enqueue(db, "lookup_ean", {"ean": ean})
Lookup(e) ==
    \E j \in Jobs :
        /\ Enqueue(j)
        /\ payload' = [payload EXCEPT ![j] = e]

\* "unknown": a new row and its job in one commit; the unique constraint
\* admits one row for a barcode.
ScanNew(t) ==
    LET e == form[t].ean IN
    /\ form[t].kind = "new"
    /\ ~Waits(e)
    /\ born[e] < MaxRows
    /\ born' = [born EXCEPT ![e] = @ + 1]
    /\ scan' = [scan EXCEPT ![e] = [id |-> born[e] + 1, status |-> "lookup"]]
    /\ Lookup(e)
    /\ dropped' = dropped \ {e}
    /\ Ends(t)
    /\ UNCHANGED <<link, items, heavy, offVars, workVars>>

\* name_scan(): the row is loaded, in whatever status ...
OpenName(t, e) ==
    /\ Waits(e)
    /\ Opens(t, "name", e, NoProduct)
    /\ UNCHANGED <<jobVars, payload, scan, link, items, heavy, born, dropped, offVars, workVars>>

\* ... then the link is read ...
ReadLink(t) ==
    /\ form[t].kind = "name"
    /\ LET p == link[form[t].ean] IN
       form' = [form EXCEPT ![t].kind = IF p = NoProduct THEN "link" ELSE "relink",
                            ![t].product = p]
    /\ UNCHANGED <<jobVars, payload, scan, link, items, heavy, born, dropped, offVars, workVars>>

UnscanAny(t) == scan' = [scan EXCEPT ![form[t].ean] = NoRow]  \* mutant: by barcode
\* The row that was loaded; to delete one that is gone is no error.
Unscan(t) ==
    scan' = [e \in Eans |-> IF e = form[t].ean /\ scan[e].id = form[t].id THEN NoRow ELSE scan[e]]

\* ... and product, link and item are committed with the deletion of the row.
\* A link that was not there may not be there now.
Name(t, p, often) ==
    LET e == form[t].ean IN
    /\ form[t].kind \in {"link", "relink"}
    /\ form[t].kind = "link" => link[e] = NoProduct
    /\ link' = IF p = form[t].product THEN link ELSE [link EXCEPT ![e] = p]
    /\ items' = items \union {p}
    /\ heavy' = IF often THEN heavy \union {p} ELSE heavy
    /\ Unscan(t)
    /\ Ends(t)
    /\ UNCHANGED <<jobVars, payload, born, dropped, offVars, workVars>>

\* add_product(), for things without a barcode.
AddProduct(p, often) ==
    /\ items' = items \union {p}
    /\ heavy' = IF often THEN heavy \union {p} ELSE heavy
    /\ UNCHANGED <<jobVars, payload, scan, link, form, born, dropped, offVars, workVars>>

\* discard_scan()
OpenDiscard(t, e) ==
    /\ Waits(e)
    /\ Opens(t, "discard", e, NoProduct)
    /\ UNCHANGED <<jobVars, payload, scan, link, items, heavy, born, dropped, offVars, workVars>>

Discard(t) ==
    /\ form[t].kind = "discard"
    /\ dropped' = IF scan[form[t].ean].id = form[t].id THEN dropped \union {form[t].ean}
                  ELSE dropped
    /\ Unscan(t)
    /\ Ends(t)
    /\ UNCHANGED <<jobVars, payload, link, items, heavy, born, offVars, workVars>>

\* set_heavy() and remove_item()
SetHeavy(p, often) ==
    /\ p \in items
    /\ heavy' = IF often THEN heavy \union {p} ELSE heavy \ {p}
    /\ UNCHANGED <<jobVars, payload, scan, link, items, form, born, dropped, offVars, workVars>>

RemoveItem(p) ==
    /\ p \in items
    /\ items' = items \ {p}
    /\ heavy' = heavy \ {p}
    /\ UNCHANGED <<jobVars, payload, scan, link, form, born, dropped, offVars, workVars>>

\* confirm_capture() links the barcode of a shelf capture to its product.
LinkByCapture(e, p) ==
    /\ link' = [link EXCEPT ![e] = p]
    /\ UNCHANGED <<jobVars, payload, scan, items, heavy, form, born, dropped, offVars, workVars>>

\* A request that fails: a row that is gone, a row that is there already, a
\* name that is missing.
Fails(t) ==
    /\ form[t] # NoForm
    /\ Ends(t)
    /\ UNCHANGED <<jobVars, payload, scan, link, items, heavy, born, dropped, offVars, workVars>>

-----------------------------------------------------------------------------
(* The worker: process_one() and _lookup_ean() *)

GoTo(w, s) == step' = [step EXCEPT ![w] = s]
Forget(w) == loaded' = [loaded EXCEPT ![w] = NoLoad]
Ean(w) == payload[lease[w].job]

StartJob(w) ==
    /\ step[w] = "idle"
    /\ Claim(w)
    /\ GoTo(w, "claimed")
    /\ UNCHANGED <<payload, scan, webVars, offVars, loaded, bugs, abandoned>>

\* The row, if it still waits; and the cache.
Load(w) ==
    LET e == Ean(w) IN
    /\ step[w] = "claimed"
    /\ loaded' = [loaded EXCEPT ![w] = [ean |-> e, id |-> scan[e].id]]
    /\ GoTo(w, IF ~Waits(e) THEN "settle" ELSE IF e \in cached THEN "answered" ELSE "fetching")
    /\ UNCHANGED <<jobVars, payload, scan, webVars, offVars, bugs, abandoned>>

Miss(e) ==
    /\ misses[e] < MaxMisses
    /\ misses' = [misses EXCEPT ![e] = @ + 1]

NotCached(e) == cached                                \* mutant: unknown ones not cached
\* The answer, "unknown" included, and its commit.
Cached(e) == cached \union {e}

\* lookup() sends the barcode to Open Food Facts and keeps the answer ...
Fetch(w) ==
    LET e == loaded[w].ean IN
    /\ step[w] = "fetching"
    /\ fetched' = [fetched EXCEPT ![e] = @ + 1]
    /\ cached' = Cached(e)
    /\ GoTo(w, "answered")
    /\ UNCHANGED <<jobVars, payload, scan, webVars, misses, loaded, bugs, abandoned>>

\* ... unless there is none that can be used.
FetchFails(w) ==
    LET e == loaded[w].ean IN
    /\ step[w] = "fetching"
    /\ Miss(e)
    /\ fetched' = [fetched EXCEPT ![e] = @ + 1]
    /\ GoTo(w, "answered")
    /\ UNCHANGED <<jobVars, payload, scan, webVars, cached, loaded, bugs, abandoned>>

\* expires_at
Expire(e) ==
    /\ e \in cached
    /\ Miss(e)
    /\ cached' = cached \ {e}
    /\ UNCHANGED <<jobVars, payload, scan, webVars, fetched, workVars>>

NeedsName(e) == scan' = [scan EXCEPT ![e].status = "needs_name"]

\* off_name and the status, on the row that was loaded.
Answer(w) ==
    LET e == loaded[w].ean IN
    /\ step[w] = "answered"
    /\ scan[e].id = loaded[w].id
    /\ NeedsName(e)
    /\ GoTo(w, "settle")
    /\ UNCHANGED <<jobVars, payload, webVars, offVars, loaded, bugs, abandoned>>

Finish(w) ==
    /\ step[w] = "settle"
    /\ Complete(w)
    /\ Forget(w)
    /\ GoTo(w, "idle")
    /\ UNCHANGED <<payload, scan, webVars, offVars, bugs, abandoned>>

FailJob(w) ==
    /\ loaded' = [loaded EXCEPT ![w] = [ean |-> Ean(w), id |-> 0]]
    /\ FailFinal(w)
    /\ GoTo(w, "closing")
    /\ UNCHANGED <<payload, scan, webVars, offVars, abandoned>>

\* The row was named or discarded under the handler.
RowGone(w) ==
    /\ step[w] = "answered"
    /\ scan[loaded[w].ean].id # loaded[w].id
    /\ FailJob(w)
    /\ UNCHANGED bugs

Bug(w) ==
    /\ step[w] \in {"claimed", "answered", "settle"}
    /\ bugs < MaxBugs
    /\ bugs' = bugs + 1
    /\ FailJob(w)

\* "never leave a barcode stuck in "lookup"": the row of the barcode, if any.
Closes(e) == IF Waits(e) THEN NeedsName(e) ELSE UNCHANGED scan

Close(w) ==
    /\ step[w] = "closing"
    /\ Closes(loaded[w].ean)
    /\ Forget(w)
    /\ GoTo(w, "idle")
    /\ UNCHANGED <<jobVars, payload, webVars, offVars, bugs, abandoned>>

\* A crash; a fetch may have been sent.  (Between two jobs it has written
\* nothing: its housekeeping starts again.)
Die(w) ==
    /\ step[w] # "idle"
    /\ Crash(w)
    /\ abandoned' = abandoned \union {e \in {loaded[w].ean} \intersect Eans :
                                          step[w] = "closing" /\ scan[e].status = "lookup"}
    /\ \/ UNCHANGED <<fetched, misses>>
       \/ /\ step[w] = "fetching"
          /\ Miss(loaded[w].ean)
          /\ fetched' = [fetched EXCEPT ![loaded[w].ean] = @ + 1]
    /\ Forget(w)
    /\ GoTo(w, "idle")
    /\ UNCHANGED <<payload, scan, webVars, cached, bugs>>

Housekeep(w) ==
    /\ step[w] = "idle"
    /\ RecoverStuck(w)
    /\ UNCHANGED cupboardVars

ClockTick == Tick /\ UNCHANGED cupboardVars

-----------------------------------------------------------------------------
Request(t) ==
    \/ ScanKnown(t) \/ ScanAgain(t) \/ ScanNew(t) \/ ReadLink(t) \/ Discard(t) \/ Fails(t)
    \/ \E e \in Eans : OpenScan(t, e) \/ OpenName(t, e) \/ OpenDiscard(t, e)
    \/ \E p \in Products, often \in BOOLEAN : Name(t, p, often)

HandlerStep(w) ==
    \/ Load(w) \/ Fetch(w) \/ FetchFails(w) \/ Answer(w) \/ Finish(w)
    \/ RowGone(w) \/ Bug(w) \/ Close(w)

Next ==
    \/ \E t \in Tabs : Request(t)
    \/ \E p \in Products, often \in BOOLEAN : AddProduct(p, often) \/ SetHeavy(p, often)
    \/ \E p \in Products : RemoveItem(p)
    \/ \E e \in Eans, p \in Products : LinkByCapture(e, p)
    \/ \E e \in Eans : Expire(e)
    \/ \E w \in Workers : StartJob(w) \/ HandlerStep(w) \/ Die(w) \/ Housekeep(w)
    \/ ClockTick

Spec == Init /\ [][Next]_vars

-----------------------------------------------------------------------------
Forms == [kind : {"add", "already", "again", "new", "name", "link", "relink", "discard"},
          ean : Eans, id : 0..MaxRows, product : Products \union {NoProduct}]

\* Every variable keeps its type; what is used a lot is in the cupboard, and
\* a worker in its handler has a barcode.
CupboardTypeOK ==
    /\ JobTypeOK
    /\ payload \in [Jobs -> Eans \union {NoEan}]
    /\ \A e \in Eans : scan[e] # NoRow =>
           scan[e] \in [id : 1..born[e], status : {"lookup", "needs_name"}]
    /\ link \in [Eans -> Products \union {NoProduct}]
    /\ items \subseteq Products
    /\ heavy \subseteq items
    /\ cached \subseteq Eans
    /\ form \in [Tabs -> Forms \union {NoForm}]
    /\ step \in [Workers -> {"idle", "claimed", "fetching", "answered", "settle", "closing"}]
    /\ \A w \in Workers : step[w] \notin {"idle", "claimed"} => loaded[w].ean \in Eans
    /\ born \in [Eans -> 0..MaxRows]
    /\ fetched \in [Eans -> Nat]
    /\ misses \in [Eans -> 0..MaxMisses]
    /\ dropped \subseteq Eans
    /\ bugs \in 0..MaxBugs
    /\ abandoned \subseteq Eans

HasWork(e) ==
    \/ \E j \in Jobs : payload[j] = e /\ status[j] \in {"queued", "running"}
    \/ \E w \in Workers : step[w] = "closing" /\ loaded[w].ean = e

\* handlers.py:158, "never leave a barcode stuck in "lookup"": a row that is
\* looked up has a job or the worker is about to release it, whatever row the
\* job was made for; only a crash between queue.fail() and the release
\* leaves it.
LookupHasWork ==
    \A e \in Eans : scan[e].status = "lookup" => HasWork(e) \/ e \in abandoned

\* README.md:141, "Every barcode you scan is sent to Open Food Facts once and
\* cached afterwards": again only after an answer that was of no use, was
\* lost, or has expired.
SentOnce == \A e \in Eans : fetched[e] <= misses[e] + 1

\* A barcode scanned as unknown waits to be named until the user has named or
\* discarded it, however requests and look-ups cross.
ScanIsKept ==
    \A e \in Eans : born[e] > 0 => Waits(e) \/ link[e] # NoProduct \/ e \in dropped
=============================================================================
