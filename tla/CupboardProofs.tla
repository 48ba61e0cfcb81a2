-------------------------- MODULE CupboardProofs --------------------------
(***************************************************************************)
(* Proofs about Cupboard, for every number of jobs, workers, barcodes,     *)
(* products and requests and every value of the bounds: no barcode is      *)
(* stuck in "lookup", none is forgotten before it has a name, and, for the *)
(* one worker that is deployed, none is sent out twice for nothing.        *)
(***************************************************************************)
EXTENDS Cupboard, JobQueueProofs

USE CupboardAssumption DEF CupboardAssumption

-----------------------------------------------------------------------------
(* The cupboard runs the queue: its theorems are the cupboard's. *)

\* What every action does to the rows of the job table is a transaction of
\* the queue, or nothing.
LEMMA StepOfQueue == [Next]_vars => [JobNext]_jobVars
  <1> SUFFICES ASSUME [Next]_vars
               PROVE  JobNext \/ UNCHANGED jobVars
    OBVIOUS
  <1>1. ASSUME NEW t \in Tabs, Request(t)
        PROVE  JobNext \/ UNCHANGED jobVars
    BY <1>1 DEF Request, ScanKnown, ScanAgain, ScanNew, ReadLink, Discard, Fails, OpenScan,
                OpenName, OpenDiscard, Name, Lookup, JobNext
  <1>2. ASSUME NEW w \in Workers, StartJob(w) \/ HandlerStep(w) \/ Die(w) \/ Housekeep(w)
        PROVE  JobNext \/ UNCHANGED jobVars
    BY <1>2 DEF StartJob, HandlerStep, Load, Fetch, FetchFails, Answer, Finish, RowGone, Bug,
                FailJob, Close, Die, Housekeep, JobNext, WorkerStep
  <1>3. CASE ClockTick \/ UNCHANGED vars
    BY <1>3 DEF ClockTick, vars, JobNext
  <1> QED
    BY <1>1, <1>2, <1>3 DEF Next, AddProduct, SetHeavy, RemoveItem, LinkByCapture, Expire

\* The cupboard, seen on the job table alone, is the queue, so that whatever
\* was proved of the queue holds of it.
THEOREM CupboardKeepsQueueInvariant == Spec => []QueueInv
  <1>1. Init => JobInit
    BY DEF Init
  <1> QED
    BY <1>1, StepOfQueue, QueueInvariant, PTL DEF Spec, JobSpec

-----------------------------------------------------------------------------
(* Types, and how a worker's step, lease and loaded row fit together. *)

Kinds == {"none", "add", "already", "again", "new", "name", "link", "relink", "discard"}
Steps == {"idle", "claimed", "fetching", "answered", "settle", "closing"}
Rows == [id : Nat, status : {"gone", "lookup", "needs_name"}]
Pages == [kind : Kinds, ean : Eans \union {NoEan}, id : Nat,
          product : Products \union {NoProduct}]
Loads == [ean : Eans \union {NoEan}, id : Nat]

ScanTypes == scan \in [Eans -> Rows] /\ born \in [Eans -> Nat]

PageTypes ==
    /\ form \in [Tabs -> Pages]
    /\ link \in [Eans -> Products \union {NoProduct}]
    /\ \A t \in Tabs : form[t].kind # "none" => form[t].ean \in Eans

PayloadTypes ==
    /\ payload \in [Jobs -> Eans \union {NoEan}]
    /\ \A j \in Jobs : status[j] # "absent" => payload[j] \in Eans

WorkTypes == step \in [Workers -> Steps] /\ loaded \in [Workers -> Loads]

\* A worker holds a row exactly while it is in the handler proper, and what
\* it has loaded is the barcode the row names.
StepsAgree ==
    \A w \in Workers :
        /\ Busy(w) <=> step[w] \notin {"idle", "closing"}
        /\ step[w] \in {"fetching", "answered", "settle"} =>
               loaded[w].ean = payload[lease[w].job]
        /\ step[w] = "closing" => loaded[w].ean \in Eans

CupTypes == ScanTypes /\ PageTypes /\ PayloadTypes /\ WorkTypes /\ StepsAgree

\* The first state has the right types.
LEMMA InitTypes == Init => CupTypes
  BY DEF Init, JobInit, CupTypes, ScanTypes, PageTypes, PayloadTypes, WorkTypes, StepsAgree,
         Kinds, Steps, Rows, Pages, Loads, NoRow, NoForm, NoLoad, NoLease, Busy

\* What the web requests and the cache leave alone.
WebKeeps == UNCHANGED <<jobVars, payload, step, loaded, abandoned>>

\* Every request but a scan of something new leaves the jobs alone, and no
\* request but that one makes a row wait that did not.
LEMMA WebFrame ==
    ASSUME CupTypes, NEW t \in Tabs, Request(t), ~ScanNew(t)
    PROVE  /\ WebKeeps /\ born' = born
           /\ \A e \in Eans : scan'[e] = scan[e] \/ scan'[e] = NoRow
           /\ scan' \in [Eans -> Rows]
  <1>1. WebKeeps /\ born' = born
    BY DEF Request, ScanKnown, ScanAgain, ReadLink, Discard, Fails, OpenScan, OpenName,
           OpenDiscard, Name, WebKeeps, workVars
  <1>2. \/ scan' = scan
        \/ scan' = [e \in Eans |-> IF e = form[t].ean /\ scan[e].id = form[t].id
                                   THEN NoRow ELSE scan[e]]
    BY DEF Request, ScanKnown, ScanAgain, ReadLink, Discard, Fails, OpenScan, OpenName,
           OpenDiscard, Name, Unscan
  <1>3. NoRow \in Rows /\ scan \in [Eans -> Rows]
    BY DEF NoRow, Rows, CupTypes, ScanTypes
  <1> QED
    BY <1>1, <1>2, <1>3

\* A request is opened for a barcode and ends with nothing.
LEMMA WebPages ==
    ASSUME CupTypes, NEW t \in Tabs, Request(t)
    PROVE  PageTypes'
  <1>1. /\ form \in [Tabs -> Pages] /\ scan \in [Eans -> Rows]
        /\ link \in [Eans -> Products \union {NoProduct}]
        /\ \A s \in Tabs : form[s].kind # "none" => form[s].ean \in Eans
    BY DEF CupTypes, PageTypes, ScanTypes
  <1>2. NoForm \in Pages /\ NoForm.kind = "none"
    BY DEF NoForm, Pages, Kinds
  <1>3. link' \in [Eans -> Products \union {NoProduct}]
    BY <1>1 DEF Request, ScanKnown, ScanAgain, ScanNew, ReadLink, Discard, Fails, OpenScan,
                OpenName, OpenDiscard, Name
  <1>4. CASE Ends(t)
    BY <1>1, <1>2, <1>3, <1>4 DEF PageTypes, Ends
  <1>5. ASSUME NEW kind \in Kinds, NEW e \in Eans, NEW p \in Products \union {NoProduct},
               Opens(t, kind, e, p)
        PROVE  PageTypes'
    <2> DEFINE page == [kind |-> kind, ean |-> e, id |-> scan[e].id, product |-> p]
    <2>1. page \in Pages /\ page.ean = e
      BY <1>1 DEF Pages, Rows
    <2>2. form' = [form EXCEPT ![t] = page]
      BY <1>5, <2>1 DEF Opens
    <2> QED
      BY <1>1, <1>3, <2>1, <2>2 DEF PageTypes
  <1>6. CASE ReadLink(t)
    <2>1. form[t].kind # "none" /\ form[t].ean \in Eans
      BY <1>1, <1>6 DEF ReadLink
    <2>2. PICK page \in Pages : form' = [form EXCEPT ![t] = page] /\ page.ean = form[t].ean
      <3>1. PICK k \in Kinds, p \in Products \union {NoProduct} :
                form' = [form EXCEPT ![t].kind = k, ![t].product = p]
        BY <1>1, <1>6, <2>1 DEF ReadLink, Kinds
      <3>2. form[t] \in Pages
        BY <1>1
      <3> DEFINE page == [form[t] EXCEPT !.kind = k, !.product = p]
      <3>3. page \in Pages /\ page.ean = form[t].ean
        BY <3>2 DEF Pages
      <3>4. form' = [form EXCEPT ![t] = page]
        BY <3>1, <3>3
      <3> QED
        BY <3>3, <3>4
    <2> QED
      BY <1>1, <1>3, <2>1, <2>2 DEF PageTypes
  <1>7. CASE \E e \in Eans : OpenScan(t, e)
    <2>1. PICK e \in Eans : OpenScan(t, e)
      BY <1>7
    <2>2. link[e] \in Products \union {NoProduct}
      BY <1>1
    <2> QED
      BY <1>5, <2>1, <2>2 DEF OpenScan, Kinds
  <1>8. CASE \E e \in Eans : OpenName(t, e) \/ OpenDiscard(t, e)
    BY <1>5, <1>8 DEF OpenName, OpenDiscard, Kinds
  <1> QED
    BY <1>4, <1>6, <1>7, <1>8 DEF Request, ScanKnown, ScanAgain, ScanNew, Discard, Fails, Name

\* A scan of something new: a row and a job for its barcode.
LEMMA ScanNewShape ==
    ASSUME CupTypes, NEW t \in Tabs, ScanNew(t)
    PROVE  \E e \in Eans, j \in Jobs, row \in Rows :
              /\ e = form[t].ean /\ Enqueue(j)
              /\ payload' = [payload EXCEPT ![j] = e]
              /\ row.status = "lookup" /\ row.id = born[e] + 1
              /\ scan' = [scan EXCEPT ![e] = row]
              /\ born' = [born EXCEPT ![e] = @ + 1]
              /\ UNCHANGED <<link, step, loaded, abandoned>>
  <1>1. PICK e \in Eans : e = form[t].ean
    BY DEF CupTypes, PageTypes, ScanNew
  <1> DEFINE row == [id |-> born[e] + 1, status |-> "lookup"]
  <1>2. row \in Rows /\ row.id = born[e] + 1 /\ row.status = "lookup"
    BY DEF CupTypes, ScanTypes, Rows
  <1>3. PICK j \in Jobs : Enqueue(j) /\ payload' = [payload EXCEPT ![j] = e]
    BY <1>1 DEF ScanNew, Lookup
  <1>4. scan' = [scan EXCEPT ![e] = row]
    BY <1>1, <1>2 DEF ScanNew
  <1>5. born' = [born EXCEPT ![e] = @ + 1] /\ UNCHANGED <<link, step, loaded, abandoned>>
    BY <1>1 DEF ScanNew, workVars
  <1> QED
    BY <1>1, <1>2, <1>3, <1>4, <1>5

\* The requests keep the types.
LEMMA WebTypes ==
    ASSUME QueueInv, CupTypes, NEW t \in Tabs, Request(t)
    PROVE  CupTypes'
  <1>1. PageTypes'
    BY WebPages
  <1>2. CASE ScanNew(t)
    <2>1. PICK e \in Eans, j \in Jobs, row \in Rows :
              /\ Enqueue(j)
              /\ payload' = [payload EXCEPT ![j] = e]
              /\ scan' = [scan EXCEPT ![e] = row]
              /\ born' = [born EXCEPT ![e] = @ + 1]
              /\ UNCHANGED <<step, loaded>>
      BY <1>2, ScanNewShape
    <2>2. status[j] = "absent" /\ UNCHANGED lease
          /\ \A k \in Jobs : k # j => status'[k] = status[k]
      BY <2>1 DEF Enqueue, QueueInv, JobTypeOK
    <2>3. \A w \in Workers : Busy(w) => lease[w].job # j
      BY <2>2, LeasedRow
    <2>4. ScanTypes'
      BY <2>1 DEF CupTypes, ScanTypes
    <2>5. PayloadTypes'
      BY <2>1, <2>2 DEF CupTypes, PayloadTypes
    <2>6. WorkTypes'
      BY <2>1 DEF CupTypes, WorkTypes
    <2>7. StepsAgree'
      <3> SUFFICES ASSUME NEW w \in Workers
                   PROVE  /\ Busy(w)' <=> step[w] \notin {"idle", "closing"}
                          /\ step[w] \in {"fetching", "answered", "settle"} =>
                                 loaded[w].ean = payload'[lease'[w].job]
                          /\ step[w] = "closing" => loaded[w].ean \in Eans
        BY <2>1 DEF StepsAgree
      <3>1. Busy(w)' <=> Busy(w)
        BY <2>2 DEF Busy
      <3>2. Busy(w) => payload'[lease'[w].job] = payload[lease[w].job]
        <4> SUFFICES ASSUME Busy(w)
                     PROVE  payload'[lease[w].job] = payload[lease[w].job]
          BY <2>2
        <4>1. lease[w].job \in Jobs /\ lease[w].job # j
          BY <2>3, LeaseShape DEF QueueInv
        <4> QED
          BY <2>1, <4>1 DEF CupTypes, PayloadTypes
      <3> QED
        BY <3>1, <3>2 DEF CupTypes, StepsAgree
    <2> QED
      BY <1>1, <2>4, <2>5, <2>6, <2>7 DEF CupTypes
  <1>3. CASE ~ScanNew(t)
    <2>1. WebKeeps /\ scan' \in [Eans -> Rows] /\ born' = born
      BY <1>3, WebFrame
    <2> QED
      BY <1>1, <2>1 DEF CupTypes, ScanTypes, PayloadTypes, WorkTypes, StepsAgree, WebKeeps,
                        jobVars, Busy
  <1> QED
    BY <1>2, <1>3

\* The other changes a user makes, and the cache.
Elsewhere ==
    \/ \E p \in Products, often \in BOOLEAN : AddProduct(p, often) \/ SetHeavy(p, often)
    \/ \E p \in Products : RemoveItem(p)
    \/ \E e \in Eans, p \in Products : LinkByCapture(e, p)
    \/ \E e \in Eans : Expire(e)

\* They touch neither rows nor jobs, and a link only ever changes its product.
LEMMA ElsewhereFrame ==
    ASSUME CupTypes, Elsewhere
    PROVE  /\ WebKeeps /\ UNCHANGED <<scan, born, form, dropped>>
           /\ link' \in [Eans -> Products \union {NoProduct}]
           /\ \A e \in Eans : link[e] # NoProduct => link'[e] # NoProduct
  BY DEF Elsewhere, AddProduct, SetHeavy, RemoveItem, LinkByCapture, Expire, WebKeeps,
         webVars, workVars, CupTypes, PageTypes

\* A worker in its handler has a barcode.
LEMMA HandlerShape ==
    ASSUME QueueInv, CupTypes, NEW w \in Workers
    PROVE  /\ Busy(w) => lease[w].job \in Jobs /\ payload[lease[w].job] \in Eans
           /\ step[w] \in {"fetching", "answered", "settle", "closing"} =>
                  loaded[w].ean \in Eans
  <1>1. Busy(w) => lease[w].job \in Jobs /\ status[lease[w].job] # "absent"
    BY LeasedRow
  <1>2. Busy(w) => payload[lease[w].job] \in Eans
    BY <1>1 DEF CupTypes, PayloadTypes
  <1> QED
    BY <1>1, <1>2 DEF CupTypes, StepsAgree

\* The status, and nothing else, of the row that needs a name.
LEMMA NamedRow ==
    ASSUME scan \in [Eans -> Rows], NEW e \in Eans, NeedsName(e)
    PROVE  /\ scan' \in [Eans -> Rows] /\ scan'[e].status = "needs_name"
           /\ \A d \in Eans : d # e => scan'[d] = scan[d]
  <1> DEFINE row == [scan[e] EXCEPT !.status = "needs_name"]
  <1>1. row \in Rows /\ row.status = "needs_name"
    BY DEF Rows
  <1>2. scan' = [scan EXCEPT ![e] = row]
    BY DEF NeedsName
  <1> QED
    BY <1>1, <1>2

\* The handler writes the status of one row, and only to "needs_name".
LEMMA HandlerRows ==
    ASSUME QueueInv, CupTypes, NEW w \in Workers, HandlerStep(w)
    PROVE  /\ UNCHANGED <<payload, form, link, born, dropped, abandoned>>
           /\ \/ scan' = scan
              \/ NeedsName(loaded[w].ean) /\ loaded[w].ean \in Eans
           /\ ScanTypes'
  <1>1. UNCHANGED <<payload, form, link, born, dropped, abandoned>>
    BY DEF HandlerStep, Load, Fetch, FetchFails, Answer, Finish, RowGone, Bug, FailJob, Close,
           webVars
  <1>2. \/ scan' = scan
        \/ NeedsName(loaded[w].ean) /\ loaded[w].ean \in Eans
    BY HandlerShape DEF HandlerStep, Load, Fetch, FetchFails, Answer, Finish, RowGone, Bug,
                        FailJob, Close, Closes
  <1>3. ASSUME NEW e \in Eans, NeedsName(e)
        PROVE  scan' \in [Eans -> Rows]
    BY <1>3, NamedRow DEF CupTypes, ScanTypes
  <1> QED
    BY <1>1, <1>2, <1>3 DEF CupTypes, ScanTypes

\* The handler keeps step, lease and loaded row together.
LEMMA HandlerTypes ==
    ASSUME QueueInv, CupTypes, NEW w \in Workers, HandlerStep(w)
    PROVE  CupTypes'
  <1> USE DEF GoTo
  <1>0. /\ JobTypeOK /\ step \in [Workers -> Steps] /\ loaded \in [Workers -> Loads]
        /\ scan \in [Eans -> Rows]
    BY DEF QueueInv, CupTypes, WorkTypes, ScanTypes
  <1>1. UNCHANGED <<payload, form, link>> /\ ScanTypes'
    BY HandlerRows
  <1>2. PageTypes'
    BY <1>1 DEF CupTypes, PageTypes
  <1>3. CASE Load(w)
    <2>1. PICK e \in Eans : e = payload[lease[w].job]
      BY <1>3, HandlerShape DEF Load, CupTypes, StepsAgree
    <2> DEFINE l == [ean |-> e, id |-> scan[e].id]
    <2>2. l \in Loads /\ l.ean = e
      BY <1>0 DEF Rows, Loads
    <2>3. PICK s \in {"settle", "answered", "fetching"} : step' = [step EXCEPT ![w] = s]
      BY <1>3 DEF Load
    <2>4. loaded' = [loaded EXCEPT ![w] = l] /\ UNCHANGED jobVars /\ step[w] = "claimed"
      BY <1>3, <2>1, <2>2 DEF Load, Ean
    <2>5. WorkTypes'
      BY <1>0, <2>2, <2>3, <2>4 DEF WorkTypes, Steps
    <2>6. StepsAgree'
      BY <1>0, <1>1, <2>1, <2>2, <2>3, <2>4 DEF CupTypes, StepsAgree, Busy, jobVars
    <2>7. PayloadTypes'
      BY <1>1, <2>4 DEF CupTypes, PayloadTypes, jobVars
    <2> QED
      BY <1>1, <1>2, <2>5, <2>6, <2>7 DEF CupTypes
  <1>4. CASE Fetch(w) \/ FetchFails(w) \/ Answer(w)
    <2>1. /\ step[w] \in {"fetching", "answered"}
          /\ UNCHANGED <<jobVars, loaded>>
      BY <1>4 DEF Fetch, FetchFails, Answer
    <2>2. PICK s \in {"answered", "settle"} : step' = [step EXCEPT ![w] = s]
      BY <1>4 DEF Fetch, FetchFails, Answer
    <2>3. StepsAgree'
      BY <1>0, <1>1, <2>1, <2>2 DEF CupTypes, StepsAgree, Busy, jobVars
    <2>4. WorkTypes' /\ PayloadTypes'
      BY <1>0, <1>1, <2>1, <2>2 DEF WorkTypes, Steps, CupTypes, PayloadTypes, jobVars
    <2> QED
      BY <1>1, <1>2, <2>3, <2>4 DEF CupTypes
  <1>5. CASE Close(w)
    <2>1. step[w] = "closing" /\ step' = [step EXCEPT ![w] = "idle"] /\ UNCHANGED jobVars
          /\ loaded' = [loaded EXCEPT ![w] = NoLoad]
      BY <1>5 DEF Close, Forget
    <2>2. NoLoad \in Loads
      BY DEF NoLoad, Loads
    <2>3. StepsAgree'
      BY <1>0, <1>1, <2>1 DEF CupTypes, StepsAgree, Busy, jobVars
    <2>4. WorkTypes' /\ PayloadTypes'
      BY <1>0, <1>1, <2>1, <2>2 DEF WorkTypes, Steps, CupTypes, PayloadTypes, jobVars
    <2> QED
      BY <1>1, <1>2, <2>3, <2>4 DEF CupTypes
  <1>6. CASE Finish(w) \/ RowGone(w) \/ Bug(w)
    <2>1. Busy(w) /\ lease' = [lease EXCEPT ![w] = NoLease]
      BY <1>6 DEF Finish, RowGone, Bug, FailJob, Complete, FailFinal
    <2>2. lease[w].job \in Jobs /\ payload[lease[w].job] \in Eans
      BY <2>1, HandlerShape
    <2>3. \E s \in Statuses \ {"absent"} : status' = [status EXCEPT ![lease[w].job] = s]
      BY <1>6 DEF Finish, RowGone, Bug, FailJob, Complete, FailFinal, Statuses
    <2>4. PayloadTypes'
      BY <1>0, <1>1, <2>1, <2>2, <2>3, LeasedRow DEF CupTypes, PayloadTypes, JobTypeOK
    <2>5. PICK s \in {"idle", "closing"}, l \in Loads :
              /\ step' = [step EXCEPT ![w] = s]
              /\ loaded' = [loaded EXCEPT ![w] = l]
              /\ s = "closing" => l.ean \in Eans
      <3>1. CASE Finish(w)
        <4>1. NoLoad \in Loads
          BY DEF NoLoad, Loads
        <4> QED
          BY <3>1, <4>1 DEF Finish, Forget
      <3>2. CASE RowGone(w) \/ Bug(w)
        <4> DEFINE l == [ean |-> payload[lease[w].job], id |-> 0]
        <4>1. l \in Loads /\ l.ean = payload[lease[w].job]
          BY <2>2 DEF Loads
        <4>2. loaded' = [loaded EXCEPT ![w] = l] /\ step' = [step EXCEPT ![w] = "closing"]
          BY <3>2, <4>1 DEF RowGone, Bug, FailJob, Ean
        <4> QED
          BY <2>2, <4>1, <4>2
      <3> QED
        BY <1>6, <3>1, <3>2
    <2>6. WorkTypes'
      BY <1>0, <2>5 DEF WorkTypes, Steps
    <2>7. StepsAgree'
      <3> SUFFICES ASSUME NEW v \in Workers
                   PROVE  /\ Busy(v)' <=> step'[v] \notin {"idle", "closing"}
                          /\ step'[v] \in {"fetching", "answered", "settle"} =>
                                 loaded'[v].ean = payload'[lease'[v].job]
                          /\ step'[v] = "closing" => loaded'[v].ean \in Eans
        BY DEF StepsAgree
      <3>1. CASE v = w
        BY <1>0, <2>1, <2>5, <3>1, Released
      <3>2. CASE v # w
        <4>1. lease'[v] = lease[v] /\ (Busy(v)' <=> Busy(v))
          BY <1>0, <2>1, <3>2, Released
        <4>2. step'[v] = step[v] /\ loaded'[v] = loaded[v] /\ payload' = payload
          BY <1>0, <1>1, <2>5, <3>2
        <4> QED
          BY <4>1, <4>2 DEF CupTypes, StepsAgree
      <3> QED
        BY <3>1, <3>2
    <2> QED
      BY <1>1, <1>2, <2>4, <2>6, <2>7 DEF CupTypes
  <1> QED
    BY <1>3, <1>4, <1>5, <1>6 DEF HandlerStep

\* A claim makes its worker busy.
LEMMA StartJobTypes ==
    ASSUME QueueInv, CupTypes, NEW w \in Workers, StartJob(w)
    PROVE  CupTypes'
  <1>1. PICK j \in Jobs :
            /\ status[j] = "queued"
            /\ status' = [status EXCEPT ![j] = "running"]
            /\ lease' = [lease EXCEPT ![w] =
                            [job |-> j, attempt |-> attempts[j] + 1, at |-> now]]
    BY DEF StartJob, Claim, Due
  <1>2. /\ JobTypeOK /\ step \in [Workers -> Steps]
        /\ step[w] = "idle" /\ step' = [step EXCEPT ![w] = "claimed"]
        /\ UNCHANGED <<payload, scan, born, form, link, loaded>>
    BY DEF StartJob, GoTo, QueueInv, CupTypes, WorkTypes, webVars
  <1>3. /\ Busy(w)'
        /\ \A v \in Workers : v # w => lease'[v] = lease[v] /\ (Busy(v)' <=> Busy(v))
    BY <1>1, <1>2, QueueAssumption DEF JobTypeOK, Busy
  <1>4. PayloadTypes'
    BY <1>1, <1>2 DEF CupTypes, PayloadTypes, JobTypeOK
  <1>5. StepsAgree'
    BY <1>2, <1>3 DEF CupTypes, StepsAgree
  <1>6. WorkTypes'
    BY <1>2 DEF CupTypes, WorkTypes, Steps
  <1> QED
    BY <1>2, <1>4, <1>5, <1>6 DEF CupTypes, ScanTypes, PageTypes

\* A crash empties the worker's hands and leaves every row as it is.
LEMMA DieTypes ==
    ASSUME QueueInv, CupTypes, NEW w \in Workers, Die(w)
    PROVE  CupTypes'
  <1>1. /\ JobTypeOK /\ step \in [Workers -> Steps] /\ loaded \in [Workers -> Loads]
        /\ lease' = [lease EXCEPT ![w] = NoLease]
        /\ step' = [step EXCEPT ![w] = "idle"]
        /\ loaded' = [loaded EXCEPT ![w] = NoLoad]
        /\ UNCHANGED <<status, payload, scan, born, form, link>>
    BY DEF Die, Crash, GoTo, Forget, QueueInv, CupTypes, WorkTypes, webVars
  <1>2. NoLoad \in Loads
    BY DEF NoLoad, Loads
  <1>3. StepsAgree'
    BY <1>1, Released DEF CupTypes, StepsAgree
  <1>4. WorkTypes'
    BY <1>1, <1>2 DEF WorkTypes, Steps
  <1> QED
    BY <1>1, <1>3, <1>4 DEF CupTypes, ScanTypes, PageTypes, PayloadTypes

\* Every step keeps the types.
LEMMA NextTypes ==
    ASSUME QueueInv, CupTypes, [Next]_vars
    PROVE  CupTypes'
  <1>1. CASE Elsewhere
    BY <1>1, ElsewhereFrame DEF WebKeeps, CupTypes, ScanTypes, PageTypes, PayloadTypes,
                                WorkTypes, StepsAgree, jobVars, Busy
  <1>2. ASSUME NEW w \in Workers, Housekeep(w)
        PROVE  CupTypes'
    <2>1. /\ UNCHANGED <<lease, cupboardVars>>
          /\ \A j \in Jobs : status'[j] # "absent" => status[j] # "absent"
      BY <1>2, Recovers DEF Housekeep
    <2> QED
      BY <2>1 DEF cupboardVars, webVars, workVars, CupTypes, ScanTypes, PageTypes,
                  PayloadTypes, WorkTypes, StepsAgree, Busy
  <1>3. CASE ClockTick \/ UNCHANGED vars
    BY <1>3 DEF ClockTick, Tick, vars, jobVars, cupboardVars, webVars, workVars, CupTypes,
                ScanTypes, PageTypes, PayloadTypes, WorkTypes, StepsAgree, Busy
  <1> QED
    BY <1>1, <1>2, <1>3, WebTypes, HandlerTypes, StartJobTypes, DieTypes DEF Next, Elsewhere

\* Types, payloads and the workers' bookkeeping agree in every reachable state.
THEOREM CupTypesHold == Spec => []CupTypes
  <1>1. QueueInv /\ CupTypes /\ [Next]_vars => CupTypes'
    BY NextTypes
  <1> QED
    BY <1>1, InitTypes, CupboardKeepsQueueInvariant, PTL DEF Spec

-----------------------------------------------------------------------------
(***************************************************************************)
(* No barcode is stuck in "lookup".  Not inductive: a running job may be   *)
(* about to be marked done.  The strengthening asks for a job that will    *)
(* still look at the row: one whose handler has looked, and has not met    *)
(* it, does not count.                                                     *)
(***************************************************************************)

WillLook(j) ==
    /\ status[j] \in {"queued", "running"}
    /\ \A w \in Workers : lease[w].job = j => step[w] # "settle"

Attended(e) ==
    \/ \E j \in Jobs : payload[j] = e /\ WillLook(j)
    \/ \E w \in Workers : step[w] = "closing" /\ loaded[w].ean = e
    \/ e \in abandoned

LookupIsAttended == \A e \in Eans : scan[e].status = "lookup" => Attended(e)

\* The first state looks nothing up.
LEMMA InitAttended == Init => LookupIsAttended
  BY DEF Init, NoRow, LookupIsAttended

\* A new row comes with its job; the other requests make no row wait.
LEMMA WebAttended ==
    ASSUME QueueInv, CupTypes, LookupIsAttended, NEW t \in Tabs, Request(t)
    PROVE  LookupIsAttended'
  <1>1. CASE ScanNew(t)
    <2>1. PICK e \in Eans, j \in Jobs, row \in Rows :
              /\ Enqueue(j)
              /\ payload' = [payload EXCEPT ![j] = e]
              /\ scan' = [scan EXCEPT ![e] = row]
              /\ UNCHANGED <<step, loaded, abandoned>>
      BY <1>1, ScanNewShape
    <2>2. /\ status[j] = "absent" /\ status'[j] = "queued" /\ payload'[j] = e
          /\ \A k \in Jobs : k # j => status'[k] = status[k] /\ payload'[k] = payload[k]
          /\ UNCHANGED lease
      BY <2>1 DEF Enqueue, QueueInv, JobTypeOK, CupTypes, PayloadTypes
    <2>3. \A k \in Jobs : WillLook(k) => WillLook(k)' /\ payload'[k] = payload[k]
      BY <2>1, <2>2 DEF WillLook
    <2>4. \A d \in Eans : Attended(d) => Attended(d)'
      BY <2>1, <2>3 DEF Attended
    <2>5. Attended(e)'
      <3>1. \A w \in Workers : lease[w].job # j
        BY <2>2, LeasedRow, QueueAssumption DEF Busy
      <3> QED
        BY <2>2, <3>1 DEF Attended, WillLook
    <2>6. \A d \in Eans : d # e => scan'[d] = scan[d]
      BY <2>1 DEF CupTypes, ScanTypes
    <2> QED
      BY <2>4, <2>5, <2>6 DEF LookupIsAttended
  <1>2. CASE ~ScanNew(t)
    <2>1. WebKeeps /\ \A e \in Eans : scan'[e] = scan[e] \/ scan'[e] = NoRow
      BY <1>2, WebFrame
    <2>2. \A e \in Eans : scan'[e].status = "lookup" => scan[e].status = "lookup"
      BY <2>1 DEF NoRow
    <2>3. \A e \in Eans : Attended(e) => Attended(e)'
      BY <2>1 DEF WebKeeps, jobVars, Attended, WillLook
    <2> QED
      BY <2>2, <2>3 DEF LookupIsAttended
  <1> QED
    BY <1>1, <1>2

\* The handler turns away from a barcode only when its row no longer waits
\* for a look-up.
LEMMA HandlerAttended ==
    ASSUME QueueInv, CupTypes, LookupIsAttended, NEW w \in Workers, HandlerStep(w)
    PROVE  LookupIsAttended'
  <1> USE DEF GoTo
  <1>0. /\ JobTypeOK /\ step \in [Workers -> Steps] /\ scan \in [Eans -> Rows]
        /\ loaded \in [Workers -> Loads]
        /\ UNCHANGED <<payload, abandoned>>
        /\ \/ scan' = scan
           \/ NeedsName(loaded[w].ean) /\ loaded[w].ean \in Eans
    BY HandlerRows DEF QueueInv, CupTypes, WorkTypes, ScanTypes
  <1>1. \A e \in Eans : scan'[e].status = "lookup" => scan[e].status = "lookup"
    <2>1. ASSUME NEW d \in Eans, NeedsName(d)
          PROVE  \A e \in Eans : scan'[e].status = "lookup" => scan[e].status = "lookup"
      <3>1. \A e \in Eans : e # d => scan'[e] = scan[e]
        BY <1>0, <2>1 DEF NeedsName
      <3>2. scan'[d].status = "needs_name"
        BY <1>0, <2>1, NamedRow
      <3> QED
        BY <3>1, <3>2
    <2> QED
      BY <1>0, <2>1
  <1>2. CASE Load(w)
    <2>1. UNCHANGED <<jobVars, scan>> /\ step[w] = "claimed"
          /\ \A v \in Workers : v # w => step'[v] = step[v] /\ loaded'[v] = loaded[v]
      BY <1>0, <1>2 DEF Load
    <2>2. step'[w] = "settle" => scan[payload[lease[w].job]].status # "lookup"
      BY <1>0, <1>2 DEF Load, Ean, Waits, NoRow
    <2>3. ASSUME NEW e \in Eans, Attended(e), scan[e].status = "lookup"
          PROVE  Attended(e)'
      <3>1. CASE \E j \in Jobs : payload[j] = e /\ WillLook(j)
        <4>1. PICK j \in Jobs : payload[j] = e /\ WillLook(j)
          BY <3>1
        <4>2. lease[w].job = j => step'[w] # "settle"
          BY <2>2, <2>3, <4>1
        <4>3. WillLook(j)'
          BY <2>1, <4>1, <4>2 DEF WillLook, jobVars
        <4> QED
          BY <1>0, <4>1, <4>3 DEF Attended
      <3>2. CASE \E v \in Workers : step[v] = "closing" /\ loaded[v].ean = e
        BY <2>1, <3>2 DEF Attended
      <3>3. CASE e \in abandoned
        BY <1>0, <3>3 DEF Attended
      <3> QED
        BY <2>3, <3>1, <3>2, <3>3 DEF Attended
    <2> QED
      BY <1>1, <2>3 DEF LookupIsAttended
  <1>3. CASE Fetch(w) \/ FetchFails(w)
    <2>1. UNCHANGED <<jobVars, scan, loaded>> /\ step' = [step EXCEPT ![w] = "answered"]
          /\ step[w] = "fetching"
      BY <1>3 DEF Fetch, FetchFails
    <2>2. \A e \in Eans : Attended(e) => Attended(e)'
      BY <1>0, <2>1 DEF Attended, WillLook, jobVars
    <2> QED
      BY <1>1, <2>2 DEF LookupIsAttended
  <1>4. CASE Answer(w)
    <2>1. PICK d \in Eans : d = loaded[w].ean /\ d = payload[lease[w].job]
      BY <1>4, HandlerShape DEF Answer, CupTypes, StepsAgree
    <2>2. scan'[d].status # "lookup"
      BY <1>0, <1>4, <2>1, NamedRow DEF Answer
    <2>3. UNCHANGED <<jobVars, loaded>> /\ step' = [step EXCEPT ![w] = "settle"]
          /\ step[w] = "answered"
      BY <1>4 DEF Answer
    <2>4. \A e \in Eans : e # d /\ Attended(e) => Attended(e)'
      BY <1>0, <2>1, <2>3 DEF Attended, WillLook, jobVars
    <2> QED
      BY <1>1, <2>2, <2>4 DEF LookupIsAttended
  <1>5. CASE Close(w)
    <2>1. PICK d \in Eans : d = loaded[w].ean
      BY <1>5, HandlerShape DEF Close
    <2>2. scan'[d].status # "lookup"
      BY <1>0, <1>5, <2>1, NamedRow DEF Close, Closes, Waits, NoRow
    <2>3. UNCHANGED jobVars /\ step' = [step EXCEPT ![w] = "idle"]
          /\ \A v \in Workers : v # w => loaded'[v] = loaded[v]
      BY <1>0, <1>5 DEF Close, Forget
    <2>4. \A e \in Eans : e # d /\ Attended(e) => Attended(e)'
      BY <1>0, <2>1, <2>3 DEF Attended, WillLook, jobVars
    <2> QED
      BY <1>1, <2>2, <2>4 DEF LookupIsAttended
  <1>6. CASE Finish(w) \/ RowGone(w) \/ Bug(w)
    <2>1. Busy(w) /\ lease' = [lease EXCEPT ![w] = NoLease]
      BY <1>6 DEF Finish, RowGone, Bug, FailJob, Complete, FailFinal
    <2>2. PICK j \in Jobs : j = lease[w].job /\ payload[j] \in Eans
      BY <2>1, HandlerShape
    <2>3. \A k \in Jobs : k # j => status'[k] = status[k]
      BY <1>0, <1>6, <2>2 DEF Finish, RowGone, Bug, FailJob, Complete, FailFinal, JobTypeOK
    <2>4. lease'[w].job = NoJob /\ \A v \in Workers : v # w => lease'[v] = lease[v]
      BY <1>0, <2>1, Released
    <2>5. \A v \in Workers : v # w => step'[v] = step[v] /\ loaded'[v] = loaded[v]
      BY <1>0, <1>6 DEF Finish, RowGone, Bug, FailJob, Forget
    <2>6. ASSUME NEW k \in Jobs, k # j, WillLook(k)
          PROVE  WillLook(k)'
      BY <2>3, <2>4, <2>5, <2>6, QueueAssumption DEF WillLook
    <2>7. step[w] # "settle" => step'[w] = "closing" /\ loaded'[w].ean = payload[j]
      <3> SUFFICES ASSUME step[w] # "settle"
                   PROVE  step'[w] = "closing" /\ loaded'[w].ean = payload[j]
        OBVIOUS
      <3>1. loaded' = [loaded EXCEPT ![w] = [ean |-> payload[j], id |-> 0]]
        BY <1>6, <2>2 DEF Finish, RowGone, Bug, FailJob, Ean
      <3>2. step' = [step EXCEPT ![w] = "closing"]
        BY <1>6 DEF Finish, RowGone, Bug, FailJob
      <3>3. [ean |-> payload[j], id |-> 0].ean = payload[j]
        OBVIOUS
      <3> QED
        BY <1>0, <3>1, <3>2, <3>3
    <2>8. step[w] # "closing"
      BY <2>1 DEF CupTypes, StepsAgree
    <2>9. ASSUME NEW e \in Eans, Attended(e)
          PROVE  Attended(e)'
      <3>1. CASE payload[j] = e /\ WillLook(j)
        BY <2>2, <2>7, <3>1 DEF WillLook, Attended
      <3>2. CASE \E k \in Jobs : k # j /\ payload[k] = e /\ WillLook(k)
        BY <1>0, <2>6, <3>2 DEF Attended
      <3>3. CASE \E v \in Workers : step[v] = "closing" /\ loaded[v].ean = e
        BY <2>5, <2>8, <3>3 DEF Attended
      <3>4. CASE e \in abandoned
        BY <1>0, <3>4 DEF Attended
      <3> QED
        BY <2>9, <3>1, <3>2, <3>3, <3>4 DEF Attended
    <2> QED
      BY <1>1, <2>9 DEF LookupIsAttended
  <1> QED
    BY <1>2, <1>3, <1>4, <1>5, <1>6 DEF HandlerStep

\* A claimed job will look: its new worker is at the start.
LEMMA StartJobAttended ==
    ASSUME QueueInv, CupTypes, LookupIsAttended, NEW w \in Workers, StartJob(w)
    PROVE  LookupIsAttended'
  <1>1. PICK j \in Jobs :
            /\ status[j] = "queued"
            /\ status' = [status EXCEPT ![j] = "running"]
            /\ lease' = [lease EXCEPT ![w] =
                            [job |-> j, attempt |-> attempts[j] + 1, at |-> now]]
    BY DEF StartJob, Claim, Due
  <1>2. /\ JobTypeOK /\ step \in [Workers -> Steps] /\ step[w] = "idle"
        /\ step' = [step EXCEPT ![w] = "claimed"]
        /\ UNCHANGED <<payload, scan, loaded, abandoned>>
    BY DEF StartJob, GoTo, QueueInv, CupTypes, WorkTypes
  <1>3. /\ lease'[w].job = j
        /\ \A v \in Workers : v # w => lease'[v] = lease[v]
    BY <1>1, <1>2 DEF JobTypeOK
  <1>4. \A k \in Jobs : status[k] \in {"queued", "running"} => status'[k] \in {"queued", "running"}
    BY <1>1, <1>2 DEF JobTypeOK
  <1>5. \A k \in Jobs : WillLook(k) => WillLook(k)'
    BY <1>2, <1>3, <1>4 DEF WillLook
  <1> QED
    BY <1>2, <1>5 DEF LookupIsAttended, Attended

\* A crash leaves the row running and unheld; in the gap between the job and
\* the barcode it leaves the barcode abandoned.
LEMMA DieAttended ==
    ASSUME QueueInv, CupTypes, LookupIsAttended, NEW w \in Workers, Die(w)
    PROVE  LookupIsAttended'
  <1>1. /\ JobTypeOK /\ step \in [Workers -> Steps] /\ loaded \in [Workers -> Loads]
        /\ lease' = [lease EXCEPT ![w] = NoLease]
        /\ step' = [step EXCEPT ![w] = "idle"]
        /\ loaded' = [loaded EXCEPT ![w] = NoLoad]
        /\ UNCHANGED <<status, payload, scan>>
        /\ abandoned \subseteq abandoned'
    BY DEF Die, Crash, GoTo, Forget, QueueInv, CupTypes, WorkTypes
  <1>2. \A e \in Eans : step[w] = "closing" /\ loaded[w].ean = e /\ scan[e].status = "lookup"
                            => e \in abandoned'
    BY DEF Die
  <1>3. lease'[w].job = NoJob /\ \A v \in Workers : v # w => lease'[v] = lease[v]
    BY <1>1, Released
  <1>4. \A k \in Jobs : WillLook(k) => WillLook(k)'
    BY <1>1, <1>3, QueueAssumption DEF WillLook
  <1>5. \A v \in Workers : v # w => step'[v] = step[v] /\ loaded'[v] = loaded[v]
    BY <1>1
  <1>6. ASSUME NEW e \in Eans, scan[e].status = "lookup", Attended(e)
        PROVE  Attended(e)'
    <2>1. CASE \E j \in Jobs : payload[j] = e /\ WillLook(j)
      BY <1>1, <1>4, <2>1 DEF Attended
    <2>2. CASE \E v \in Workers : step[v] = "closing" /\ loaded[v].ean = e
      BY <1>2, <1>5, <1>6, <2>2 DEF Attended
    <2>3. CASE e \in abandoned
      BY <1>1, <2>3 DEF Attended
    <2> QED
      BY <1>6, <2>1, <2>2, <2>3 DEF Attended
  <1> QED
    BY <1>1, <1>6 DEF LookupIsAttended

\* Every step keeps every barcode in "lookup" attended to.
LEMMA NextAttended ==
    ASSUME QueueInv, CupTypes, LookupIsAttended, [Next]_vars
    PROVE  LookupIsAttended'
  <1>1. CASE Elsewhere
    BY <1>1, ElsewhereFrame DEF WebKeeps, jobVars, LookupIsAttended, Attended, WillLook
  <1>2. ASSUME NEW w \in Workers, Housekeep(w)
        PROVE  LookupIsAttended'
    BY <1>2, Recovers DEF Housekeep, cupboardVars, workVars, LookupIsAttended, Attended,
                          WillLook
  <1>3. CASE ClockTick \/ UNCHANGED vars
    BY <1>3 DEF ClockTick, Tick, vars, jobVars, cupboardVars, workVars, LookupIsAttended,
                Attended, WillLook
  <1> QED
    BY <1>1, <1>2, <1>3, WebAttended, HandlerAttended, StartJobAttended, DieAttended
       DEF Next, Elsewhere

\* A barcode that is being looked up has a job waiting or running for it, or
\* a worker about to release it, unless a worker died between queue.fail()
\* and the release, whatever is scanned, named or discarded meanwhile.
THEOREM LookupKeepsWork == Spec => []LookupHasWork
  <1>1. LookupIsAttended => LookupHasWork
    BY DEF LookupIsAttended, Attended, WillLook, LookupHasWork, HasWork
  <1>2. QueueInv /\ CupTypes /\ LookupIsAttended /\ [Next]_vars => LookupIsAttended'
    BY NextAttended
  <1> QED
    BY <1>1, <1>2, InitAttended, CupTypesHold, CupboardKeepsQueueInvariant, PTL DEF Spec

-----------------------------------------------------------------------------
(***************************************************************************)
(* A scan is kept until it has a name.  The strengthening is about the     *)
(* pages: one that found the barcode without a product has none to fall    *)
(* back on, and one that found it with a product finds it with one still.  *)
(***************************************************************************)

LinkAgrees ==
    \A t \in Tabs :
        /\ form[t].kind = "link" => form[t].product = NoProduct
        /\ form[t].kind = "relink" => link[form[t].ean] # NoProduct

KeptInv == ScanIsKept /\ LinkAgrees

\* Nothing has been scanned at the start.
LEMMA InitKept == Init => KeptInv
  BY DEF Init, KeptInv, ScanIsKept, LinkAgrees, NoForm

\* A request that takes a barcode's row away leaves a link behind, or is the
\* user's own discard.
LEMMA WebKept ==
    ASSUME CupTypes, KeptInv, NEW t \in Tabs, Request(t)
    PROVE  KeptInv'
  <1>0. /\ form \in [Tabs -> Pages] /\ link \in [Eans -> Products \union {NoProduct}]
        /\ scan \in [Eans -> Rows]
        /\ \A s \in Tabs : form[s].kind # "none" => form[s].ean \in Eans
    BY DEF CupTypes, PageTypes, ScanTypes
  <1>1. \A e \in Eans : link[e] # NoProduct => link'[e] # NoProduct
    BY <1>0 DEF Request, ScanKnown, ScanAgain, ScanNew, ReadLink, Discard, Fails, OpenScan,
                OpenName, OpenDiscard, Name
  <1>2. \A s \in Tabs : s # t => form'[s] = form[s]
    BY <1>0 DEF Request, ScanKnown, ScanAgain, ScanNew, ReadLink, Discard, Fails, OpenScan,
                OpenName, OpenDiscard, Name, Ends, Opens
  <1>3. /\ form'[t].kind = "link" => form'[t].product = NoProduct
        /\ form'[t].kind = "relink" => link'[form'[t].ean] # NoProduct
    <2>1. CASE Ends(t)
      BY <1>0, <2>1 DEF Ends, NoForm
    <2>2. ASSUME NEW kind \in Kinds \ {"link", "relink"}, NEW e \in Eans,
                 NEW p \in Products \union {NoProduct}, Opens(t, kind, e, p)
          PROVE  form'[t].kind \notin {"link", "relink"}
      BY <1>0, <2>2 DEF Opens
    <2>3. CASE ReadLink(t)
      <3>1. PICK p \in Products \union {NoProduct} : p = link[form[t].ean]
        BY <1>0, <2>3 DEF ReadLink
      <3>2. PICK k \in {"link", "relink"} : k = IF p = NoProduct THEN "link" ELSE "relink"
        OBVIOUS
      <3>3. form' = [form EXCEPT ![t].kind = k, ![t].product = p] /\ link' = link
        BY <2>3, <3>1, <3>2 DEF ReadLink
      <3>4. form'[t].kind = k /\ form'[t].product = p /\ form'[t].ean = form[t].ean
        <4>1. form[t] \in Pages
          BY <1>0
        <4>2. form'[t] = [form[t] EXCEPT !.kind = k, !.product = p]
          BY <1>0, <3>3
        <4> QED
          BY <4>1, <4>2 DEF Pages
      <3> QED
        BY <3>1, <3>2, <3>3, <3>4
    <2>4. ASSUME NEW e \in Eans, OpenScan(t, e)
          PROVE  form'[t].kind \notin {"link", "relink"}
      <3>1. link[e] \in Products \union {NoProduct}
        BY <1>0
      <3> QED
        BY <2>2, <2>4, <3>1 DEF OpenScan, Kinds
    <2>5. ASSUME NEW e \in Eans, OpenName(t, e) \/ OpenDiscard(t, e)
          PROVE  form'[t].kind \notin {"link", "relink"}
      BY <2>2, <2>5 DEF OpenName, OpenDiscard, Kinds
    <2> QED
      BY <2>1, <2>3, <2>4, <2>5 DEF Request, ScanKnown, ScanAgain, ScanNew, Discard, Fails,
                                    Name
  <1>4. LinkAgrees'
    <2> SUFFICES ASSUME NEW s \in Tabs
                 PROVE  /\ form'[s].kind = "link" => form'[s].product = NoProduct
                        /\ form'[s].kind = "relink" => link'[form'[s].ean] # NoProduct
      BY DEF LinkAgrees
    <2>1. CASE s = t
      BY <1>3, <2>1
    <2>2. CASE s # t
      BY <1>0, <1>1, <1>2, <2>2 DEF KeptInv, LinkAgrees
    <2> QED
      BY <2>1, <2>2
  <1>5. CASE ScanNew(t)
    <2>1. PICK e \in Eans, j \in Jobs, row \in Rows :
              /\ e = form[t].ean /\ row.status = "lookup"
              /\ scan' = [scan EXCEPT ![e] = row]
              /\ born' = [born EXCEPT ![e] = @ + 1]
              /\ UNCHANGED link
      BY <1>5, ScanNewShape
    <2>2. dropped' = dropped \ {e}
      BY <1>5, <2>1 DEF ScanNew
    <2>3. row # NoRow
      BY <2>1 DEF NoRow
    <2>4. \A d \in Eans : d # e => scan'[d] = scan[d] /\ born'[d] = born[d]
      BY <1>0, <2>1 DEF CupTypes, ScanTypes
    <2>5. scan'[e] # NoRow
      BY <1>0, <2>1, <2>3
    <2> QED
      BY <1>4, <2>1, <2>2, <2>4, <2>5 DEF KeptInv, ScanIsKept, Waits
  <1>6. CASE ~ScanNew(t)
    <2>1. born' = born
      BY <1>6, WebFrame
    <2>2. ASSUME NEW e \in Eans, Waits(e), ~Waits(e)'
          PROVE  link'[e] # NoProduct \/ e \in dropped'
      <3>1. CASE \E p \in Products, often \in BOOLEAN : Name(t, p, often)
        <4>1. PICK p \in Products, often \in BOOLEAN : Name(t, p, often)
          BY <3>1
        <4>2. e = form[t].ean
          BY <2>2, <4>1 DEF Name, Unscan, Waits
        <4>3. link'[e] = p \/ (p = form[t].product /\ link' = link)
          BY <1>0, <4>1, <4>2 DEF Name
        <4>4. p # NoProduct
          BY DEF CupboardAssumption
        <4>5. form[t].kind \in {"link", "relink"}
          BY <4>1 DEF Name
        <4> QED
          BY <4>2, <4>3, <4>4, <4>5 DEF KeptInv, LinkAgrees
      <3>2. CASE Discard(t)
        BY <2>2, <3>2 DEF Discard, Unscan, Waits
      <3> QED
        BY <1>6, <2>2, <3>1, <3>2 DEF Waits, Request, ScanKnown, ScanAgain, ReadLink, Fails,
                                      OpenScan, OpenName, OpenDiscard
    <2>3. dropped \subseteq dropped'
      BY <1>6 DEF Request, ScanKnown, ScanAgain, ReadLink, Discard, Fails, OpenScan, OpenName,
                  OpenDiscard, Name
    <2> QED
      BY <1>1, <1>4, <2>1, <2>2, <2>3 DEF KeptInv, ScanIsKept
  <1> QED
    BY <1>5, <1>6

\* Every step keeps every scan.
LEMMA NextKept ==
    ASSUME QueueInv, CupTypes, KeptInv, [Next]_vars
    PROVE  KeptInv'
  <1>1. CASE Elsewhere
    <2>1. \A t \in Tabs : form[t].kind # "none" => form[t].ean \in Eans
      BY DEF CupTypes, PageTypes
    <2> QED
      BY <1>1, <2>1, ElsewhereFrame DEF KeptInv, ScanIsKept, LinkAgrees, Waits
  <1>2. ASSUME NEW w \in Workers, HandlerStep(w)
        PROVE  KeptInv'
    <2>1. /\ UNCHANGED <<form, link, born, dropped>>
          /\ \/ scan' = scan
             \/ NeedsName(loaded[w].ean) /\ loaded[w].ean \in Eans
      BY <1>2, HandlerRows
    <2>2. scan \in [Eans -> Rows]
      BY DEF CupTypes, ScanTypes
    <2>3. \A e \in Eans : Waits(e) => Waits(e)'
      BY <2>1, <2>2, NamedRow DEF Waits, NoRow
    <2> QED
      BY <2>1, <2>3 DEF KeptInv, ScanIsKept, LinkAgrees
  <1>3. CASE \/ \E w \in Workers : StartJob(w) \/ Die(w) \/ Housekeep(w)
             \/ ClockTick \/ UNCHANGED vars
    <2>1. UNCHANGED <<scan, form, link, born, dropped>>
      BY <1>3 DEF StartJob, Die, Housekeep, ClockTick, vars, cupboardVars, webVars
    <2> QED
      BY <2>1 DEF KeptInv, ScanIsKept, LinkAgrees, Waits
  <1> QED
    BY <1>1, <1>2, <1>3, WebKept DEF Next, Elsewhere

\* A barcode scanned as unknown waits until the user has named or discarded
\* it, however requests and look-ups cross.
THEOREM ScansAreKept == Spec => []ScanIsKept
  <1>1. QueueInv /\ CupTypes /\ KeptInv /\ [Next]_vars => KeptInv'
    BY NextKept
  <1>2. KeptInv => ScanIsKept
    BY DEF KeptInv
  <1> QED
    BY <1>1, <1>2, InitKept, CupTypesHold, CupboardKeepsQueueInvariant, PTL DEF Spec

-----------------------------------------------------------------------------
(***************************************************************************)
(* A barcode is sent out once.  Every fetch is paid for: by the entry it   *)
(* left in the cache, or by a miss.  One worker is needed, since nothing   *)
(* keeps two from fetching the same barcode before either has an answer.   *)
(***************************************************************************)

Spare(e) == IF e \in cached THEN 1 ELSE 0

Paid == \A e \in Eans : fetched[e] <= misses[e] + Spare(e)

SentInv ==
    /\ fetched \in [Eans -> Nat]
    /\ misses \in [Eans -> Nat]
    /\ Paid
    /\ \A w \in Workers : step[w] = "fetching" => loaded[w].ean \notin cached

\* Nothing has been sent at the start.
LEMMA InitSent == Init => SentInv
  BY DEF Init, SentInv, Paid, Spare

\* The handler looks in the cache before it sends, and keeps the answer.
LEMMA HandlerSent ==
    ASSUME OneWorker, QueueInv, CupTypes, SentInv, NEW w \in Workers, HandlerStep(w)
    PROVE  SentInv'
  <1>0. /\ \A v \in Workers : v = w
        /\ step \in [Workers -> Steps] /\ loaded \in [Workers -> Loads]
        /\ fetched \in [Eans -> Nat] /\ misses \in [Eans -> Nat] /\ Paid
    BY DEF OneWorker, CupTypes, WorkTypes, SentInv
  <1>1. CASE Load(w)
    <2>1. UNCHANGED <<fetched, misses, cached>>
      BY <1>1 DEF Load, offVars
    <2>2. step'[w] = "fetching" => loaded'[w].ean \notin cached
      <3>1. PICK e \in Eans : e = Ean(w)
        BY <1>1, HandlerShape DEF Load, Ean, CupTypes, StepsAgree
      <3>2. step'[w] = "fetching" => e \notin cached
        BY <1>0, <1>1, <3>1 DEF Load, GoTo
      <3>3. loaded' = [loaded EXCEPT ![w] = [ean |-> e, id |-> scan[e].id]]
        BY <1>1, <3>1 DEF Load
      <3>4. loaded'[w].ean = e
        BY <1>0, <3>3
      <3> QED
        BY <3>2, <3>4
    <2> QED
      BY <1>0, <2>1, <2>2 DEF SentInv, Paid, Spare
  <1>2. CASE Fetch(w)
    <2>1. PICK e \in Eans : e = loaded[w].ean
      BY <1>2, HandlerShape DEF Fetch
    <2>2. /\ fetched' = [fetched EXCEPT ![e] = @ + 1] /\ cached' = cached \union {e}
          /\ e \notin cached /\ misses' = misses /\ step'[w] = "answered"
      BY <1>0, <1>2, <2>1 DEF Fetch, Cached, GoTo, SentInv
    <2>3. Paid'
      BY <1>0, <2>2 DEF Paid, Spare
    <2> QED
      BY <1>0, <2>2, <2>3 DEF SentInv
  <1>3. CASE FetchFails(w)
    <2>1. PICK e \in Eans : e = loaded[w].ean
      BY <1>3, HandlerShape DEF FetchFails
    <2>2. /\ fetched' = [fetched EXCEPT ![e] = @ + 1] /\ misses' = [misses EXCEPT ![e] = @ + 1]
          /\ cached' = cached /\ step'[w] = "answered"
      BY <1>0, <1>3, <2>1 DEF FetchFails, Miss, GoTo
    <2>3. Paid'
      BY <1>0, <2>2 DEF Paid, Spare
    <2> QED
      BY <1>0, <2>2, <2>3 DEF SentInv
  <1>4. CASE Answer(w) \/ Finish(w) \/ RowGone(w) \/ Bug(w) \/ Close(w)
    <2>1. UNCHANGED <<fetched, misses, cached>> /\ step'[w] # "fetching"
      BY <1>0, <1>4 DEF Answer, Finish, RowGone, Bug, FailJob, Close, GoTo, offVars
    <2> QED
      BY <1>0, <2>1 DEF SentInv, Paid, Spare
  <1> QED
    BY <1>1, <1>2, <1>3, <1>4 DEF HandlerStep

\* A crash during a fetch counts as a miss if the fetch was sent.
LEMMA DieSent ==
    ASSUME OneWorker, QueueInv, CupTypes, SentInv, NEW w \in Workers, Die(w)
    PROVE  SentInv'
  <1>0. /\ \A v \in Workers : v = w
        /\ step \in [Workers -> Steps] /\ step'[w] = "idle" /\ cached' = cached
        /\ fetched \in [Eans -> Nat] /\ misses \in [Eans -> Nat] /\ Paid
    BY DEF OneWorker, CupTypes, WorkTypes, SentInv, Die, GoTo
  <1>1. CASE UNCHANGED <<fetched, misses>>
    BY <1>0, <1>1 DEF SentInv, Paid, Spare
  <1>2. CASE ~UNCHANGED <<fetched, misses>>
    <2>1. PICK e \in Eans : e = loaded[w].ean
      BY <1>2, HandlerShape DEF Die
    <2>2. /\ fetched' = [fetched EXCEPT ![e] = @ + 1]
          /\ misses' = [misses EXCEPT ![e] = @ + 1]
      BY <1>2, <2>1 DEF Die, Miss
    <2>3. Paid'
      BY <1>0, <2>2 DEF Paid, Spare
    <2> QED
      BY <1>0, <2>2, <2>3 DEF SentInv
  <1> QED
    BY <1>1, <1>2

\* Only an entry that was there can expire.
LEMMA ExpireSent ==
    ASSUME SentInv, NEW e \in Eans, Expire(e)
    PROVE  SentInv'
  <1>0. /\ fetched \in [Eans -> Nat] /\ misses \in [Eans -> Nat] /\ Paid
        /\ e \in cached /\ cached' = cached \ {e} /\ fetched' = fetched
        /\ misses' = [misses EXCEPT ![e] = @ + 1] /\ UNCHANGED <<step, loaded>>
    BY DEF SentInv, Expire, Miss, workVars
  <1>1. Paid'
    BY <1>0 DEF Paid, Spare
  <1> QED
    BY <1>0, <1>1 DEF SentInv

\* Every step keeps the account.
LEMMA NextSent ==
    ASSUME OneWorker, QueueInv, CupTypes, SentInv, [Next]_vars
    PROVE  SentInv'
  <1>1. CASE \/ \E t \in Tabs : Request(t)
             \/ \E p \in Products, often \in BOOLEAN : AddProduct(p, often) \/ SetHeavy(p, often)
             \/ \E p \in Products : RemoveItem(p)
             \/ \E e \in Eans, p \in Products : LinkByCapture(e, p)
             \/ \E w \in Workers : Housekeep(w)
             \/ ClockTick \/ UNCHANGED vars
    <2>1. UNCHANGED <<offVars, step, loaded>>
      BY <1>1 DEF Request, ScanKnown, ScanAgain, ScanNew, ReadLink, Discard, Fails, OpenScan,
         OpenName, OpenDiscard, Name, AddProduct, SetHeavy, RemoveItem, LinkByCapture,
         Housekeep, ClockTick, vars, cupboardVars, workVars
    <2> QED
      BY <2>1 DEF offVars, SentInv, Paid, Spare
  <1>2. ASSUME NEW w \in Workers, StartJob(w)
        PROVE  SentInv'
    <2>1. step \in [Workers -> Steps]
      BY DEF CupTypes, WorkTypes
    <2> QED
      BY <1>2, <2>1 DEF StartJob, GoTo, offVars, SentInv, Paid, Spare
  <1> QED
    BY <1>1, <1>2, HandlerSent, DieSent, ExpireSent DEF Next

\* With one worker a barcode is sent to Open Food Facts once, and again only
\* after an answer that was of no use, was lost, or has expired.
THEOREM BarcodesAreSentOnce ==
    ASSUME OneWorker
    PROVE  Spec => []SentOnce
  <1>1. QueueInv /\ CupTypes /\ SentInv /\ [Next]_vars => SentInv'
    BY NextSent
  <1>2. SentInv => SentOnce
    BY DEF SentInv, Paid, Spare, SentOnce
  <1> QED
    BY <1>1, <1>2, InitSent, CupTypesHold, CupboardKeepsQueueInvariant, PTL DEF Spec
=============================================================================
