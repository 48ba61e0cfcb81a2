------------------------------- MODULE Outbox -------------------------------
(***************************************************************************)
(* The phone's outbox of shelf captures (web/static/js/outbox.js), flushed *)
(* by one page or several at once, and the server's end of an upload       *)
(* (create_capture() in capture/service.py).  A request runs on at the     *)
(* server when the page that made it has lost interest.                    *)
(*                                                                         *)
(* A capture is a number, in the order of captured_at, and stands for its  *)
(* client_uuid.                                                            *)
(***************************************************************************)
EXTENDS Naturals, FiniteSets

CONSTANTS
    Captures,   \* the photos taken, in order
    Poison,     \* captures whose upload is always answered 413 or 500
    Pages,      \* open pages of the app
    Calls,      \* uploads that can be at the server at the same time
    NoCapture,
    NoCall,
    MaxFaults   \* bound: faults of the network, the session, the processes

ASSUME OutboxAssumption ==
    /\ Captures \subseteq Nat
    /\ Poison \subseteq Captures
    /\ NoCapture \notin Captures
    /\ NoCall \notin Calls
    /\ MaxFaults \in Nat

VARIABLES
    record,   \* IndexedDB: each capture's record, with or without an error
    page,     \* where each page is in doFlush(): records left, call awaited
    again,    \* the records retry() has loaded and not yet put back
    call,     \* each upload at the server
    row,      \* the captures that have a row in shelf_captures
    jobs,     \* process_capture jobs inserted for each capture
    taken,    \* history: captures saved on the phone
    dropped,  \* history: captures the user discarded
    deleted,  \* history: captures deleted on the server
    faults    \* history: faults so far

phoneVars == <<record, page, again, taken, dropped>>
serverVars == <<call, row, jobs, deleted>>
vars == <<phoneVars, serverVars, faults>>

Idle == [at |-> "idle", todo |-> {}, on |-> NoCapture, call |-> NoCall]
Free == [at |-> "free", cap |-> NoCapture]
Answers == {"ok", "bad", "error"}

Waiting == {c \in Captures : record[c] = "waiting"}
\* sort by captured_at
Oldest(S) == CHOOSE c \in S : \A d \in S : c <= d

Init ==
    /\ record = [c \in Captures |-> "none"]
    /\ page = [p \in Pages |-> Idle]
    /\ again = {}
    /\ call = [k \in Calls |-> Free]
    /\ row = {}
    /\ jobs = [c \in Captures |-> 0]
    /\ taken = {} /\ dropped = {} /\ deleted = {}
    /\ faults = 0

Fault ==
    /\ faults < MaxFaults
    /\ faults' = faults + 1

SetRecord(c, r) == record' = [record EXCEPT ![c] = r]
SetPage(p, at) == page' = [page EXCEPT ![p].at = at]
EndPass(p) == page' = [page EXCEPT ![p] = Idle]

-----------------------------------------------------------------------------
(* The phone *)

\* capture.js, "save", and outbox.add().
TakePhoto(c) ==
    /\ c \notin taken
    /\ \A d \in Captures : d < c => d \in taken
    /\ SetRecord(c, "waiting")
    /\ taken' = taken \union {c}
    /\ UNCHANGED <<page, again, dropped, serverVars, faults>>

\* doFlush(): all() is read once, records with an error are skipped.
Flush(p) ==
    /\ page[p] = Idle
    /\ Waiting # {}
    /\ page' = [page EXCEPT ![p] = [Idle EXCEPT !.at = "token", !.todo = Waiting]]
    /\ UNCHANGED <<record, again, taken, dropped, serverVars, faults>>

\* csrfToken() got one.
Token(p) ==
    /\ page[p].at = "token"
    /\ SetPage(p, "next")
    /\ UNCHANGED <<record, again, taken, dropped, serverVars, faults>>

\* The records of the pass after the oldest one.
Rest(p) == page[p].todo \ {Oldest(page[p].todo)}

\* upload() of the next record of the pass, or the end of the pass.
Upload(p) ==
    /\ page[p].at = "next"
    /\ IF page[p].todo = {}
       THEN EndPass(p) /\ UNCHANGED call
       ELSE LET c == Oldest(page[p].todo) IN
            \E k \in Calls :
                /\ call[k] = Free
                /\ \A q \in Pages : page[q].call # k
                /\ call' = [call EXCEPT ![k] = [at |-> "arriving", cap |-> c]]
                /\ page' = [page EXCEPT ![p] = [at |-> "sent", on |-> c, call |-> k,
                                                todo |-> Rest(p)]]
    /\ UNCHANGED <<record, again, taken, dropped, row, jobs, deleted, faults>>

\* The answer reaches the page: 2xx, 400, or anything else, which stops the
\* pass.
Answer(p) ==
    LET k == page[p].call IN
    /\ page[p].at = "sent"
    /\ call[k].at \in Answers
    /\ call' = [call EXCEPT ![k] = Free]
    /\ page' = [page EXCEPT ![p] =
                   IF call[k].at = "error" THEN Idle
                   ELSE [@ EXCEPT !.at = call[k].at, !.call = NoCall]]
    /\ UNCHANGED <<record, again, taken, dropped, row, jobs, deleted, faults>>

RemoveAnyway(p) == page[p].at \in {"ok", "sent"}      \* mutant: without an answer
RemovesRecord(p) == page[p].at = "ok"

RemovesNothing(p) == UNCHANGED record                 \* mutant: no remove()
Removes(p) == SetRecord(page[p].on, "none")

\* resp.ok: remove(), whatever the record has become.
Accepted(p) ==
    /\ RemovesRecord(p)
    /\ Removes(p)
    /\ page' = [page EXCEPT ![p] = [Idle EXCEPT !.at = "next", !.todo = page[p].todo]]
    /\ UNCHANGED <<again, taken, dropped, serverVars, faults>>

\* 400: put() with the error, even if the record has gone meanwhile.
Refused(p) ==
    /\ page[p].at = "bad"
    /\ SetRecord(page[p].on, "rejected")
    /\ page' = [page EXCEPT ![p] = [Idle EXCEPT !.at = "next", !.todo = page[p].todo]]
    /\ UNCHANGED <<again, taken, dropped, serverVars, faults>>

\* retry(), "Try again": the record is loaded ...
LoadAgain(c) ==
    /\ record[c] = "rejected"
    /\ again' = again \union {c}
    /\ UNCHANGED <<record, page, taken, dropped, serverVars, faults>>

\* ... and put back without its error.
PutAgain(c) ==
    /\ c \in again
    /\ SetRecord(c, "waiting")
    /\ again' = again \ {c}
    /\ UNCHANGED <<page, taken, dropped, serverVars, faults>>

\* "Discard", shown for rejected records only.
Discard(c) ==
    /\ record[c] = "rejected"
    /\ SetRecord(c, "none")
    /\ dropped' = dropped \union {c}
    /\ UNCHANGED <<page, again, taken, serverVars, faults>>

\* No token, no connection, an answer that is lost, or a page that is closed:
\* the pass is over; what it sent is not recalled.
BreakPass(p) ==
    /\ page[p] # Idle
    /\ Fault
    /\ EndPass(p)
    /\ UNCHANGED <<record, again, taken, dropped, serverVars>>

-----------------------------------------------------------------------------
(* The server *)

Step(k, at) == call' = [call EXCEPT ![k].at = at]
Abandoned(k) == \A p \in Pages : page[p].call # k

Known(c) == c \in row

\* create_capture() up to save_image(): a known id is answered as such; the
\* checks may reject any other (they depend on settings that can change), or
\* the upload fails whenever it is tried.
LookUp(k) ==
    LET c == call[k].cap IN
    /\ call[k].at = "arriving"
    /\ \/ Known(c) /\ Step(k, "ok")
       \/ ~Known(c) /\ c \in Poison /\ Step(k, "error")
       \/ ~Known(c) /\ c \notin Poison /\ Step(k, "bad")
       \/ ~Known(c) /\ c \notin Poison /\ Step(k, "saving")
    /\ UNCHANGED <<phoneVars, row, jobs, deleted, faults>>

InsertAnyway(c) == TRUE                               \* mutant: no unique constraint
MayInsert(c) == c \notin row

\* db.flush(), enqueue() and db.commit(); or the unique constraint refuses
\* the row (PhotoRetention has the image that is left behind).
Insert(k) ==
    LET c == call[k].cap IN
    /\ call[k].at = "saving"
    /\ \/ /\ MayInsert(c)
          /\ row' = row \union {c}
          /\ jobs' = [jobs EXCEPT ![c] = @ + 1]
          /\ Step(k, "ok")
       \/ /\ ~MayInsert(c)
          /\ Step(k, "again")
          /\ UNCHANGED <<row, jobs>>
    /\ UNCHANGED <<phoneVars, deleted, faults>>

\* The select after the rollback: the row that won, unless it is gone again.
Reread(k) ==
    /\ call[k].at = "again"
    /\ Step(k, IF call[k].cap \in row THEN "ok" ELSE "error")
    /\ UNCHANGED <<phoneVars, row, jobs, deleted, faults>>

\* The process stops or the database fails in the middle of the upload.
CallFails(k) ==
    /\ call[k].at \in {"arriving", "saving", "again"}
    /\ Fault
    /\ Step(k, "error")
    /\ UNCHANGED <<phoneVars, row, jobs, deleted>>

\* An answer nobody waits for.
Unheard(k) ==
    /\ call[k].at \in Answers
    /\ Abandoned(k)
    /\ call' = [call EXCEPT ![k] = Free]
    /\ UNCHANGED <<phoneVars, row, jobs, deleted, faults>>

\* delete_capture(), as far as the phone is concerned; once for each capture.
DeleteRow(c) ==
    /\ c \in row \ deleted
    /\ row' = row \ {c}
    /\ deleted' = deleted \union {c}
    /\ UNCHANGED <<phoneVars, call, jobs, faults>>

-----------------------------------------------------------------------------
PageStep(p) == Flush(p) \/ Token(p) \/ Upload(p) \/ Answer(p) \/ Accepted(p) \/ Refused(p)
CallStep(k) == LookUp(k) \/ Insert(k) \/ Reread(k) \/ Unheard(k)

Next ==
    \/ \E c \in Captures :
        TakePhoto(c) \/ LoadAgain(c) \/ PutAgain(c) \/ Discard(c) \/ DeleteRow(c)
    \/ \E p \in Pages : PageStep(p) \/ BreakPass(p)
    \/ \E k \in Calls : CallStep(k) \/ CallFails(k)

Spec == Init /\ [][Next]_vars

\* The user opens the app again while something waits, its pages run on while
\* they are open, and so does the server.
Fairness ==
    /\ \A p \in Pages : WF_vars(PageStep(p))
    /\ \A k \in Calls : WF_vars(CallStep(k))

FairSpec == Spec /\ Fairness

-----------------------------------------------------------------------------
PageStates == [at : {"idle", "token", "next", "sent", "ok", "bad"},
               todo : SUBSET Captures,
               on : Captures \union {NoCapture},
               call : Calls \union {NoCall}]
CallStates == [at : {"free", "arriving", "saving", "again"} \union Answers,
               cap : Captures \union {NoCapture}]

\* Every variable keeps its type; what is on its way was once taken, and a
\* pass never has a record both in hand and still to send.
OutboxTypeOK ==
    /\ record \in [Captures -> {"none", "waiting", "rejected"}]
    /\ page \in [Pages -> PageStates]
    /\ \A p \in Pages : page[p].on \notin page[p].todo
    /\ again \in SUBSET taken
    /\ call \in [Calls -> CallStates]
    /\ row \in SUBSET taken
    /\ jobs \in [Captures -> Nat]
    /\ taken \in SUBSET Captures
    /\ dropped \in SUBSET taken
    /\ deleted \in SUBSET taken
    /\ faults \in Nat

\* outbox.js:2, "a flaky connection in the shop never loses a capture": what
\* was saved is on the phone, on the server, or was removed by the user,
\* whatever pages race and whatever is sent twice or not answered.
NothingLost ==
    \A c \in taken : record[c] # "none" \/ c \in row \union dropped \union deleted

Delivery == INSTANCE CaptureDelivery WITH
    held <- {c \in Captures : record[c] # "none"},
    given <- dropped,
    moving <- {call[k].cap : k \in {k \in Calls : call[k].at \in {"arriving", "saving"}}},
    stored <- row,
    arrived <- row \union deleted,
    readings <- jobs

\* The outbox and the server between them keep the promise of CaptureDelivery.
DeliversCaptures == Delivery!DeliverySpec

\* README.md:131, "They upload by themselves when you open the app again with
\* a connection": whatever faults there were, each capture gets to the server
\* or is shown as rejected, unless it waits behind one the server never takes
\* (a pass stops there, so the clause cannot be dropped).
EveryCaptureArrives ==
    \A c \in Captures : (\A d \in Poison : c < d) =>
        (record[c] = "waiting" ~> record[c] # "waiting")
=============================================================================
