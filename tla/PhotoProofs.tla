---------------------------- MODULE PhotoProofs -----------------------------
(***************************************************************************)
(* The way of a photo: on the phone and to the server (Outbox), on the     *)
(* volume until it is purged (PhotoRetention).  For every number of        *)
(* captures, pages, uploads, photos, days and faults: no capture is lost,  *)
(* the outbox and the server implement CaptureDelivery, and the volume     *)
(* holds what its rows say.                                                *)
(***************************************************************************)
EXTENDS Outbox, PhotoRetention, TLAPS, WellFoundedInduction

(* The outbox *)

\* What the server has or has had.
Had == row \union deleted

\* A page that awaits an answer awaits it of an upload of the capture it has
\* in hand, and shares the upload with no other page.
SentIsKnown ==
    \A p \in Pages :
        /\ page[p].at = "sent" =>
              /\ page[p].call \in Calls /\ page[p].on \in taken
              /\ call[page[p].call].at # "free"
              /\ call[page[p].call].cap = page[p].on
        /\ page[p].at # "sent" => page[p].call = NoCall
        /\ page[p].at \in {"ok", "bad"} => page[p].on \in taken
        /\ page[p].todo \subseteq taken

OneCallEach ==
    \A p, q \in Pages :
        page[p].call = page[q].call /\ page[p].call # NoCall => p = q

\* An upload carries a capture that was taken, and is only answered "ok" when
\* the server has had the capture.
CallIsTrue ==
    \A k \in Calls :
        /\ call[k].at # "free" => call[k].cap \in taken
        /\ call[k].at = "ok" => call[k].cap \in Had

\* A page that has been told "ok" has been told the truth.
OkIsTrue == \A p \in Pages : page[p].at = "ok" => page[p].on \in Had

\* The inductive invariant.
OutboxInv ==
    /\ OutboxTypeOK
    /\ \A c \in Captures : record[c] # "none" => c \in taken
    /\ SentIsKnown
    /\ OneCallEach
    /\ CallIsTrue
    /\ OkIsTrue
    /\ NothingLost

USE OutboxAssumption DEF OutboxAssumption

\* Nothing is taken, sent or stored at first.
LEMMA InvInit == Init => OutboxInv
  BY DEF Init, OutboxInv, OutboxTypeOK, SentIsKnown, OneCallEach, CallIsTrue,
         OkIsTrue, NothingLost, Had, Idle, Free, PageStates, CallStates, Answers

\* sort by captured_at: a set of captures that is not empty has an oldest.
LEMMA OldestIsOne ==
    ASSUME NEW S \in SUBSET Captures, S # {}
    PROVE  Oldest(S) \in S
<1> DEFINE R == {ss \in Nat \X Nat : ss[1] < ss[2]}
<1>1. IsWellFoundedOn(R, Nat) /\ S \subseteq Nat
  BY NatLessThanWellFounded DEF OpToRel
<1> HIDE DEF R
<1>2. PICK c \in S : \A d \in S : ~(<<d, c>> \in R)
  BY <1>1, WFMin
<1>3. ASSUME NEW d \in S
      PROVE  c <= d
  <2>1. c \in Nat /\ d \in Nat /\ ~(<<d, c>> \in R)
    BY <1>1, <1>2
  <2>2. <<d, c>> \in R <=> d < c
    BY <2>1 DEF R
  <2> QED
    BY <2>1, <2>2
<1> QED
  BY <1>3 DEF Oldest

-----------------------------------------------------------------------------
(* The phone *)

\* The records, as the user handles them.
LEMMA InvRecord ==
    ASSUME OutboxInv, NEW c \in Captures,
           TakePhoto(c) \/ LoadAgain(c) \/ PutAgain(c) \/ Discard(c) \/ DeleteRow(c)
    PROVE  OutboxInv'
<1> USE DEF OutboxInv, OutboxTypeOK, SentIsKnown, OneCallEach, CallIsTrue,
            OkIsTrue, NothingLost, Had, SetRecord, phoneVars, serverVars
<1>1. CASE TakePhoto(c)
  BY <1>1 DEF TakePhoto
<1>2. CASE LoadAgain(c)
  BY <1>2 DEF LoadAgain
<1>3. CASE PutAgain(c)
  BY <1>3 DEF PutAgain
<1>4. CASE Discard(c)
  BY <1>4 DEF Discard
<1>5. CASE DeleteRow(c)
  BY <1>5 DEF DeleteRow
<1> QED
  BY <1>1, <1>2, <1>3, <1>4, <1>5

\* The pages, in the middle of a pass.
LEMMA InvPage ==
    ASSUME OutboxInv, NEW p \in Pages, PageStep(p) \/ BreakPass(p)
    PROVE  OutboxInv'
<1> USE DEF OutboxInv, OutboxTypeOK, SentIsKnown, OneCallEach, CallIsTrue,
            OkIsTrue, NothingLost, Had, SetRecord, phoneVars, serverVars,
            SetPage, EndPass, Idle, PageStates
<1>1. CASE Flush(p)
  BY <1>1 DEF Flush, Waiting
<1>2. CASE Token(p)
  BY <1>2 DEF Token
<1>3. CASE Upload(p)
  <2>1. CASE page[p].todo = {}
    BY <1>3, <2>1 DEF Upload
  <2>2. CASE page[p].todo # {}
    <3> DEFINE c == Oldest(page[p].todo)
    <3>1. c \in page[p].todo /\ c \in taken /\ page[p].todo \subseteq Captures
      BY <2>2, OldestIsOne
    <3>2. Rest(p) = page[p].todo \ {c}
      BY DEF Rest
    <3> HIDE DEF c
    <3>3. PICK k \in Calls :
            /\ call[k] = Free
            /\ \A q \in Pages : page[q].call # k
            /\ call' = [call EXCEPT ![k] = [at |-> "arriving", cap |-> c]]
            /\ page' = [page EXCEPT ![p] = [at |-> "sent", on |-> c, call |-> k,
                                            todo |-> Rest(p)]]
      BY <1>3, <2>2 DEF Upload, c
    <3>4. UNCHANGED <<record, again, taken, dropped, row, jobs, deleted, faults>>
      BY <1>3 DEF Upload
    <3>5. OutboxTypeOK'
      BY <3>1, <3>2, <3>3, <3>4 DEF CallStates
    <3>6. SentIsKnown'
      BY <3>1, <3>2, <3>3, <3>4 DEF CallStates
    <3>7. OneCallEach' /\ OkIsTrue'
      BY <3>3, <3>4
    <3>8. CallIsTrue'
      BY <3>1, <3>3, <3>4
    <3>9. NothingLost' /\ (\A d \in Captures : record[d] # "none" => d \in taken)'
      BY <3>4
    <3> QED
      BY <3>5, <3>6, <3>7, <3>8, <3>9
  <2> QED
    BY <2>1, <2>2
<1>4. CASE Answer(p)
  <2> DEFINE k == page[p].call
  <2>1. /\ k \in Calls /\ call[k].at \in Answers /\ page[p].at = "sent"
        /\ call[k].cap = page[p].on /\ page[p].on \in taken
        /\ page[p].todo \subseteq taken
    BY <1>4 DEF Answer
  <2>2. \A q \in Pages : q # p => page[q].call # k
    BY <2>1
  <2> HIDE DEF k
  <2>3. /\ call' = [call EXCEPT ![k] = Free]
        /\ page' = [page EXCEPT ![p] =
                       IF call[k].at = "error" THEN Idle
                       ELSE [page[p] EXCEPT !.at = call[k].at, !.call = NoCall]]
        /\ UNCHANGED <<record, again, taken, dropped, row, jobs, deleted, faults>>
    BY <1>4 DEF Answer, k
  <2>4. OutboxTypeOK'
    <3>1. call' \in [Calls -> CallStates]
      BY <2>1, <2>3 DEF Free, CallStates
    <3>2. page' \in [Pages -> PageStates]
      <4>1. CASE call[k].at = "error"
        BY <2>3, <4>1
      <4>2. CASE call[k].at \in {"ok", "bad"}
        <5>1. page[p] \in PageStates /\ call[k].at # "error"
          BY <4>2
        <5>2. [page[p] EXCEPT !.at = call[k].at, !.call = NoCall] \in PageStates
          BY <5>1, <4>2
        <5>3. page' = [page EXCEPT ![p] =
                          [page[p] EXCEPT !.at = call[k].at, !.call = NoCall]]
          BY <2>3, <5>1
        <5> HIDE DEF PageStates
        <5> QED
          BY <5>2, <5>3
      <4> QED
        BY <2>1, <4>1, <4>2 DEF Answers
    <3>3. \A q \in Pages : page'[q].on \notin page'[q].todo
      BY <2>3
    <3> QED
      BY <3>1, <3>2, <3>3, <2>3
  <2>5. SentIsKnown'
    BY <2>1, <2>2, <2>3 DEF Answers, Free
  <2>6. OneCallEach'
    BY <2>1, <2>3 DEF Answers
  <2>7. CallIsTrue'
    BY <2>1, <2>3 DEF Free
  <2>8. OkIsTrue'
    BY <2>1, <2>3 DEF Answers
  <2>9. NothingLost' /\ (\A d \in Captures : record[d] # "none" => d \in taken)'
    BY <2>3
  <2> QED
    BY <2>4, <2>5, <2>6, <2>7, <2>8, <2>9
<1>5. CASE Accepted(p)
  BY <1>5 DEF Accepted, RemovesRecord, Removes
<1>6. CASE Refused(p)
  BY <1>6 DEF Refused
<1>7. CASE BreakPass(p)
  BY <1>7 DEF BreakPass, Fault
<1> QED
  BY <1>1, <1>2, <1>3, <1>4, <1>5, <1>6, <1>7 DEF PageStep

-----------------------------------------------------------------------------
(* The server *)

\* The server's end of an upload, and the deletion of a row.
LEMMA InvCall ==
    ASSUME OutboxInv, NEW k \in Calls, CallStep(k) \/ CallFails(k)
    PROVE  OutboxInv'
<1> USE DEF OutboxInv, OutboxTypeOK, SentIsKnown, OneCallEach, CallIsTrue,
            OkIsTrue, NothingLost, Had, phoneVars, serverVars,
            Step, CallStates, Answers, Free
<1>1. CASE LookUp(k)
  <2>1. UNCHANGED <<phoneVars, row, jobs, deleted, faults>>
    BY <1>1 DEF LookUp
  <2>2. PICK a \in {"ok", "error", "bad", "saving"} :
          /\ call' = [call EXCEPT ![k].at = a]
          /\ a = "ok" => call[k].cap \in row
    BY <1>1 DEF LookUp, Known
  <2>3. call[k].at = "arriving" /\ call[k].cap \in taken
    BY <1>1 DEF LookUp
  <2> QED
    BY <2>1, <2>2, <2>3
<1>2. CASE Insert(k)
  BY <1>2 DEF Insert, MayInsert
<1>3. CASE Reread(k)
  BY <1>3 DEF Reread
<1>4. CASE Unheard(k)
  BY <1>4 DEF Unheard, Abandoned
<1>5. CASE CallFails(k)
  BY <1>5 DEF CallFails, Fault
<1> QED
  BY <1>1, <1>2, <1>3, <1>4, <1>5 DEF CallStep

\* A record goes only after an answer that is true: the strengthening under
\* which NothingLost is inductive.
THEOREM OutboxInvariant == Spec => []OutboxInv
<1>1. OutboxInv /\ UNCHANGED vars => OutboxInv'
  BY DEF OutboxInv, OutboxTypeOK, SentIsKnown, OneCallEach, CallIsTrue,
         OkIsTrue, NothingLost, Had, vars, phoneVars, serverVars
<1>2. OutboxInv /\ [Next]_vars => OutboxInv'
  BY <1>1, InvRecord, InvPage, InvCall DEF Next
<1> QED
  BY InvInit, <1>2, PTL DEF Spec

\* The type of the outbox, the pages and the server's end.
THEOREM OutboxTypes == Spec => []OutboxTypeOK
  BY OutboxInvariant, PTL DEF OutboxInv

\* No capture is lost, however many pages flush the outbox and whatever the
\* network and the processes do.
THEOREM CapturesAreKept == Spec => []NothingLost
  BY OutboxInvariant, PTL DEF OutboxInv

-----------------------------------------------------------------------------
(* The refinement *)

Held == {c \in Captures : record[c] # "none"}
UnderWay == {k \in Calls : call[k].at \in {"arriving", "saving"}}
Moving == {call[k].cap : k \in UnderWay}

\* The abstract state, as the refinement mapping has it.
Mapped == <<Held, dropped, Moving, row, row \union deleted, jobs>>

\* The tuple above is the abstract specification's, under the mapping.
LEMMA MappedIs == Mapped = Delivery!deliveryVars
  BY DEF Mapped, Held, Moving, UnderWay, Delivery!deliveryVars

\* What leaves the server's hands without a trace is a Vanish.
LEMMA Vanishes ==
    ASSUME OutboxInv, Moving' \subseteq Moving,
           UNCHANGED <<Held, dropped, row, row \union deleted, jobs>>
    PROVE  Delivery!DeliveryNext
<1>1. PICK C \in SUBSET Captures : C = Moving \ Moving'
  <2>1. Moving \subseteq Captures
    BY DEF OutboxInv, OutboxTypeOK, CallIsTrue, Moving, UnderWay
  <2>2. Moving \ Moving' \in SUBSET Captures
    BY <2>1
  <2> QED
    BY <2>2
<1>2. Moving' = Moving \ C
  BY <1>1
<1>3. Delivery!Vanish(C)
  BY <1>2 DEF Delivery!Vanish, Held, Moving, UnderWay
<1> QED
  BY <1>1, <1>3 DEF Delivery!DeliveryNext

\* A step that leaves the uploads alone moves nothing.
LEMMA MovesNothing ==
    ASSUME UNCHANGED call
    PROVE  Moving' = Moving
  BY DEF Moving, UnderWay

\* An upload that is under way no more takes at most its capture along.
LEMMA MovesOne ==
    ASSUME OutboxInv, NEW k \in Calls, NEW x,
           call' = [call EXCEPT ![k] = x],
           x.at \notin {"arriving", "saving"} \/ (k \in UnderWay /\ x.cap = call[k].cap)
    PROVE  /\ Moving' \subseteq Moving
           /\ Moving \ {call[k].cap} \subseteq Moving'
<1> \A j \in Calls : call'[j] = IF j = k THEN x ELSE call[j]
  BY DEF OutboxInv, OutboxTypeOK
<1> QED
  BY DEF Moving, UnderWay

\* Each step of the user maps to Hold, GiveUp, Remove, or to none.
LEMMA RecordRefines ==
    ASSUME OutboxInv, NEW c \in Captures,
           TakePhoto(c) \/ LoadAgain(c) \/ PutAgain(c) \/ Discard(c) \/ DeleteRow(c)
    PROVE  Delivery!DeliveryNext \/ UNCHANGED Mapped
<1>1. UNCHANGED call /\ record \in [Captures -> {"none", "waiting", "rejected"}]
  BY DEF TakePhoto, LoadAgain, PutAgain, Discard, DeleteRow, phoneVars,
         serverVars, OutboxInv, OutboxTypeOK
<1>2. Moving' = Moving
  BY <1>1, MovesNothing
<1>3. CASE TakePhoto(c) \/ PutAgain(c)
  <2>1. Held' = Held \union {c} /\ UNCHANGED <<dropped, row, deleted, jobs>>
    BY <1>1, <1>3 DEF TakePhoto, PutAgain, SetRecord, Held, serverVars
  <2>2. Delivery!Hold(c)
    BY <1>2, <2>1 DEF Delivery!Hold, Held, Moving, UnderWay
  <2> QED
    BY <2>2 DEF Delivery!DeliveryNext
<1>4. CASE LoadAgain(c)
  BY <1>2, <1>4 DEF LoadAgain, Mapped, Held, serverVars
<1>5. CASE Discard(c)
  <2>1. /\ Held' = Held \ {c} /\ dropped' = dropped \union {c}
        /\ UNCHANGED <<row, deleted, jobs>>
    BY <1>1, <1>5 DEF Discard, SetRecord, Held, serverVars
  <2>2. Delivery!GiveUp(c)
    BY <1>2, <2>1 DEF Delivery!GiveUp, Held, Moving, UnderWay
  <2> QED
    BY <2>2 DEF Delivery!DeliveryNext
<1>6. CASE DeleteRow(c)
  <2>1. /\ row' = row \ {c} /\ row' \union deleted' = row \union deleted
        /\ UNCHANGED <<record, dropped, jobs>>
    BY <1>6 DEF DeleteRow, phoneVars
  <2>2. Delivery!Remove(c)
    BY <1>2, <2>1 DEF Delivery!Remove, Held, Moving, UnderWay
  <2> QED
    BY <2>2 DEF Delivery!DeliveryNext
<1> QED
  BY <1>3, <1>4, <1>5, <1>6

\* Each step of a page maps to Send, LetGo, Hold, or to none.
LEMMA PageRefines ==
    ASSUME OutboxInv, NEW p \in Pages, PageStep(p) \/ BreakPass(p)
    PROVE  Delivery!DeliveryNext \/ UNCHANGED Mapped
<1>1. /\ record \in [Captures -> {"none", "waiting", "rejected"}]
      /\ call \in [Calls -> CallStates] /\ taken \subseteq Captures
  BY DEF OutboxInv, OutboxTypeOK
<1>2. CASE Flush(p) \/ Token(p) \/ BreakPass(p)
  <2>1. UNCHANGED <<record, dropped, row, deleted, jobs, call>>
    BY <1>2 DEF Flush, Token, BreakPass, serverVars
  <2> QED
    BY <2>1, MovesNothing DEF Mapped, Held
<1>3. CASE Upload(p)
  <2>1. UNCHANGED <<record, dropped, row, deleted, jobs>>
    BY <1>3 DEF Upload
  <2>2. CASE page[p].todo = {}
    BY <1>3, <2>1, <2>2, MovesNothing DEF Upload, Mapped, Held
  <2>3. CASE page[p].todo # {}
    <3>1. page[p].todo \subseteq taken
      BY DEF OutboxInv, SentIsKnown
    <3>2. PICK c \in taken : c = Oldest(page[p].todo)
      BY <1>1, <2>3, <3>1, OldestIsOne
    <3>3. PICK k \in Calls :
            call[k] = Free /\ call' = [call EXCEPT ![k] = [at |-> "arriving", cap |-> c]]
      BY <1>3, <2>3, <3>2 DEF Upload
    <3>4. k \notin UnderWay
      BY <3>3 DEF UnderWay, Free
    <3>5. \A j \in Calls : call'[j] = IF j = k THEN [at |-> "arriving", cap |-> c]
                                     ELSE call[j]
      BY <1>1, <3>3
    <3>6. Moving' = Moving \union {c}
      BY <3>4, <3>5 DEF Moving, UnderWay
    <3>7. c \in Held \union (row \union deleted) \union dropped
      BY <1>1, <3>2 DEF OutboxInv, NothingLost, Held
    <3>8. Delivery!Send(c)
      BY <2>1, <3>6, <3>7 DEF Delivery!Send, Held, Moving, UnderWay
    <3> QED
      BY <1>1, <3>2, <3>8 DEF Delivery!DeliveryNext
  <2> QED
    BY <2>2, <2>3
<1>4. CASE Answer(p)
  <2>1. /\ page[p].call \in Calls
        /\ call' = [call EXCEPT ![page[p].call] = Free]
        /\ UNCHANGED <<record, dropped, row, deleted, jobs>>
    BY <1>4 DEF Answer, OutboxInv, SentIsKnown
  <2>2. Moving' \subseteq Moving
    BY <2>1, MovesOne DEF Free
  <2> QED
    BY <2>1, <2>2, Vanishes DEF Held
<1>5. CASE Accepted(p)
  <2> PICK c \in Captures : c = page[p].on
    BY <1>1, <1>5 DEF Accepted, RemovesRecord, OutboxInv, SentIsKnown
  <2>1. /\ c \in row \union deleted
        /\ record' = [record EXCEPT ![c] = "none"]
        /\ UNCHANGED <<dropped, row, deleted, jobs, call>>
    BY <1>1, <1>5 DEF Accepted, RemovesRecord, Removes, SetRecord, serverVars,
                      OutboxInv, SentIsKnown, OkIsTrue, Had
  <2>2. Held' = Held \ {c} /\ Moving' = Moving
    BY <1>1, <2>1, MovesNothing DEF Held
  <2>3. Delivery!LetGo(c)
    BY <2>1, <2>2 DEF Delivery!LetGo, Held, Moving, UnderWay
  <2> QED
    BY <2>1, <2>3 DEF Delivery!DeliveryNext
<1>6. CASE Refused(p)
  <2> PICK c \in Captures : c = page[p].on
    BY <1>1, <1>6 DEF Refused, OutboxInv, SentIsKnown
  <2>1. /\ record' = [record EXCEPT ![c] = "rejected"]
        /\ UNCHANGED <<dropped, row, deleted, jobs, call>>
    BY <1>1, <1>6 DEF Refused, SetRecord, serverVars, OutboxInv, SentIsKnown
  <2>2. Held' = Held \union {c} /\ Moving' = Moving
    BY <1>1, <2>1, MovesNothing DEF Held
  <2>3. Delivery!Hold(c)
    BY <2>1, <2>2 DEF Delivery!Hold, Held, Moving, UnderWay
  <2> QED
    BY <2>1, <2>3 DEF Delivery!DeliveryNext
<1> QED
  BY <1>2, <1>3, <1>4, <1>5, <1>6 DEF PageStep

\* Each step of an upload maps to File, Vanish, or to none.
LEMMA CallRefines ==
    ASSUME OutboxInv, NEW k \in Calls, CallStep(k) \/ CallFails(k)
    PROVE  Delivery!DeliveryNext \/ UNCHANGED Mapped
<1>1. /\ call \in [Calls -> CallStates] /\ jobs \in [Captures -> Nat]
      /\ UNCHANGED <<record, dropped, deleted>>
  BY DEF CallStep, CallFails, LookUp, Insert, Reread, Unheard, phoneVars,
         OutboxInv, OutboxTypeOK
<1>2. CASE (LookUp(k) \/ Reread(k) \/ Unheard(k) \/ CallFails(k))
  <2>1. UNCHANGED <<row, jobs>>
    BY <1>2 DEF LookUp, Reread, Unheard, CallFails
  <2>2. PICK x :
          /\ call' = [call EXCEPT ![k] = x]
          /\ \/ x.at \notin {"arriving", "saving"}
             \/ k \in UnderWay /\ x.cap = call[k].cap
    <3>1. CASE LookUp(k)
      <4>1. PICK a \in {"ok", "error", "bad", "saving"} :
              call' = [call EXCEPT ![k].at = a]
        BY <3>1 DEF LookUp, Step
      <4>2. call' = [call EXCEPT ![k] = [call[k] EXCEPT !.at = a]]
        BY <4>1
      <4>3. k \in UnderWay /\ [call[k] EXCEPT !.at = a].cap = call[k].cap
        BY <1>1, <3>1 DEF LookUp, UnderWay, CallStates
      <4> QED
        BY <4>2, <4>3
    <3>2. CASE Reread(k) \/ CallFails(k)
      <4>1. PICK a \in {"ok", "error"} : call' = [call EXCEPT ![k].at = a]
        BY <3>2 DEF Reread, CallFails, Step
      <4>2. call' = [call EXCEPT ![k] = [call[k] EXCEPT !.at = a]]
        BY <4>1
      <4>3. [call[k] EXCEPT !.at = a].at = a
        BY <1>1 DEF CallStates
      <4> QED
        BY <4>2, <4>3
    <3>3. CASE Unheard(k)
      <4>1. call' = [call EXCEPT ![k] = Free] /\ Free.at = "free"
        BY <3>3 DEF Unheard, Free
      <4> QED
        BY <4>1
    <3> QED
      BY <1>2, <3>1, <3>2, <3>3
  <2>3. Moving' \subseteq Moving
    BY <2>2, MovesOne
  <2> QED
    BY <1>1, <2>1, <2>3, Vanishes DEF Held
<1>3. CASE Insert(k)
  <2> PICK c \in Captures : c = call[k].cap
    BY <1>3 DEF Insert, OutboxInv, OutboxTypeOK, CallIsTrue
  <2> DEFINE x(a) == [call[k] EXCEPT !.at = a]
  <2>1. /\ call[k].at = "saving" /\ c \in Moving
    BY <1>3 DEF Insert, OutboxInv, OutboxTypeOK, CallIsTrue, Moving, UnderWay
  <2>2. \A a : x(a).at = a
    BY <1>1 DEF CallStates
  <2>3. ASSUME MayInsert(c), row' = row \union {c},
               jobs' = [jobs EXCEPT ![c] = @ + 1], Step(k, "ok")
        PROVE  Delivery!DeliveryNext
    <3>1. call' = [call EXCEPT ![k] = x("ok")]
      BY <2>3 DEF Step
    <3>2. x("ok").at \notin {"arriving", "saving"}
      BY <2>2
    <3> HIDE DEF x
    <3>3. Moving' \subseteq Moving /\ Moving \ {c} \subseteq Moving'
      BY <3>1, <3>2, MovesOne
    <3>4. Moving' \in {Moving, Moving \ {c}}
      BY <3>3
    <3>5. Delivery!File(c)
      BY <1>1, <2>1, <2>3, <3>4
         DEF Delivery!File, Held, Moving, UnderWay, MayInsert
    <3> QED
      BY <2>1, <3>5 DEF Delivery!DeliveryNext
  <2>4. ASSUME Step(k, "again"), UNCHANGED <<row, jobs>>
        PROVE  Delivery!DeliveryNext
    <3>1. call' = [call EXCEPT ![k] = x("again")]
      BY <2>4 DEF Step
    <3>2. x("again").at \notin {"arriving", "saving"}
      BY <2>2
    <3> HIDE DEF x
    <3>3. Moving' \subseteq Moving
      BY <3>1, <3>2, MovesOne
    <3> QED
      BY <1>1, <2>4, <3>3, Vanishes DEF Held
  <2> QED
    BY <1>3, <2>3, <2>4 DEF Insert
<1> QED
  BY <1>2, <1>3 DEF CallStep

\* The outbox and the server between them implement CaptureDelivery, for any
\* number of pages, uploads and faults.
THEOREM OutboxDelivers == Spec => DeliversCaptures
<1>1. Init => Delivery!DeliveryInit
  BY DEF Init, Delivery!DeliveryInit, Free
<1>2. OutboxInv /\ [Next]_vars =>
         [Delivery!DeliveryNext]_(Delivery!deliveryVars)
  <2> SUFFICES ASSUME OutboxInv, [Next]_vars
               PROVE  Delivery!DeliveryNext \/ UNCHANGED Mapped
    BY MappedIs DEF Mapped, Held, Moving, UnderWay, Delivery!deliveryVars
  <2>1. CASE UNCHANGED vars
    BY <2>1, MovesNothing DEF vars, phoneVars, serverVars, Mapped, Held
  <2> QED
    BY <2>1, RecordRefines, PageRefines, CallRefines DEF Next
<1> QED
  BY <1>1, <1>2, OutboxInvariant, PTL DEF Spec, DeliversCaptures, Delivery!DeliverySpec

-----------------------------------------------------------------------------
(* The photos on the volume *)

\* What a purge has unlinked stays off the disk until it is marked: an image
\* is only written for a photo that has no row yet.
PurgedIsGone == \A p \in purge.gone : p \notin disk

\* An upload under way has no row, and a deletion under way has removed the
\* image, or failed to.
RequestIsKnown ==
    \A p \in Photos :
        /\ item[p] = "uploading" => file[p] = "none"
        /\ item[p] = "deleting" => p \notin disk \/ p \in adrift

\* The inductive invariant.
RetentionInv ==
    /\ RetentionTypeOK
    /\ PurgedIsGone
    /\ RequestIsKnown
    /\ TombstoneIsTrue
    /\ DiskIsKnown

USE RetentionAssumption DEF RetentionAssumption

\* No image and no row at first.
LEMMA RetentionInit == PhotoInit => RetentionInv
  BY DEF PhotoInit, RetentionInv, RetentionTypeOK, PurgedIsGone, RequestIsKnown,
         TombstoneIsTrue, DiskIsKnown, NoPurge, Requests

\* The requests: each touches one photo.
LEMMA RetentionRequest ==
    ASSUME RetentionInv, NEW p \in Photos,
           \/ SaveImage(p) \/ CommitUpload(p) \/ LoseUpload(p)
           \/ OpenConfirm(p) \/ SaveConfirm(p)
           \/ OpenDelete(p) \/ CommitDelete(p) \/ DropRequest(p)
    PROVE  RetentionInv'
<1> USE DEF RetentionInv, RetentionTypeOK, PurgedIsGone, RequestIsKnown,
            TombstoneIsTrue, DiskIsKnown, Requests, Do, Mark, Mishap
<1>1. CASE SaveImage(p)
  BY <1>1 DEF SaveImage
<1>2. CASE CommitUpload(p)
  BY <1>2 DEF CommitUpload
<1>3. CASE LoseUpload(p)
  BY <1>3 DEF LoseUpload
<1>4. CASE OpenConfirm(p)
  BY <1>4 DEF OpenConfirm
<1>5. CASE SaveConfirm(p)
  BY <1>5 DEF SaveConfirm
<1>6. CASE OpenDelete(p)
  BY <1>6 DEF OpenDelete, RemoveFromDisk
<1>7. CASE CommitDelete(p)
  BY <1>7 DEF CommitDelete
<1>8. CASE DropRequest(p)
  BY <1>8 DEF DropRequest
<1> QED
  BY <1>1, <1>2, <1>3, <1>4, <1>5, <1>6, <1>7, <1>8

\* The worker, and time.
LEMMA RetentionWorker ==
    ASSUME RetentionInv, Purge \/ Die \/ Tick \/ UNCHANGED photoVars
    PROVE  RetentionInv'
<1> USE DEF RetentionInv, RetentionTypeOK, PurgedIsGone, RequestIsKnown,
            TombstoneIsTrue, DiskIsKnown, NoPurge, Mishap
<1>1. CASE SelectDue
  BY <1>1 DEF SelectDue, DuePhotos
<1>2. ASSUME NEW p \in Photos, Unlink(p)
      PROVE  RetentionInv'
  BY <1>2 DEF Unlink, Unlinks
<1>3. ASSUME NEW p \in Photos, UnlinkFails(p)
      PROVE  RetentionInv'
  BY <1>3 DEF UnlinkFails, Skip
<1>4. CASE CommitPurge
  <2> DEFINE Marked(p) == p \in purge.gone /\ file'[p] = "tombstone"
  <2>1. \A p \in Photos : file'[p] = file[p] \/ Marked(p)
    BY <1>4 DEF CommitPurge
  <2>2. \A p \in Photos : Marked(p) => p \notin disk /\ file[p] # "none"
    OBVIOUS
  <2>3. /\ file' \in [Photos -> {"none", "kept", "tombstone", "removed"}]
        /\ purge' = NoPurge
        /\ UNCHANGED <<disk, due, item, now, adrift, mishaps>>
    BY <1>4 DEF CommitPurge
  <2> HIDE DEF Marked
  <2>4. RetentionTypeOK'
    BY <2>3
  <2>5. (PurgedIsGone /\ RequestIsKnown)'
    BY <2>1, <2>2, <2>3
  <2>6. TombstoneIsTrue' /\ DiskIsKnown'
    BY <2>1, <2>2, <2>3
  <2> QED
    BY <2>4, <2>5, <2>6
<1>5. CASE Die
  BY <1>5 DEF Die
<1>6. CASE Tick
  BY <1>6 DEF Tick
<1>7. CASE UNCHANGED photoVars
  BY <1>7 DEF photoVars
<1> QED
  BY <1>1, <1>2, <1>3, <1>4, <1>5, <1>6, <1>7 DEF Purge

\* The invariant holds in every reachable state of the photo store.
THEOREM RetentionInvariant == PhotoSpec => []RetentionInv
<1>1. RetentionInv /\ [PhotoNext]_photoVars => RetentionInv'
  BY RetentionRequest, RetentionWorker DEF PhotoNext, AtRest
<1> QED
  BY RetentionInit, <1>1, PTL DEF PhotoSpec

\* The type of the photos' state, with what a purge has at hand.
THEOREM RetentionTypes == PhotoSpec => []RetentionTypeOK
  BY RetentionInvariant, PTL DEF RetentionInv

\* A row that says the image was deleted tells the truth.
THEOREM TombstonesAreTrue == PhotoSpec => []TombstoneIsTrue
  BY RetentionInvariant, PTL DEF RetentionInv

\* No image is left on disk that no row leads to, but for a rolled back
\* upload or a failed unlink.
THEOREM ImagesAreKnown == PhotoSpec => []DiskIsKnown
  BY RetentionInvariant, PTL DEF RetentionInv
=============================================================================
