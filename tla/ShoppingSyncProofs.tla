------------------------ MODULE ShoppingSyncProofs ------------------------
(***************************************************************************)
(* Proofs about ShoppingSync, for every number of jobs, requests, changes, *)
(* failures and crashes: the types for every number of workers, and what a *)
(* stale sensor can come from for the one worker that is deployed.         *)
(***************************************************************************)
EXTENDS ShoppingSync, JobQueueProofs

USE SyncAssumption

-----------------------------------------------------------------------------
(* The sync runs the queue: its theorems are the sync's. *)

\* What every action does to the rows of the job table is a transaction of
\* the queue, or nothing.
LEMMA StepOfQueue == [Next]_vars => [JobNext]_jobVars
  <1> SUFFICES ASSUME [Next]_vars
               PROVE  JobNext \/ UNCHANGED jobVars
    OBVIOUS
  <1>1. ASSUME NEW t \in Tabs, Change(t) \/ Request(t) \/ BreakOff(t)
        PROVE  JobNext \/ UNCHANGED jobVars
    BY <1>1 DEF Change, Request, Look, Ask, BreakOff, JobNext
  <1>2. ASSUME NEW w \in Workers, StartSync(w) \/ HandlerStep(w) \/ Die(w) \/ Housekeep(w)
        PROVE  JobNext \/ UNCHANGED jobVars
    BY <1>2 DEF StartSync, HandlerStep, ReadList, Post, PostFails, Breaks, Finish, Die,
                Housekeep, JobNext, WorkerStep
  <1>3. CASE ClockTick \/ AtRest \/ UNCHANGED vars
    BY <1>3 DEF ClockTick, AtRest, vars, JobNext
  <1> QED
    BY <1>1, <1>2, <1>3 DEF Next

\* The sync, seen on the job table alone, is the queue, so that whatever was
\* proved of the queue holds of it: a list is posted for one job by two workers
\* only after a recovery that another has overtaken.
THEOREM SyncKeepsQueueInvariant == Spec => []QueueInv
  <1>1. Init => JobInit
    BY DEF Init
  <1> QED
    BY <1>1, StepOfQueue, QueueInvariant, PTL DEF Spec, JobSpec

-----------------------------------------------------------------------------
(* Types, and the worker that holds a row exactly while it is in its       *)
(* handler.                                                                *)

StepsAgree == \A w \in Workers : Busy(w) <=> step[w] # "idle"

SyncTypes == SyncTypeOK /\ StepsAgree

\* Members of an interval from 0.
LEMMA UpTo ==
    ASSUME NEW n \in Nat
    PROVE  /\ n \in 0..n
           /\ \A m \in 0..n : m \in Nat /\ m <= n
  OBVIOUS

\* What the requests and the handler count with, in one place.
LEMMA Shape ==
    ASSUME SyncTypes
    PROVE  /\ JobTypeOK /\ StepsAgree
           /\ list \in Nat /\ list \in 0..list
           /\ page \in [Tabs -> {"idle", "changed", "asking"}]
           /\ step \in [Workers -> {"idle", "claimed", "posting", "settle"}]
           /\ names \in [Workers -> 0..list]
           /\ sensor \in 0..list
           /\ \A w \in Workers : names[w] \in Nat /\ names[w] <= list
           /\ sensor \in Nat /\ sensor <= list
           /\ failures \in Nat
           /\ missed \in SUBSET {"skipped", "never asked", "failed"}
  <1>1. /\ JobTypeOK /\ StepsAgree
        /\ list \in Nat
        /\ page \in [Tabs -> {"idle", "changed", "asking"}]
        /\ step \in [Workers -> {"idle", "claimed", "posting", "settle"}]
        /\ names \in [Workers -> 0..list]
        /\ sensor \in 0..list
        /\ failures \in Nat
        /\ missed \in SUBSET {"skipped", "never asked", "failed"}
    BY DEF SyncTypes, SyncTypeOK
  <1>2. list \in 0..list /\ sensor \in Nat /\ sensor <= list
    BY <1>1, UpTo
  <1>3. ASSUME NEW w \in Workers
        PROVE  names[w] \in Nat /\ names[w] <= list
    <2>1. names[w] \in 0..list
      BY <1>1
    <2> QED
      BY <1>1, <2>1, UpTo
  <1> QED
    BY <1>1, <1>2, <1>3

\* The first state has the right types.
LEMMA InitTypes == Init => SyncTypes
  <1> SUFFICES ASSUME Init PROVE SyncTypes
    OBVIOUS
  <1>1. JobTypeOK
    BY InitInv DEF Init, QueueInv
  <1>2. StepsAgree
    BY DEF Init, JobInit, StepsAgree, NoLease, Busy
  <1> QED
    BY <1>1, <1>2 DEF Init, SyncTypes, SyncTypeOK

\* The requests keep the types.
LEMMA RequestTypes ==
    ASSUME SyncTypes, JobTypeOK', NEW t \in Tabs, Change(t) \/ Request(t) \/ BreakOff(t)
    PROVE  SyncTypes'
  <1> USE DEF Turn
  <1>0. SyncTypeOK /\ StepsAgree
    BY DEF SyncTypes
  <1>1. UNCHANGED <<lease, step, names, sensor>>
    BY DEF Change, Request, Look, Ask, BreakOff, Enqueue, jobVars
  <1>2. StepsAgree'
    BY <1>0, <1>1 DEF StepsAgree, Busy
  <1>3. list' \in Nat /\ list <= list' /\ failures' \in Nat
    <2>1. list' \in {list, list + 1} /\ failures' \in {failures, failures + 1}
      BY DEF Change, Request, Look, Ask, BreakOff
    <2>2. list \in Nat /\ failures \in Nat
      BY <1>0 DEF SyncTypeOK
    <2> QED
      BY <2>1, <2>2
  <1>4. page' \in [Tabs -> {"idle", "changed", "asking"}]
    BY <1>0 DEF SyncTypeOK, Change, Request, Look, Ask, BreakOff
  <1>5. missed' \in SUBSET {"skipped", "never asked", "failed"}
    BY <1>0 DEF SyncTypeOK, Change, Request, Look, Ask, BreakOff
  <1>6. names' \in [Workers -> 0..list'] /\ sensor' \in 0..list'
    <2>1. list \in Nat
      BY <1>0 DEF SyncTypeOK
    <2>2. 0..list \subseteq 0..list'
      BY <1>3, <2>1
    <2> QED
      BY <1>0, <1>1, <2>2 DEF SyncTypeOK
  <1> QED
    BY <1>0, <1>1, <1>2, <1>3, <1>4, <1>5, <1>6 DEF SyncTypes, SyncTypeOK

\* The worker keeps them.
LEMMA WorkerTypes ==
    ASSUME SyncTypes, QueueInv, JobTypeOK', NEW w \in Workers,
           StartSync(w) \/ HandlerStep(w) \/ Die(w) \/ Housekeep(w)
    PROVE  SyncTypes'
  <1> USE DEF GoTo
  <1>0. /\ JobTypeOK /\ StepsAgree
        /\ list \in Nat /\ list \in 0..list
        /\ page \in [Tabs -> {"idle", "changed", "asking"}]
        /\ step \in [Workers -> {"idle", "claimed", "posting", "settle"}]
        /\ names \in [Workers -> 0..list] /\ sensor \in 0..list
        /\ failures \in Nat /\ missed \in SUBSET {"skipped", "never asked", "failed"}
    BY Shape
  <1>1. UNCHANGED <<list, page>>
    BY DEF StartSync, HandlerStep, ReadList, Post, PostFails, Breaks, Finish, Die, Housekeep,
           syncVars
  <1>2. StepsAgree'
    <2>1. CASE StartSync(w)
      <3>1. PICK j \in Jobs : lease' = [lease EXCEPT ![w] =
                            [job |-> j, attempt |-> attempts[j] + 1, at |-> now]]
        BY <2>1 DEF StartSync, Claim
      <3>2. Busy(w)' /\ \A v \in Workers : v # w => (Busy(v)' <=> Busy(v))
        BY <1>0, <3>1, QueueAssumption DEF JobTypeOK, Busy
      <3> QED
        BY <1>0, <2>1, <3>2 DEF StartSync, StepsAgree
    <2>2. CASE ReadList(w) \/ Post(w) \/ PostFails(w)
      BY <1>0, <2>2 DEF ReadList, Post, PostFails, StepsAgree, Busy, jobVars
    <2>3. CASE Breaks(w) \/ Finish(w) \/ Die(w)
      <3>1. lease' = [lease EXCEPT ![w] = NoLease] /\ step' = [step EXCEPT ![w] = "idle"]
        BY <2>3 DEF Breaks, Finish, Die, FailFinal, Complete, Crash
      <3> QED
        BY <1>0, <3>1, Released DEF StepsAgree
    <2>4. CASE Housekeep(w)
      BY <1>0, <2>4, Recovers DEF Housekeep, syncVars, StepsAgree, Busy
    <2> QED
      BY <2>1, <2>2, <2>3, <2>4 DEF HandlerStep
  <1>3. step' \in [Workers -> {"idle", "claimed", "posting", "settle"}]
    BY <1>0 DEF StartSync, HandlerStep, ReadList, Post, PostFails, Breaks, Finish, Die,
                Housekeep, syncVars
  <1>4. names' \in [Workers -> 0..list]
    <2>1. names' = names \/ names' = [names EXCEPT ![w] = list]
      BY DEF StartSync, HandlerStep, ReadList, Post, PostFails, Breaks, Finish, Die,
             Housekeep, syncVars, ToBuy
    <2> QED
      BY <1>0, <2>1
  <1>5. sensor' \in 0..list
    <2>1. sensor' \in {sensor, names[w]}
      BY DEF StartSync, HandlerStep, ReadList, Post, PostFails, Breaks, Finish, Die,
             Housekeep, syncVars, MaybePosted
    <2>2. names[w] \in 0..list
      BY <1>0
    <2> QED
      BY <1>0, <2>1, <2>2
  <1>6. failures' \in Nat /\ missed' \in SUBSET {"skipped", "never asked", "failed"}
    <2>1. failures' \in {failures, failures + 1}
      BY DEF StartSync, HandlerStep, ReadList, Post, PostFails, Breaks, Finish, Die,
             Housekeep, syncVars
    <2>2. missed' \in {{}, missed, missed \union {"failed"}}
      BY DEF StartSync, HandlerStep, ReadList, Post, PostFails, Breaks, Finish, Die,
             Housekeep, syncVars
    <2>3. failures' \in Nat
      <3>1. failures \in Nat
        BY <1>0
      <3> QED
        BY <2>1, <3>1
    <2>4. missed' \in SUBSET {"skipped", "never asked", "failed"}
      BY <1>0, <2>2
    <2> QED
      BY <2>3, <2>4
  <1> QED
    BY <1>0, <1>1, <1>2, <1>3, <1>4, <1>5, <1>6 DEF SyncTypes, SyncTypeOK

\* Every step keeps them.
LEMMA NextTypes == QueueInv /\ QueueInv' /\ SyncTypes /\ [Next]_vars => SyncTypes'
  <1> SUFFICES ASSUME QueueInv, QueueInv', SyncTypes, [Next]_vars
               PROVE  SyncTypes'
    OBVIOUS
  <1>1. JobTypeOK'
    BY DEF QueueInv
  <1>2. CASE ClockTick \/ AtRest \/ UNCHANGED vars
    <2>1. UNCHANGED <<syncVars, lease>>
      BY <1>2 DEF ClockTick, Tick, AtRest, vars, jobVars
    <2> QED
      BY <1>1, <2>1 DEF syncVars, SyncTypes, SyncTypeOK, StepsAgree, Busy
  <1> QED
    BY <1>1, <1>2, RequestTypes, WorkerTypes DEF Next

\* Types, and the workers' bookkeeping, in every reachable state.
THEOREM SyncTypesHold == Spec => []SyncTypes
  BY InitTypes, NextTypes, SyncKeepsQueueInvariant, PTL DEF Spec

\* Every variable keeps its type: what the sensor shows was on the list once.
THEOREM SyncTypesAreRight == Spec => []SyncTypeOK
  <1>1. SyncTypes => SyncTypeOK
    BY DEF SyncTypes
  <1> QED
    BY <1>1, SyncTypesHold, PTL

-----------------------------------------------------------------------------
(***************************************************************************)
(* A stale sensor is explained.  Not inductive: between a change and its   *)
(* post many things can be under way.  The strengthening says that one of  *)
(* them is: a request that is still to ask, a job that waits, a row that a *)
(* dead worker left behind, or a handler that has yet to read the list or  *)
(* has read it as it is now.  It needs the one worker of the deployment:   *)
(* of two, the one that read the list first may post last.                 *)
(***************************************************************************)

Unattended(j) == status[j] = "running" /\ \A w \in Workers : lease[w].job # j

UnderWay ==
    \/ \E t \in Tabs : page[t] # "idle"
    \/ \E j \in Jobs : status[j] = "queued" \/ Unattended(j)
    \/ \E w \in Workers : step[w] = "claimed"
    \/ \E w \in Workers : step[w] = "posting" /\ names[w] = list

\* What a handler is about to post is no older than what is shown.
NeverBack == \A w \in Workers : step[w] = "posting" => sensor <= names[w]

StaleIsAttended == sensor # list => missed # {} \/ UnderWay

SyncInv == NeverBack /\ StaleIsAttended

\* At the start the sensor shows the empty list.
LEMMA InitSync == Init => SyncInv
  BY DEF Init, SyncInv, NeverBack, StaleIsAttended

\* queue_ha_sync() asks, or has met a job that will read the list, or one
\* that may have read it, which is noted.
LEMMA RequestSync ==
    ASSUME SyncTypes, SyncInv, NEW t \in Tabs, Change(t) \/ Request(t) \/ BreakOff(t)
    PROVE  SyncInv'
  <1> USE DEF Turn
  <1>1. /\ JobTypeOK /\ StepsAgree
        /\ page \in [Tabs -> {"idle", "changed", "asking"}]
        /\ step \in [Workers -> {"idle", "claimed", "posting", "settle"}]
    BY DEF SyncTypes, SyncTypeOK
  <1>2. UNCHANGED <<lease, step, names, sensor>>
    BY DEF Change, Request, Look, Ask, BreakOff, Enqueue, jobVars
  <1>3. NeverBack'
    BY <1>2 DEF SyncInv, NeverBack
  <1>4. missed' # {} \/ UnderWay'
    <2>1. CASE Change(t)
      BY <1>1, <2>1 DEF Change, UnderWay
    <2>2. ASSUME Look(t), NEW j \in Jobs, Asked(j)
          PROVE  missed' # {} \/ UnderWay'
      <3>1. UNCHANGED status
        BY <2>2 DEF Look, jobVars
      <3>2. CASE status[j] = "queued" \/ Unattended(j)
        BY <1>2, <3>1, <3>2 DEF UnderWay, Unattended
      <3>3. CASE status[j] = "running" /\ ~Unattended(j)
        <4>1. PICK w \in Workers : lease[w].job = j
          BY <3>3 DEF Unattended
        <4>2. step[w] \in {"claimed", "posting", "settle"}
          BY <1>1, <4>1, QueueAssumption DEF StepsAgree, Busy
        <4>3. step[w] = "claimed" => UnderWay'
          BY <1>2 DEF UnderWay
        <4>4. step[w] \in {"posting", "settle"} => missed' # {}
          BY <2>2 DEF Look
        <4> QED
          BY <4>2, <4>3, <4>4
      <3> QED
        BY <2>2, <3>2, <3>3 DEF Asked
    <2>3. CASE Look(t) /\ ~ \E j \in Jobs : Asked(j)
      BY <1>1, <2>3 DEF Look, UnderWay
    <2>4. CASE Ask(t)
      BY <1>1, <2>4 DEF Ask, Enqueue, JobTypeOK, UnderWay
    <2>5. CASE BreakOff(t)
      BY <2>5 DEF BreakOff
    <2> QED
      BY <2>1, <2>2, <2>3, <2>4, <2>5 DEF Request
  <1> QED
    BY <1>3, <1>4 DEF SyncInv, StaleIsAttended

\* A claim turns a job that waits into a handler that has yet to read.
LEMMA StartSyncSync ==
    ASSUME SyncTypes, SyncInv, NEW w \in Workers, StartSync(w)
    PROVE  SyncInv'
  <1>1. /\ step \in [Workers -> {"idle", "claimed", "posting", "settle"}]
        /\ step' = [step EXCEPT ![w] = "claimed"]
        /\ UNCHANGED <<names, sensor>>
    BY DEF SyncTypes, SyncTypeOK, StartSync, GoTo
  <1>2. NeverBack'
    BY <1>1 DEF SyncInv, NeverBack
  <1>3. step'[w] = "claimed"
    BY <1>1
  <1>4. UnderWay'
    BY <1>3 DEF UnderWay
  <1> QED
    BY <1>2, <1>4 DEF SyncInv, StaleIsAttended

\* The handler's own steps: it posts what it read, or notes that it did not.
LEMMA HandlerSync ==
    ASSUME OneWorker, SyncTypes, SoleInv, SyncInv, NEW w \in Workers, HandlerStep(w)
    PROVE  SyncInv'
  <1>1. \A v \in Workers : v = w
    BY DEF OneWorker
  <1>2. /\ JobTypeOK
        /\ step \in [Workers -> {"idle", "claimed", "posting", "settle"}]
        /\ names[w] \in Nat /\ names[w] <= list /\ list \in Nat /\ sensor \in Nat
        /\ sensor <= list /\ names \in [Workers -> 0..list]
    BY Shape
  <1>3. CASE ReadList(w)
    <2>1. /\ step' = [step EXCEPT ![w] = "posting"] /\ names' = [names EXCEPT ![w] = list]
          /\ UNCHANGED <<sensor, list>>
      BY <1>3 DEF ReadList, ToBuy, GoTo
    <2>2. step'[w] = "posting" /\ names'[w] = list'
      BY <1>2, <2>1
    <2>3. NeverBack'
      BY <1>1, <1>2, <2>1, <2>2 DEF NeverBack
    <2>4. UnderWay'
      BY <2>2 DEF UnderWay
    <2> QED
      BY <2>3, <2>4 DEF SyncInv, StaleIsAttended
  <1>4. CASE Post(w)
    <2>1. /\ step[w] = "posting" /\ step'[w] = "settle" /\ sensor' = names[w]
          /\ UNCHANGED <<status, lease, page, list, names, missed>>
      BY <1>2, <1>4 DEF Post, GoTo, jobVars
    <2>2. NeverBack'
      BY <1>1, <2>1 DEF NeverBack
    <2>3. sensor' # list' => sensor # list /\ names[w] # list
      BY <1>2, <2>1 DEF SyncInv, NeverBack
    <2>4. UnderWay /\ names[w] # list => UnderWay'
      BY <1>1, <2>1 DEF UnderWay, Unattended
    <2> QED
      BY <2>1, <2>2, <2>3, <2>4 DEF SyncInv, StaleIsAttended
  <1>5. CASE PostFails(w) \/ Breaks(w)
    <2>1. missed' # {} /\ step'[w] # "posting"
      BY <1>2, <1>5 DEF PostFails, Breaks, GoTo
    <2>2. NeverBack'
      BY <1>1, <2>1 DEF NeverBack
    <2> QED
      BY <2>1, <2>2 DEF SyncInv, StaleIsAttended
  <1>6. CASE Finish(w)
    <2>1. /\ step[w] = "settle" /\ step'[w] = "idle" /\ Busy(w)
          /\ status' = [status EXCEPT ![lease[w].job] = "done"]
          /\ lease' = [lease EXCEPT ![w] = NoLease]
          /\ UNCHANGED <<page, list, names, sensor, missed>>
      BY <1>2, <1>6 DEF Finish, Complete, GoTo
    <2>2. lease[w].job \in Jobs /\ status[lease[w].job] = "running"
      BY <1>2, <2>1, LeaseShape DEF SoleInv, LeaseIsCurrent
    <2>3. \A v \in Workers : lease'[v].job = NoJob
      BY <1>1, <1>2, <2>1 DEF JobTypeOK, NoLease
    <2>4. ASSUME NEW j \in Jobs, status[j] = "queued" \/ Unattended(j)
          PROVE  status'[j] = "queued" \/ Unattended(j)'
      <3>1. j # lease[w].job /\ j # NoJob
        BY <2>2, <2>4, QueueAssumption DEF Unattended
      <3>2. status'[j] = status[j]
        BY <1>2, <2>1, <3>1 DEF JobTypeOK
      <3> QED
        BY <2>3, <2>4, <3>1, <3>2 DEF Unattended
    <2>5. UnderWay => UnderWay'
      BY <1>1, <2>1, <2>4 DEF UnderWay
    <2>6. NeverBack'
      BY <1>1, <2>1 DEF NeverBack
    <2> QED
      BY <2>1, <2>5, <2>6 DEF SyncInv, StaleIsAttended
  <1> QED
    BY <1>3, <1>4, <1>5, <1>6 DEF HandlerStep

\* A worker that dies leaves its row for recover_stuck() to find.
LEMMA DieSync ==
    ASSUME OneWorker, SyncTypes, SoleInv, SyncInv, NEW w \in Workers, Die(w)
    PROVE  SyncInv'
  <1>1. \A v \in Workers : v = w
    BY DEF OneWorker
  <1>2. /\ JobTypeOK /\ StepsAgree
        /\ step \in [Workers -> {"idle", "claimed", "posting", "settle"}]
    BY DEF SyncTypes, SyncTypeOK
  <1>3. Busy(w) /\ step'[w] = "idle" /\ UNCHANGED status
    BY <1>2 DEF Die, Crash, GoTo, StepsAgree
  <1>4. PICK j \in Jobs : j = lease[w].job /\ status[j] = "running"
    BY <1>2, <1>3, LeaseShape DEF SoleInv, LeaseIsCurrent
  <1>5. \A v \in Workers : lease'[v].job = NoJob
    BY <1>1, <1>2 DEF Die, Crash, NoLease, JobTypeOK
  <1>6. j # NoJob
    BY QueueAssumption
  <1>7. UnderWay'
    BY <1>3, <1>4, <1>5, <1>6 DEF Unattended, UnderWay
  <1>8. NeverBack'
    BY <1>1, <1>3 DEF NeverBack
  <1> QED
    BY <1>7, <1>8 DEF SyncInv, StaleIsAttended

\* Recovery puts a row that nobody holds back in the queue.
LEMMA HousekeepSync ==
    ASSUME SoleInv, QueueInv, SyncInv, NEW w \in Workers, Housekeep(w)
    PROVE  SyncInv'
  <1>1. UNCHANGED <<lease, list, page, step, names, sensor, missed>>
    BY Recovers DEF Housekeep, syncVars
  <1>2. ASSUME NEW j \in Jobs, status[j] = "queued" \/ Unattended(j)
        PROVE  status'[j] = "queued" \/ Unattended(j)'
    BY <1>1, <1>2, SoleRecovers DEF Housekeep, Unattended
  <1>3. NeverBack'
    BY <1>1 DEF SyncInv, NeverBack
  <1>4. UnderWay => UnderWay'
    BY <1>1, <1>2 DEF UnderWay
  <1> QED
    BY <1>1, <1>3, <1>4 DEF SyncInv, StaleIsAttended

\* Every step keeps the strengthened invariant.
LEMMA NextSync ==
    ASSUME OneWorker, SoleInv, SyncTypes, QueueInv, SyncInv, [Next]_vars
    PROVE  SyncInv'
  <1>1. CASE ClockTick \/ AtRest \/ UNCHANGED vars
    <2>1. UNCHANGED <<list, page, step, names, sensor, missed, status, lease>>
      BY <1>1 DEF ClockTick, Tick, AtRest, vars, jobVars, syncVars
    <2> QED
      BY <2>1 DEF SyncInv, NeverBack, StaleIsAttended, UnderWay, Unattended
  <1> QED
    BY <1>1, RequestSync, StartSyncSync, HandlerSync, DieSync, HousekeepSync DEF Next

\* With one worker: once nothing is under way, a sensor that differs from the
\* list is due to a post that failed, a request that broke off, or a change
\* that met the handler between its read and its end.
THEOREM StaleSensorsAreExplained ==
    ASSUME OneWorker
    PROVE  Spec => []StaleIsExplained
  <1>1. Init => JobInit
    BY DEF Init
  <1>2. Spec => []SoleInv
    BY <1>1, StepOfQueue, SoleInvariant, PTL DEF Spec, JobSpec
  <1>3. SoleInv /\ QueueInv /\ SyncTypes /\ SyncInv /\ [Next]_vars => SyncInv'
    BY NextSync
  <1>4. Spec => []SyncInv
    BY <1>2, <1>3, InitSync, SyncTypesHold, SyncKeepsQueueInvariant, PTL DEF Spec
  <1>5. SoleInv /\ SyncTypes /\ SyncInv => StaleIsExplained
    <2> SUFFICES ASSUME SoleInv, SyncTypes, SyncInv, sensor # list,
                        \A t \in Tabs : page[t] = "idle",
                        \A j \in Jobs : status[j] = "absent" \/ Settled(j)
                 PROVE  missed # {}
      BY DEF StaleIsExplained
    <2>1. ASSUME NEW w \in Workers
          PROVE  step[w] = "idle"
      <3>1. Busy(w) => lease[w].job \in Jobs /\ status[lease[w].job] = "running"
        BY LeaseShape DEF SoleInv, LeaseIsCurrent
      <3> QED
        BY <3>1 DEF SyncTypes, StepsAgree, Settled
    <2>2. ~UnderWay
      BY <2>1 DEF UnderWay, Unattended, Settled
    <2> QED
      BY <2>2 DEF SyncInv, StaleIsAttended
  <1> QED
    BY <1>2, <1>4, <1>5, SyncTypesHold, PTL
=============================================================================
