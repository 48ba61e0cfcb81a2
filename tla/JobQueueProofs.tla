--------------------------- MODULE JobQueueProofs ---------------------------
(***************************************************************************)
(* Proofs about JobQueue, for every number of jobs, workers, attempts and  *)
(* crashes, every backoff table and every handler duration that satisfies  *)
(* LeaseAssumption.  The first part is about any number of workers, where  *)
(* one recovery can overtake another; the second about the one worker that *)
(* docker-compose.yml runs, where none can.                                *)
(***************************************************************************)
EXTENDS JobQueue, FiniteSetTheorems, TLAPS

One(b) == IF b THEN 1 ELSE 0

\* The worker that claimed the row last still executes it.
Current(w, j) == lease[w].job = j /\ lease[w].attempt = attempts[j]
Held(j) == status[j] = "running" /\ \E w \in Workers : Current(w, j)

\* A crash has left the row behind.
Orphan(j) == status[j] = "running" /\ ~ \E w \in Workers : Current(w, j)

\* A start of the row is still to come, if nothing settles it.
Loose(j) == status[j] = "queued" \/ Orphan(j)

\* The executors that may still hand the row back, and the recoveries of it
\* that have been selected and not yet written.
Late(j) == {w \in Executors(j) : lease[w].attempt < MaxAttempts}
Recoveries(j) == {w \in Workers : j \in found[w].jobs}

\* The crashes in the row that have been recovered from, and how many of the
\* workers can be late with that recovery.
Survived(j) == lost[j] - One(Orphan(j))
Others == Cardinality(Workers) - 1

\* A worker's copy is never newer than its row, and a live handler is never
\* older than MaxRun: Tick waits for it.
CopyOK(w) ==
    /\ Busy(w) =>
         /\ status[lease[w].job] # "absent"
         /\ lease[w].attempt <= attempts[lease[w].job]
         /\ lease[w].at <= now /\ now <= lease[w].at + MaxRun
    /\ Busy(w) /\ lease[w].attempt = attempts[lease[w].job]
               /\ status[lease[w].job] = "running"
         => runAfter[lease[w].job] = lease[w].at
    /\ Recovering(w) => ~Busy(w) /\ \A j \in found[w].jobs : status[j] # "absent"

\* SingleExecutor, strengthened: the one execution no repeat accounts for is
\* that of the worker that claimed the row last.
HoldersOK(j) == Cardinality(Executors(j)) <= undone[j] + One(Held(j))

\* StartsBounded, strengthened: a job at its last attempt has a start left
\* for each executor that may hand it back, and one more if it is loose.
StartsOK(j) ==
    attempts[j] >= MaxAttempts =>
        attempts[j] + One(Loose(j)) + Cardinality(Late(j)) <= MaxAttempts + lost[j] + undone[j]

\* A crash is recovered from once by each worker at most: the pending
\* recoveries of a row that is no longer stuck are repeats to come.
RepeatsOK(j) ==
    /\ One(Orphan(j)) <= lost[j]
    /\ undone[j] <= Others * Survived(j)
    /\ ~Stuck(j) => undone[j] + Cardinality(Recoveries(j)) <= Others * Survived(j)

RowOK(j) ==
    /\ status[j] = "absent" => attempts[j] = 0
    /\ HoldersOK(j)
    /\ StartsOK(j)
    /\ RepeatsOK(j)

\* The inductive invariant.
QueueInv ==
    /\ JobTypeOK
    /\ \A w \in Workers : CopyOK(w)
    /\ \A j \in Jobs : RowOK(j)

OneWorker == \A v, w \in Workers : v = w

USE QueueAssumption

-----------------------------------------------------------------------------
(* Arithmetic and counting. *)

\* The bounds grow with the crashes they count.
LEMMA Grows ==
    ASSUME NEW k \in Nat, NEW a \in Nat, NEW b \in Nat, a <= b
    PROVE  /\ k * a \in Nat /\ k * a <= k * b
           /\ k * (a + 1) = k * a + k
  <1>1. k * a \in Nat /\ k * (a + 1) = k * a + k
    BY SMT
  <1>2. b - a \in Nat /\ k * b = k * a + k * (b - a) /\ k * (b - a) \in Nat
    BY SMT
  <1> QED
    BY <1>1, <1>2

\* One more worker counts every crash once more.
LEMMA OnceMore == ASSUME NEW k \in Nat, NEW a \in Nat PROVE (k + 1) * a = k * a + a
  BY SMT

\* A start taken, or a crash that may free one, stays within a bound that had
\* room for it.
LEMMA Room ==
    ASSUME NEW a \in Nat, NEW m \in Nat, NEW l \in Nat, NEW u \in Nat,
           NEW c \in Nat, NEW d \in Nat, d <= c
    PROVE  /\ a + 1 + c <= m + l + u => a + 1 + d <= m + l + u
           /\ a + c <= m + l + u => \A o \in {0, 1} : a + o + d <= m + (l + 1) + u
  BY SMT

\* What has not used up its share is within the bound.
LEMMA Under ==
    ASSUME NEW a \in Nat, NEW m \in Nat, NEW l \in Nat, NEW u \in Nat, NEW c \in Nat,
           a <= m, c <= u
    PROVE  a + c <= m + l + u
  BY SMT

\* Workers are counted in natural numbers.
LEMMA Counted ==
    ASSUME NEW S, S \subseteq Workers
    PROVE  IsFiniteSet(S) /\ Cardinality(S) \in Nat /\ Cardinality(S) <= Cardinality(Workers)
  BY FS_Subset, FS_CardinalityType

\* A smaller set of workers counts less, a worker taken away one less, and a
\* set without a given worker leaves one out.
LEMMA Counts ==
    ASSUME NEW S, S \subseteq Workers, NEW T, T \subseteq S, NEW w \in Workers
    PROVE  /\ Cardinality(T) \in Nat /\ Cardinality(T) <= Cardinality(S)
           /\ w \in S => Cardinality(S \ {w}) = Cardinality(S) - 1
           /\ w \notin S => Cardinality(S \union {w}) = Cardinality(S) + 1
           /\ w \in S => Cardinality(S) >= 1
           /\ w \notin S => Cardinality(S) <= Others
  <1>1. IsFiniteSet(S) /\ Cardinality(S) \in Nat /\ Cardinality(T) \in Nat
    BY Counted
  <1>2. Cardinality(T) <= Cardinality(S)
    BY <1>1, FS_Subset
  <1>3. w \in S => Cardinality(S \ {w}) = Cardinality(S) - 1
    BY <1>1, FS_RemoveElement
  <1>4. w \notin S => Cardinality(S \union {w}) = Cardinality(S) + 1
    BY <1>1, FS_AddElement
  <1>5. w \in S => Cardinality(S) >= 1
    <2>1. Cardinality(S \ {w}) \in Nat
      BY Counted
    <2> QED
      BY <1>1, <1>3, <2>1
  <1>6. w \notin S => Cardinality(S) <= Others
    <2>1. Cardinality(S \union {w}) <= Cardinality(Workers)
      BY Counted
    <2>2. Cardinality(Workers) \in Nat
      BY Counted
    <2> QED
      BY <1>1, <1>4, <2>1, <2>2 DEF Others
  <1> QED
    BY <1>1, <1>2, <1>3, <1>4, <1>5, <1>6

\* There is a worker, so the others can be counted.
LEMMA OthersCounted == Others \in Nat /\ Cardinality(Workers) = Others + 1
  <1>1. PICK w : w \in Workers
    OBVIOUS
  <1>2. Cardinality(Workers) >= 1 /\ Cardinality(Workers) \in Nat
    BY <1>1, Counts, Counted
  <1> QED
    BY <1>2 DEF Others

\* Two workers of a set that counts one are the same.
LEMMA OneOfThem ==
    ASSUME NEW S, S \subseteq Workers, Cardinality(S) <= 1, NEW v \in S, NEW w \in S
    PROVE  v = w
  <1> SUFFICES ASSUME v # w PROVE FALSE
    OBVIOUS
  <1>1. w \in S \ {v} /\ S \ {v} \subseteq Workers
    OBVIOUS
  <1>2. Cardinality(S \ {v}) >= 1 /\ Cardinality(S \ {v}) = Cardinality(S) - 1
    BY <1>1, Counts
  <1>3. Cardinality(S) \in Nat
    BY Counted
  <1> QED
    BY <1>2, <1>3

\* With one worker nobody is left to be late.
LEMMA OneWorkerAlone == OneWorker => Others = 0
  <1> SUFFICES ASSUME OneWorker PROVE Others = 0
    OBVIOUS
  <1>1. PICK w : w \in Workers
    OBVIOUS
  <1>2. Workers = {} \union {w}
    BY <1>1 DEF OneWorker
  <1>3. Cardinality({} \union {w}) = Cardinality({}) + 1
    BY <1>1, Counts
  <1>4. Cardinality({}) = 0
    BY FS_EmptySet
  <1> QED
    BY <1>2, <1>3, <1>4 DEF Others

-----------------------------------------------------------------------------
(* What the invariant says of one row and one copy. *)

\* The wait fail() looks up in BACKOFF_SECONDS is in the table for every
\* attempt number, past the end of the table too.
LEMMA BackoffDefined ==
    ASSUME NEW n \in Nat \ {0}
    PROVE  BackoffFor(n) \in Nat
  BY DEF BackoffFor

\* What a worker's copy of its row can be.
LEMMA LeaseShape ==
    ASSUME JobTypeOK, NEW w \in Workers
    PROVE  /\ Busy(w) => lease[w] \in Lease /\ lease[w].job \in Jobs
           /\ ~Busy(w) => lease[w] = NoLease /\ lease[w].job = NoJob
  BY DEF JobTypeOK, Busy, Lease, NoLease

\* The numbers and sets of workers a row's conditions are about.
LEMMA RowTypes ==
    ASSUME JobTypeOK, NEW j \in Jobs
    PROVE  /\ attempts[j] \in Nat /\ lost[j] \in Nat /\ undone[j] \in Nat
           /\ runAfter[j] \in Nat /\ now \in Nat
           /\ Executors(j) \subseteq Workers /\ Late(j) \subseteq Executors(j)
           /\ Recoveries(j) \subseteq Workers
           /\ Cardinality(Executors(j)) \in Nat /\ Cardinality(Late(j)) \in Nat
           /\ Cardinality(Recoveries(j)) \in Nat
           /\ \A w \in Executors(j) : Busy(w)
  <1>1. Executors(j) \subseteq Workers /\ Late(j) \subseteq Executors(j)
        /\ Recoveries(j) \subseteq Workers
    BY DEF Executors, Late, Recoveries
  <1>2. \A w \in Executors(j) : Busy(w)
    BY DEF Executors, Busy
  <1> QED
    BY <1>1, <1>2, Counted DEF JobTypeOK

\* The row of a live handler counts as stuck only if there is one worker.
LEMMA StuckIsOrphan ==
    ASSUME QueueInv, NEW j \in Jobs, Stuck(j)
    PROVE  Orphan(j) \/ (OneWorker /\ \A w \in Workers : Busy(w))
  <1> SUFFICES ASSUME ~Orphan(j)
               PROVE  OneWorker /\ \A w \in Workers : Busy(w)
    OBVIOUS
  <1>1. PICK w \in Workers : lease[w].job = j /\ lease[w].attempt = attempts[j]
    BY DEF Stuck, Orphan, Current
  <1>2. Busy(w)
    BY <1>1 DEF Busy
  <1>3. lease[w].at \in Nat /\ now \in Nat
    BY <1>2, LeaseShape DEF QueueInv, Lease, JobTypeOK
  <1>4. runAfter[j] = lease[w].at /\ now <= lease[w].at + MaxRun
    BY <1>1, <1>2 DEF QueueInv, CopyOK, Stuck
  <1>5. ~(MaxRun < StuckAfter)
    BY <1>3, <1>4 DEF Stuck
  <1>6. OneWorker
    BY <1>5, LeaseAssumption DEF OneWorker
  <1> QED
    BY <1>2, <1>6 DEF OneWorker

\* What follows from the counts of repeats.
LEMMA RepeatBounds ==
    ASSUME QueueInv, NEW j \in Jobs
    PROVE  /\ Survived(j) \in Nat /\ Survived(j) <= lost[j]
           /\ Orphan(j) => lost[j] = Survived(j) + 1
           /\ ~Orphan(j) => lost[j] = Survived(j)
           /\ Others * lost[j] \in Nat /\ Others * Survived(j) \in Nat
           /\ Others * Survived(j) <= Others * lost[j]
           /\ Orphan(j) => Others * lost[j] = Others * Survived(j) + Others
           /\ undone[j] <= Others * lost[j]
           /\ OneWorker => undone[j] = 0
  <1>1. lost[j] \in Nat /\ undone[j] \in Nat
    BY RowTypes DEF QueueInv
  <1>2. One(Orphan(j)) <= lost[j] /\ undone[j] <= Others * Survived(j)
    BY DEF QueueInv, RowOK, RepeatsOK
  <1>3. /\ Survived(j) \in Nat /\ Survived(j) <= lost[j]
        /\ Orphan(j) => lost[j] = Survived(j) + 1
        /\ ~Orphan(j) => lost[j] = Survived(j)
    BY <1>1, <1>2, SMTT(30) DEF Survived, One
  <1>4. /\ Others * Survived(j) \in Nat
        /\ Others * Survived(j) <= Others * lost[j]
        /\ Others * (Survived(j) + 1) = Others * Survived(j) + Others
    BY <1>1, <1>3, Grows, OthersCounted
  <1>5. Others * lost[j] \in Nat
    BY <1>1, Grows, OthersCounted
  <1>6. undone[j] <= Others * lost[j]
    BY <1>1, <1>2, <1>4, <1>5
  <1>7. OneWorker => undone[j] = 0
    <2> SUFFICES ASSUME OneWorker PROVE undone[j] = 0
      OBVIOUS
    <2>1. Others = 0
      BY OneWorkerAlone
    <2>2. undone[j] <= 0 * lost[j]
      BY <1>6, <2>1
    <2> QED
      BY <1>1, <2>2
  <1> QED
    BY <1>3, <1>4, <1>5, <1>6, <1>7

\* A row is as good as it was if neither it nor its executors change, and no
\* recovery of it is selected unless it is stuck.
LEMMA RowKept ==
    ASSUME QueueInv, NEW j \in Jobs,
           status'[j] = status[j], attempts'[j] = attempts[j],
           lost'[j] = lost[j], undone'[j] = undone[j],
           Executors(j)' = Executors(j),
           \A w \in Executors(j) : lease'[w] = lease[w],
           ~Stuck(j)' => ~Stuck(j) /\ Recoveries(j)' \subseteq Recoveries(j)
    PROVE  RowOK(j)'
  <1>1. Late(j)' = Late(j)
    BY DEF Late
  <1>2. ASSUME NEW w \in Workers
        PROVE  Current(w, j)' <=> Current(w, j)
    BY DEF Current, Executors
  <1>3. (Held(j)' <=> Held(j)) /\ (Orphan(j)' <=> Orphan(j)) /\ (Loose(j)' <=> Loose(j))
    BY <1>2 DEF Held, Orphan, Loose
  <1>4. HoldersOK(j)' /\ StartsOK(j)'
    BY <1>1, <1>3 DEF QueueInv, RowOK, HoldersOK, StartsOK, One
  <1>5. Survived(j)' = Survived(j)
    BY <1>3 DEF Survived, One
  <1>6. ~Stuck(j)' => undone'[j] + Cardinality(Recoveries(j)') <= Others * Survived(j)'
    <2> SUFFICES ASSUME ~Stuck(j)'
                 PROVE  undone'[j] + Cardinality(Recoveries(j)') <= Others * Survived(j)'
      OBVIOUS
    <2>1. /\ Cardinality(Recoveries(j)') \in Nat
          /\ Cardinality(Recoveries(j)') <= Cardinality(Recoveries(j))
      BY Counts, RowTypes DEF QueueInv
    <2>2. undone[j] + Cardinality(Recoveries(j)) <= Others * Survived(j)
      BY DEF QueueInv, RowOK, RepeatsOK
    <2>3. Others * Survived(j) \in Nat /\ undone[j] \in Nat /\ Cardinality(Recoveries(j)) \in Nat
      BY RepeatBounds, RowTypes DEF QueueInv
    <2> QED
      BY <1>5, <2>1, <2>2, <2>3
  <1>7. RepeatsOK(j)'
    BY <1>3, <1>5, <1>6 DEF QueueInv, RowOK, RepeatsOK, One
  <1> QED
    BY <1>4, <1>7 DEF QueueInv, RowOK

-----------------------------------------------------------------------------
(* Every transaction preserves the invariant. *)

\* An empty table satisfies the invariant.
LEMMA InitInv == JobInit => QueueInv
  <1> SUFFICES ASSUME JobInit PROVE QueueInv
    OBVIOUS
  <1>1. JobTypeOK
    BY DEF JobInit, JobTypeOK, Statuses, Found, NothingFound
  <1>2. ASSUME NEW w \in Workers PROVE CopyOK(w)
    BY DEF JobInit, CopyOK, Busy, Recovering, NoLease, NothingFound
  <1>3. ASSUME NEW j \in Jobs PROVE RowOK(j)
    <2>1. Executors(j) = {} /\ Late(j) = {} /\ Recoveries(j) = {}
      BY DEF JobInit, Executors, Late, Recoveries, NoLease, NothingFound
    <2>2. Cardinality({}) = 0
      BY FS_EmptySet
    <2>3. ~Orphan(j) /\ ~Loose(j) /\ ~Held(j) /\ attempts[j] = 0
          /\ lost[j] = 0 /\ undone[j] = 0
      BY DEF JobInit, Orphan, Loose, Held
    <2>4. Others * Survived(j) \in Nat
      <3>1. One(Orphan(j)) = 0
        BY <2>3 DEF One
      <3>2. Survived(j) = 0
        BY <2>3, <3>1 DEF Survived
      <3> QED
        BY <3>2, Grows, OthersCounted
    <2> QED
      BY <2>1, <2>2, <2>3, <2>4 DEF RowOK, HoldersOK, StartsOK, RepeatsOK, One
  <1> QED
    BY <1>1, <1>2, <1>3 DEF QueueInv

\* A new row is nobody's and has all its starts left.
LEMMA EnqueueInv ==
    ASSUME QueueInv, NEW j \in Jobs, Enqueue(j)
    PROVE  QueueInv'
  <1> USE DEF Enqueue
  <1>1. JobTypeOK'
    BY DEF QueueInv, JobTypeOK, Statuses
  <1>2. status'[j] = "queued" /\ \A k \in Jobs : k # j => status'[k] = status[k]
    BY DEF QueueInv, JobTypeOK
  <1>3. ASSUME NEW w \in Workers PROVE CopyOK(w)'
    <2>1. \A k \in found[w].jobs : k \in Jobs
      BY DEF QueueInv, JobTypeOK, Found
    <2>2. Busy(w) => lease[w].job \in Jobs /\ lease[w].job # j
      BY LeaseShape DEF QueueInv, CopyOK
    <2>3. Busy(w) => runAfter'[lease[w].job] = runAfter[lease[w].job]
      BY <2>2 DEF QueueInv, JobTypeOK
    <2>4. CopyOK(w)
      BY DEF QueueInv
    <2> QED
      BY <1>2, <2>1, <2>2, <2>3, <2>4 DEF CopyOK, Busy, Recovering
  <1>4. ASSUME NEW k \in Jobs PROVE RowOK(k)'
    <2>1. Executors(k)' = Executors(k) /\ Recoveries(k)' = Recoveries(k)
      BY DEF Executors, Recoveries
    <2>2. CASE k # j
      <3>1. status'[k] = status[k] /\ runAfter'[k] = runAfter[k]
        BY <1>2, <2>2 DEF QueueInv, JobTypeOK
      <3>2. Stuck(k)' <=> Stuck(k)
        BY <3>1 DEF Stuck
      <3> QED
        BY <2>1, <3>1, <3>2, RowKept
    <2>3. CASE k = j
      <3>1. RowOK(j) /\ ~Held(j) /\ ~Orphan(j) /\ ~Stuck(j)
        BY DEF QueueInv, Held, Orphan, Stuck
      <3>2. ~Held(j)' /\ ~Orphan(j)'
        BY <1>2 DEF Held, Orphan
      <3>3. attempts[j] = 0
        BY <3>1 DEF RowOK
      <3>4. Survived(j)' = Survived(j)
        BY <3>1, <3>2 DEF Survived, One
      <3>5. HoldersOK(j)'
        BY <2>1, <2>3, <3>1, <3>2 DEF RowOK, HoldersOK, One
      <3>6. StartsOK(j)'
        BY <3>3 DEF StartsOK
      <3>7. RepeatsOK(j)'
        BY <2>1, <2>3, <3>1, <3>2, <3>4 DEF RowOK, RepeatsOK, One
      <3> QED
        BY <1>2, <2>3, <3>5, <3>6, <3>7 DEF RowOK
    <2> QED
      BY <2>2, <2>3
  <1> QED
    BY <1>1, <1>3, <1>4 DEF QueueInv

\* claim_next() takes a row whose last claim nobody executes any more, and
\* uses one of the starts it has left.
LEMMA ClaimInv ==
    ASSUME QueueInv, NEW w \in Workers, Claim(w)
    PROVE  QueueInv'
  <1>1. PICK j \in Jobs :
            /\ Due(j)
            /\ status' = [status EXCEPT ![j] = "running"]
            /\ attempts' = [attempts EXCEPT ![j] = @ + 1]
            /\ runAfter' = [runAfter EXCEPT ![j] = now]
            /\ lease' = [lease EXCEPT ![w] =
                            [job |-> j, attempt |-> attempts[j] + 1, at |-> now]]
    BY DEF Claim
  <1>2. ~Busy(w) /\ ~Recovering(w) /\ UNCHANGED <<found, now, lost, undone, crashes>>
    BY DEF Claim, BetweenJobs
  <1>3. /\ status[j] = "queued" /\ attempts[j] \in Nat /\ now \in Nat
        /\ lease \in [Workers -> Lease \union {NoLease}]
        /\ j # NoJob
    BY <1>1 DEF Due, QueueInv, JobTypeOK
  <1>4. /\ lease'[w] = [job |-> j, attempt |-> attempts[j] + 1, at |-> now]
        /\ \A v \in Workers : v # w => lease'[v] = lease[v]
        /\ Busy(w)'
    BY <1>1, <1>3 DEF Busy
  <1>5. /\ status'[j] = "running" /\ attempts'[j] = attempts[j] + 1 /\ runAfter'[j] = now
        /\ \A k \in Jobs : k # j => /\ status'[k] = status[k]
                                    /\ attempts'[k] = attempts[k]
                                    /\ runAfter'[k] = runAfter[k]
    BY <1>1 DEF QueueInv, JobTypeOK
  <1>6. JobTypeOK'
    BY <1>1, <1>2, <1>3, SMTT(30) DEF QueueInv, JobTypeOK, Statuses, Lease
  <1>7. ASSUME NEW v \in Workers PROVE CopyOK(v)'
    <2>1. CASE v = w
      BY <1>2, <1>3, <1>4, <1>5, <2>1 DEF CopyOK, Recovering
    <2>2. CASE v # w
      <3>1. /\ lease'[v] = lease[v] /\ (Busy(v)' <=> Busy(v))
            /\ (Recovering(v)' <=> Recovering(v)) /\ found'[v] = found[v]
        BY <1>2, <1>4, <2>2 DEF Busy, Recovering
      <3>2. CopyOK(v) /\ (Busy(v) => lease[v].job \in Jobs /\ lease[v].attempt \in Nat)
        BY LeaseShape DEF QueueInv, Lease
      <3>3. \A k \in found[v].jobs : k \in Jobs
        BY DEF QueueInv, JobTypeOK, Found
      <3>4. ASSUME Busy(v), lease[v].job = j
            PROVE  lease[v].attempt # attempts'[j] /\ lease[v].attempt <= attempts'[j]
        BY <1>3, <1>5, <3>2, <3>4 DEF CopyOK
      <3> QED
        BY <1>2, <1>5, <3>1, <3>2, <3>3, <3>4 DEF CopyOK
    <2> QED
      BY <2>1, <2>2
  <1>8. ASSUME NEW k \in Jobs PROVE RowOK(k)'
    <2>1. Recoveries(k)' = Recoveries(k)
      BY <1>2 DEF Recoveries
    <2>2. CASE k # j
      <3>1. Executors(k)' = Executors(k) /\ \A v \in Executors(k) : lease'[v] = lease[v]
        BY <1>2, <1>4, <2>2 DEF Executors, Busy
      <3>2. Stuck(k)' <=> Stuck(k)
        BY <1>2, <1>5, <2>2 DEF Stuck
      <3> QED
        BY <1>2, <1>5, <2>1, <2>2, <3>1, <3>2, RowKept
    <2>3. CASE k = j
      <3>1. RowOK(j) /\ ~Held(j) /\ ~Orphan(j) /\ Loose(j) /\ ~Stuck(j)
        BY <1>3 DEF QueueInv, Held, Orphan, Loose, Stuck
      <3>2. Current(w, j)'
        BY <1>4, <1>5 DEF Current
      <3>3. Held(j)' /\ ~Orphan(j)' /\ ~Loose(j)'
        BY <1>5, <3>2 DEF Held, Orphan, Loose
      <3>4. w \notin Executors(j) /\ Executors(j)' = Executors(j) \union {w}
        BY <1>2, <1>3, <1>4 DEF Executors, Busy
      <3>5. Cardinality(Executors(j)') = Cardinality(Executors(j)) + 1
        BY <3>4, Counts, RowTypes DEF QueueInv
      <3>6. /\ Cardinality(Executors(j)) \in Nat /\ Cardinality(Late(j)) \in Nat
            /\ undone[j] \in Nat /\ lost[j] \in Nat
        BY RowTypes DEF QueueInv
      <3>7. Cardinality(Executors(j)) <= undone[j]
        BY <3>1, <3>6 DEF RowOK, HoldersOK, One
      <3>8. HoldersOK(j)'
        BY <1>2, <3>3, <3>5, <3>6, <3>7 DEF HoldersOK, One
      <3>12. attempts'[j] = attempts[j] + 1 /\ attempts[j] \in Nat
        BY <1>3, <1>5
      <3>9. StartsOK(j)'
        <4> SUFFICES ASSUME attempts'[j] >= MaxAttempts
                     PROVE  attempts'[j] + Cardinality(Late(j)') <= MaxAttempts + lost[j] + undone[j]
          BY <1>2, <3>3, <3>6, <1>3, <1>5, Counted DEF StartsOK, One
        <4>1. Late(j)' \subseteq Late(j)
          BY <1>4, <1>5, <1>3 DEF Late, Executors
        <4>2. Cardinality(Late(j)') \in Nat /\ Cardinality(Late(j)') <= Cardinality(Late(j))
          <5>1. Late(j) \subseteq Workers
            BY DEF Late, Executors
          <5> QED
            BY <4>1, <5>1, Counts
        <4>3. CASE attempts[j] >= MaxAttempts
          <5>1. attempts[j] + 1 + Cardinality(Late(j)) <= MaxAttempts + lost[j] + undone[j]
            BY <3>1, <4>3 DEF RowOK, StartsOK, One
          <5> QED
            BY <3>6, <3>12, <4>2, <5>1, MaxAttempts \in Nat, Room
        <4>4. CASE attempts[j] < MaxAttempts
          <5>1. Cardinality(Late(j)) <= Cardinality(Executors(j))
            BY Counts, RowTypes DEF QueueInv
          <5>2. attempts'[j] <= MaxAttempts
            BY <3>12, <4>4
          <5>3. Cardinality(Late(j)') <= undone[j]
            BY <3>6, <3>7, <4>2, <5>1
          <5>4. attempts'[j] \in Nat /\ Cardinality(Late(j)') \in Nat
            BY <3>12, <4>2
          <5> QED
            BY <3>6, <5>2, <5>3, <5>4, MaxAttempts \in Nat, Under
        <4> QED
          BY <1>3, <4>3, <4>4
      <3>10. Survived(j)' = Survived(j)
        BY <1>2, <3>1, <3>3 DEF Survived, One
      <3>11. RepeatsOK(j)'
        BY <1>2, <2>1, <2>3, <3>1, <3>3, <3>6, <3>10 DEF RowOK, RepeatsOK, One
      <3> QED
        BY <1>5, <2>3, <3>8, <3>9, <3>11 DEF RowOK
    <2> QED
      BY <2>2, <2>3
  <1> QED
    BY <1>6, <1>7, <1>8 DEF QueueInv

\* What complete() and both ends of fail() have in common: one worker writes
\* the row it holds and forgets it.
LEMMA ReleaseInv ==
    ASSUME QueueInv, NEW w \in Workers, Busy(w),
           NEW s \in {"queued", "done", "failed"}, NEW r \in Nat,
           s = "queued" => lease[w].attempt < MaxAttempts,
           status' = [status EXCEPT ![lease[w].job] = s],
           runAfter' = [runAfter EXCEPT ![lease[w].job] = r],
           lease' = [lease EXCEPT ![w] = NoLease],
           UNCHANGED <<attempts, found, now, lost, undone, crashes>>
    PROVE  QueueInv'
  <1>5. PICK j \in Jobs : j = lease[w].job
    BY LeaseShape DEF QueueInv
  <1>1. j \in Jobs /\ j # NoJob /\ ~Recovering(w)
    BY <1>5 DEF QueueInv, CopyOK, Busy
  <1>2. /\ lease'[w] = NoLease
        /\ \A v \in Workers : v # w => lease'[v] = lease[v]
        /\ ~Busy(w)'
    BY DEF QueueInv, JobTypeOK, Busy, NoLease
  <1>3. /\ status'[j] = s /\ s # "running" /\ s # "absent"
        /\ \A k \in Jobs : k # j => status'[k] = status[k] /\ runAfter'[k] = runAfter[k]
    BY <1>5 DEF QueueInv, JobTypeOK
  <1>4. JobTypeOK'
    BY DEF QueueInv, JobTypeOK, Statuses
  <1>6. ASSUME NEW v \in Workers PROVE CopyOK(v)'
    <2>1. CopyOK(v) /\ (Busy(v) => lease[v].job \in Jobs)
      BY LeaseShape DEF QueueInv
    <2>2. \A k \in found[v].jobs : k \in Jobs
      BY DEF QueueInv, JobTypeOK, Found
    <2>3. Busy(v)' => Busy(v) /\ lease'[v] = lease[v]
      BY <1>2 DEF Busy
    <2>4. Recovering(v)' => Recovering(v) /\ ~Busy(v)'
      BY <2>1, <2>3 DEF CopyOK, Recovering
    <2>5. \A k \in Jobs : status[k] # "absent" => status'[k] # "absent"
      BY <1>3
    <2>6. CASE Busy(v)'
      <3>1. CASE lease[v].job = j
        BY <1>3, <2>1, <2>3, <2>4, <2>6, <3>1 DEF CopyOK
      <3>2. CASE lease[v].job # j
        BY <1>3, <2>1, <2>3, <2>4, <2>6, <3>2 DEF CopyOK
      <3> QED
        BY <3>1, <3>2
    <2>7. CASE ~Busy(v)'
      BY <2>1, <2>2, <2>4, <2>5, <2>7 DEF CopyOK
    <2> QED
      BY <2>6, <2>7
  <1>7. ASSUME NEW k \in Jobs PROVE RowOK(k)'
    <2>1. Recoveries(k)' = Recoveries(k)
      BY DEF Recoveries
    <2>2. CASE k # j
      <3>1. Executors(k)' = Executors(k) /\ \A v \in Executors(k) : lease'[v] = lease[v]
        BY <1>2, <1>5, <2>2 DEF Executors, NoLease
      <3>2. Stuck(k)' <=> Stuck(k)
        BY <1>3, <2>2 DEF Stuck
      <3> QED
        BY <1>3, <2>1, <2>2, <3>1, <3>2, RowKept
    <2>3. CASE k = j
      <3>1. RowOK(j)
        BY <1>1 DEF QueueInv
      <3>2. ~Held(j)' /\ ~Orphan(j)' /\ ~Stuck(j)' /\ (Loose(j)' <=> s = "queued")
        BY <1>3 DEF Held, Orphan, Stuck, Loose
      <3>3. w \in Executors(j) /\ Executors(j)' = Executors(j) \ {w}
        BY <1>1, <1>2, <1>5 DEF Executors, NoLease
      <3>4. Cardinality(Executors(j)') = Cardinality(Executors(j)) - 1
        BY <1>1, <3>3, Counts, RowTypes DEF QueueInv
      <3>5. /\ Cardinality(Executors(j)) \in Nat /\ Cardinality(Late(j)) \in Nat
            /\ undone[j] \in Nat /\ lost[j] \in Nat /\ attempts[j] \in Nat
            /\ Cardinality(Recoveries(j)) \in Nat /\ Late(j) \subseteq Workers
            /\ MaxAttempts \in Nat
        BY <1>1, RowTypes DEF QueueInv
      <3>6. HoldersOK(j)'
        BY <3>1, <3>2, <3>4, <3>5 DEF RowOK, HoldersOK, One
      <3>7. StartsOK(j)'
        <4> SUFFICES ASSUME attempts[j] >= MaxAttempts
                     PROVE  attempts[j] + One(s = "queued") + Cardinality(Late(j)')
                              <= MaxAttempts + lost[j] + undone[j]
          BY <3>2 DEF StartsOK, One
        <4>1. Late(j)' = Late(j) \ {w}
          BY <1>2, <3>3 DEF Late, Executors
        <4>2. attempts[j] + Cardinality(Late(j)) <= MaxAttempts + lost[j] + undone[j]
          BY <3>1, <3>5, SMTT(40) DEF RowOK, StartsOK, One
        <4>3. CASE w \in Late(j)
          <5>1. Cardinality(Late(j)') = Cardinality(Late(j)) - 1
            BY <3>5, <4>1, <4>3, Counts
          <5> QED
            BY <3>5, <4>2, <5>1, SMTT(40) DEF One
        <4>4. CASE w \notin Late(j)
          <5>1. Late(j)' = Late(j) /\ s # "queued"
            BY <3>3, <4>1, <4>4 DEF Late
          <5> QED
            BY <3>5, <4>2, <5>1 DEF One
        <4> QED
          BY <4>3, <4>4
      <3>8. Survived(j)' = lost[j]
        <4>1. One(Orphan(j)') = 0
          BY <3>2 DEF One
        <4>2. Survived(j)' = lost[j] - One(Orphan(j)')
          BY DEF Survived
        <4> QED
          BY <3>5, <4>1, <4>2
      <3>9. undone[j] <= Others * Survived(j)
        BY <3>1 DEF RowOK, RepeatsOK
      <3>10. /\ Others * Survived(j) <= Others * lost[j]
             /\ Others * Survived(j) \in Nat /\ Others * lost[j] \in Nat
             /\ Orphan(j) => Others * lost[j] = Others * Survived(j) + Others
        BY <1>1, RepeatBounds
      <3>11. undone[j] + Cardinality(Recoveries(j)) <= Others * lost[j]
        <4>1. w \notin Recoveries(j)
          BY <1>1 DEF Recoveries, Recovering
        <4>2. Cardinality(Recoveries(j)) <= Others
          BY <1>1, <4>1, Counts, RowTypes DEF QueueInv
        <4>3. CASE ~Stuck(j)
          <5>1. undone[j] + Cardinality(Recoveries(j)) <= Others * Survived(j)
            BY <3>1, <4>3 DEF RowOK, RepeatsOK
          <5> QED
            BY <3>5, <3>10, <5>1
        <4>4. CASE Orphan(j)
          BY <3>5, <3>9, <3>10, <4>2, <4>4, OthersCounted
        <4>5. CASE OneWorker
          <5>1. Cardinality(Recoveries(j)) = 0 /\ undone[j] = 0
            BY <1>1, <3>5, <4>2, <4>5, OneWorkerAlone, RepeatBounds
          <5> QED
            BY <3>10, <5>1
        <4> QED
          BY <1>1, <4>3, <4>4, <4>5, StuckIsOrphan
      <3>12. RepeatsOK(j)'
        <4>1. One(Orphan(j)') <= lost[j]
          BY <3>2, <3>5 DEF One
        <4>2. undone[j] <= Others * lost[j]
          BY <1>1, RepeatBounds
        <4> QED
          BY <2>1, <2>3, <3>8, <3>11, <4>1, <4>2 DEF RepeatsOK
      <3> QED
        BY <1>3, <2>3, <3>6, <3>7, <3>12 DEF RowOK
    <2> QED
      BY <2>2, <2>3
  <1> QED
    BY <1>4, <1>6, <1>7 DEF QueueInv

\* complete() settles the row of its worker.
LEMMA CompleteInv ==
    ASSUME QueueInv, NEW w \in Workers, Complete(w)
    PROVE  QueueInv'
  <1>1. lease[w].job \in Jobs /\ runAfter[lease[w].job] \in Nat
    BY LeaseShape DEF QueueInv, JobTypeOK, Complete
  <1>2. runAfter' = [runAfter EXCEPT ![lease[w].job] = runAfter[lease[w].job]]
    BY <1>1 DEF QueueInv, JobTypeOK, Complete
  <1> QED
    BY <1>1, <1>2, ReleaseInv DEF Complete

\* fail() without a retry settles the row of its worker.
LEMMA FailFinalInv ==
    ASSUME QueueInv, NEW w \in Workers, FailFinal(w)
    PROVE  QueueInv'
  <1>1. lease[w].job \in Jobs /\ runAfter[lease[w].job] \in Nat
    BY LeaseShape DEF QueueInv, JobTypeOK, FailFinal
  <1>2. runAfter' = [runAfter EXCEPT ![lease[w].job] = runAfter[lease[w].job]]
    BY <1>1 DEF QueueInv, JobTypeOK, FailFinal
  <1> QED
    BY <1>1, <1>2, ReleaseInv DEF FailFinal

\* attempts is at least 1 on a row that was claimed, so the backoff table is
\* never read before its first entry.
LEMMA FailRetryInv ==
    ASSUME QueueInv, NEW w \in Workers, FailRetry(w)
    PROVE  QueueInv'
  <1>1. lease[w].attempt \in Nat \ {0} /\ lease[w].at \in Nat
    BY LeaseShape DEF QueueInv, FailRetry, Lease
  <1>2. BackoffFor(lease[w].attempt) \in Nat
    BY <1>1, BackoffDefined
  <1>3. lease[w].at + BackoffFor(lease[w].attempt) \in Nat
    BY <1>1, <1>2
  <1> QED
    BY <1>3, ReleaseInv DEF FailRetry, AttemptsRemain

\* recover_stuck() selects stuck rows, and changes none.
LEMMA SelectStuckInv ==
    ASSUME QueueInv, NEW w \in Workers, SelectStuck(w)
    PROVE  QueueInv'
  <1> USE DEF SelectStuck
  <1>1. found'[w].jobs = {j \in Jobs : Stuck(j)} /\ found' \in [Workers -> Found]
    BY DEF QueueInv, JobTypeOK, Found
  <1>2. \A v \in Workers : v # w => found'[v] = found[v]
    BY DEF QueueInv, JobTypeOK
  <1>3. JobTypeOK'
    BY <1>1 DEF QueueInv, JobTypeOK
  <1>4. ASSUME NEW v \in Workers PROVE CopyOK(v)'
    <2>1. CopyOK(v)
      BY DEF QueueInv
    <2>2. CASE v = w
      BY <1>1, <2>1, <2>2 DEF CopyOK, Busy, BetweenJobs, Stuck
    <2>3. CASE v # w
      BY <1>2, <2>1, <2>3 DEF CopyOK, Busy, Recovering
    <2> QED
      BY <2>2, <2>3
  <1>5. ASSUME NEW j \in Jobs PROVE RowOK(j)'
    <2>1. Executors(j)' = Executors(j) /\ (Stuck(j)' <=> Stuck(j))
      BY DEF Executors, Stuck
    <2>2. ASSUME ~Stuck(j) PROVE Recoveries(j)' \subseteq Recoveries(j)
      BY <1>1, <1>2, <2>2 DEF Recoveries
    <2> QED
      BY <2>1, <2>2, RowKept
  <1> QED
    BY <1>3, <1>4, <1>5 DEF QueueInv

\* What the update of recover_stuck() does to a row: it ends the orphanage of
\* a stuck one, and repeats a row that is no longer stuck.
LEMMA RequeueRow ==
    ASSUME QueueInv, NEW w \in Workers, RequeueStuck(w),
           NEW j \in Jobs, j \in found[w].jobs
    PROVE  RowOK(j)'
  <1> USE DEF RequeueStuck
  <1>1. /\ status'[j] = "queued" /\ attempts'[j] = attempts[j] /\ lost'[j] = lost[j]
        /\ undone'[j] = IF Stuck(j) THEN undone[j] ELSE undone[j] + 1
    OBVIOUS
  <1>2. Executors(j)' = Executors(j) /\ Late(j)' = Late(j)
    BY DEF Executors, Late
  <1>3. ~Held(j)' /\ ~Orphan(j)' /\ Loose(j)' /\ ~Stuck(j)'
    BY <1>1 DEF Held, Orphan, Loose, Stuck
  <1>4. w \in Recoveries(j) /\ Recoveries(j)' = Recoveries(j) \ {w}
    BY DEF Recoveries, NothingFound, QueueInv, JobTypeOK
  <1>5. /\ Cardinality(Recoveries(j)') = Cardinality(Recoveries(j)) - 1
        /\ Cardinality(Recoveries(j)') <= Others
    <2>1. Recoveries(j) \subseteq Workers /\ w \notin Recoveries(j)'
      BY <1>4 DEF Recoveries
    <2>2. Recoveries(j)' \subseteq Workers
      BY <1>4, <2>1
    <2> QED
      BY <1>4, <2>1, <2>2, Counts
  <1>6. /\ attempts[j] \in Nat /\ undone[j] \in Nat /\ lost[j] \in Nat
        /\ Cardinality(Executors(j)) \in Nat /\ Cardinality(Late(j)) \in Nat
        /\ Cardinality(Recoveries(j)) \in Nat /\ Others \in Nat /\ MaxAttempts \in Nat
    BY RowTypes, OthersCounted DEF QueueInv
  <1>7. RowOK(j)
    BY DEF QueueInv
  <1>8. ASSUME Stuck(j)
        PROVE  Orphan(j) /\ Loose(j) /\ ~Held(j)
    <2>1. ~Busy(w)
      BY DEF QueueInv, CopyOK
    <2> QED
      BY <1>8, <2>1, StuckIsOrphan DEF Loose, Orphan, Held
  <1>9. HoldersOK(j)'
    BY <1>1, <1>2, <1>3, <1>6, <1>7, <1>8 DEF RowOK, HoldersOK, One
  <1>10. StartsOK(j)'
    <2> SUFFICES ASSUME attempts[j] >= MaxAttempts
                 PROVE  attempts[j] + 1 + Cardinality(Late(j)) <= MaxAttempts + lost[j] + undone'[j]
      BY <1>1, <1>2, <1>3 DEF StartsOK, One
    <2>1. CASE Stuck(j)
      BY <1>1, <1>7, <1>8, <2>1 DEF RowOK, StartsOK, One
    <2>2. CASE ~Stuck(j)
      <3>1. attempts[j] + Cardinality(Late(j)) <= MaxAttempts + lost[j] + undone[j]
        BY <1>6, <1>7, SMTT(40) DEF RowOK, StartsOK, One
      <3>2. undone'[j] = undone[j] + 1
        BY <1>1, <2>2
      <3> HIDE DEF RequeueStuck
      <3> QED
        BY <1>6, <3>1, <3>2, SMTT(40)
    <2> QED
      BY <2>1, <2>2
  <1>11. Survived(j)' = lost[j]
    <2>1. One(Orphan(j)') = 0
      BY <1>3 DEF One
    <2>2. Survived(j)' = lost'[j] - One(Orphan(j)')
      BY DEF Survived
    <2> QED
      BY <1>1, <1>6, <2>1, <2>2
  <1>12. /\ Others * Survived(j) <= Others * lost[j]
         /\ Others * Survived(j) \in Nat /\ Others * lost[j] \in Nat
         /\ Orphan(j) => Others * lost[j] = Others * Survived(j) + Others
    BY RepeatBounds
  <1>13. undone'[j] + Cardinality(Recoveries(j)') <= Others * lost[j]
    <2>1. CASE Stuck(j)
      <3>1. undone[j] <= Others * Survived(j)
        BY <1>7 DEF RowOK, RepeatsOK
      <3> QED
        BY <1>1, <1>5, <1>6, <1>8, <1>12, <2>1, <3>1
    <2>2. CASE ~Stuck(j)
      <3>1. undone[j] + Cardinality(Recoveries(j)) <= Others * Survived(j)
        BY <1>7, <2>2 DEF RowOK, RepeatsOK
      <3> QED
        BY <1>1, <1>5, <1>6, <1>12, <2>2, <3>1, SMTT(30)
    <2> QED
      BY <2>1, <2>2
  <1>14. RepeatsOK(j)'
    <2>1. One(Orphan(j)') <= lost'[j]
      BY <1>1, <1>3, <1>6 DEF One
    <2>2. undone'[j] <= Others * lost[j]
      <3>1. Cardinality(Recoveries(j)') \in Nat /\ undone'[j] \in Nat
        <4>1. Recoveries(j)' \subseteq Workers
          BY <1>4 DEF Recoveries
        <4> QED
          BY <1>1, <1>6, <4>1, Counted
      <3> QED
        BY <1>12, <1>13, <3>1
    <2> QED
      BY <1>11, <1>13, <2>1, <2>2 DEF RepeatsOK
  <1> QED
    BY <1>1, <1>9, <1>10, <1>14 DEF RowOK

\* recover_stuck() requeues the rows it selected, stuck or not.
LEMMA RequeueStuckInv ==
    ASSUME QueueInv, NEW w \in Workers, RequeueStuck(w)
    PROVE  QueueInv'
  <1> USE DEF RequeueStuck
  <1>1. found[w].at \in Nat /\ \A v \in Workers : found[v].jobs \subseteq Jobs
    BY DEF QueueInv, JobTypeOK, Found
  <1>2. JobTypeOK'
    BY <1>1 DEF QueueInv, JobTypeOK, Statuses, Found, NothingFound
  <1>3. /\ found'[w] = NothingFound /\ ~Recovering(w)'
        /\ \A v \in Workers : v # w => found'[v] = found[v]
    BY DEF QueueInv, JobTypeOK, Recovering, NothingFound
  <1>4. ASSUME NEW v \in Workers PROVE CopyOK(v)'
    <2>1. CopyOK(v) /\ (Busy(v)' <=> Busy(v)) /\ (Busy(v) => lease[v].job \in Jobs)
      BY LeaseShape DEF QueueInv, Busy
    <2>2. Recovering(v)' => Recovering(v) /\ found'[v] = found[v]
      BY <1>3 DEF Recovering
    <2>3. \A k \in Jobs : status'[k] = "queued" \/ (status'[k] = status[k] /\ runAfter'[k] = runAfter[k])
      OBVIOUS
    <2> QED
      BY <1>1, <2>1, <2>2, <2>3 DEF CopyOK
  <1>5. ASSUME NEW j \in Jobs PROVE RowOK(j)'
    <2>1. CASE j \in found[w].jobs
      BY <2>1, RequeueRow
    <2>2. CASE j \notin found[w].jobs
      <3>1. /\ status'[j] = status[j] /\ attempts'[j] = attempts[j] /\ lost'[j] = lost[j]
            /\ undone'[j] = undone[j] /\ runAfter'[j] = runAfter[j]
        BY <2>2
      <3>2. Executors(j)' = Executors(j) /\ (Stuck(j)' <=> Stuck(j))
        BY <3>1 DEF Executors, Stuck
      <3>3. Recoveries(j)' \subseteq Recoveries(j)
        BY <1>3 DEF Recoveries, NothingFound
      <3> QED
        BY <3>1, <3>2, <3>3, RowKept
    <2> QED
      BY <2>1, <2>2
  <1> QED
    BY <1>2, <1>4, <1>5 DEF QueueInv

\* A crash loses the worker's copy of its row, and is counted.
LEMMA CrashInv ==
    ASSUME QueueInv, NEW w \in Workers, Crash(w)
    PROVE  QueueInv'
  <1>1. /\ lease'[w] = NoLease /\ ~Busy(w)' /\ found'[w] = NothingFound /\ ~Recovering(w)'
        /\ \A v \in Workers : v # w => lease'[v] = lease[v] /\ found'[v] = found[v]
        /\ UNCHANGED <<status, attempts, runAfter, now, undone>>
    BY DEF QueueInv, JobTypeOK, Busy, Recovering, NoLease, NothingFound, Crash
  <1>2. \A v \in Workers : Busy(v)' => Busy(v) /\ v # w /\ lease'[v] = lease[v]
    BY <1>1 DEF Busy
  <1>3. /\ lost' \in [Jobs -> Nat]
        /\ \A j \in Jobs : lost'[j] = lost[j] + One(lease[w].job = j)
    <2>1. CASE Busy(w)
      <3>1. lease[w].job \in Jobs /\ lost \in [Jobs -> Nat]
        BY <2>1, LeaseShape DEF QueueInv, JobTypeOK
      <3>2. lost' = [lost EXCEPT ![lease[w].job] = lost[lease[w].job] + 1]
        BY <2>1 DEF Crash
      <3>3. lost[lease[w].job] \in Nat
        BY <3>1
      <3>4. ASSUME NEW j \in Jobs PROVE lost'[j] = lost[j] + One(lease[w].job = j)
        <4>1. lost[j] \in Nat
          BY <3>1
        <4> QED
          BY <3>1, <3>2, <4>1 DEF One
      <3> QED
        BY <3>1, <3>2, <3>3, <3>4
    <2>2. CASE ~Busy(w)
      <3>1. lost' = lost /\ \A j \in Jobs : lost[j] \in Nat /\ lease[w].job # j
        BY <2>2, LeaseShape DEF QueueInv, JobTypeOK, Crash
      <3> QED
        BY <3>1 DEF QueueInv, JobTypeOK, One
    <2> QED
      BY <2>1, <2>2
  <1>4. JobTypeOK'
    BY <1>3 DEF QueueInv, JobTypeOK, Crash, Found, NothingFound
  <1>5. ASSUME NEW v \in Workers PROVE CopyOK(v)'
    <2>1. CopyOK(v)
      BY DEF QueueInv
    <2>2. Recovering(v)' => Recovering(v) /\ found'[v] = found[v]
      BY <1>1 DEF Recovering
    <2> QED
      BY <1>1, <1>2, <2>1, <2>2 DEF CopyOK
  <1>6. ASSUME NEW j \in Jobs PROVE RowOK(j)'
    <2>1. /\ Recoveries(j)' \subseteq Recoveries(j) /\ (Stuck(j)' <=> Stuck(j))
          /\ status'[j] = status[j] /\ attempts'[j] = attempts[j] /\ undone'[j] = undone[j]
      BY <1>1 DEF Recoveries, Stuck, NothingFound
    <2>2. CASE lease[w].job # j
      <3>1. lost'[j] = lost[j]
        BY <1>3, <2>2, RowTypes DEF One, QueueInv
      <3>2. Executors(j)' = Executors(j) /\ \A v \in Executors(j) : lease'[v] = lease[v]
        BY <1>1, <2>2 DEF Executors, NoLease
      <3> QED
        BY <2>1, <3>1, <3>2, RowKept
    <2>3. CASE lease[w].job = j
      <3>12. RowOK(j) /\ NoLease.job # j
        BY DEF QueueInv, NoLease
      <3>1. RowOK(j) /\ w \in Executors(j) /\ Executors(j)' = Executors(j) \ {w}
        BY <1>1, <2>3, <3>12 DEF Executors
      <3>2. Late(j)' \subseteq Late(j) /\ Late(j) \subseteq Workers
        BY <1>1 DEF Late, Executors, NoLease
      <3>3. /\ attempts[j] \in Nat /\ undone[j] \in Nat /\ lost[j] \in Nat
            /\ Cardinality(Executors(j)) \in Nat /\ Cardinality(Late(j)) \in Nat
            /\ Cardinality(Recoveries(j)) \in Nat /\ Others \in Nat /\ MaxAttempts \in Nat
            /\ Executors(j) \subseteq Workers /\ Recoveries(j) \subseteq Workers
        BY RowTypes, OthersCounted DEF QueueInv
      <3>4. /\ Cardinality(Executors(j)') = Cardinality(Executors(j)) - 1
            /\ Cardinality(Late(j)') \in Nat /\ Cardinality(Late(j)') <= Cardinality(Late(j))
            /\ Cardinality(Recoveries(j)') \in Nat
            /\ Cardinality(Recoveries(j)') <= Cardinality(Recoveries(j))
        BY <2>1, <3>1, <3>2, <3>3, Counts
      <3>5. lost'[j] = lost[j] + 1
        BY <1>3, <2>3 DEF One
      <3>6. (Orphan(j) => Orphan(j)') /\ (Loose(j) => Loose(j)')
        BY <1>1, <2>1 DEF Orphan, Loose, Current, NoLease
      <3>7. HoldersOK(j)'
        BY <2>1, <3>1, <3>3, <3>4, SMTT(40) DEF RowOK, HoldersOK, One
      <3>8. StartsOK(j)'
        <4> SUFFICES ASSUME attempts[j] >= MaxAttempts
                     PROVE  attempts[j] + One(Loose(j)') + Cardinality(Late(j)')
                              <= MaxAttempts + lost'[j] + undone[j]
          BY <2>1 DEF StartsOK
        <4>1. attempts[j] + Cardinality(Late(j)) <= MaxAttempts + lost[j] + undone[j]
          BY <3>1, <3>3, SMTT(40) DEF RowOK, StartsOK, One
        <4>2. One(Loose(j)') \in {0, 1}
          BY DEF One
        <4> QED
          BY <3>3, <3>4, <3>5, <4>1, <4>2, Room
      <3>9. /\ One(Orphan(j)') <= lost'[j]
            /\ Survived(j) \in Nat /\ Survived(j)' \in Nat /\ Survived(j) <= Survived(j)'
        <4>1. One(Orphan(j)) \in {0, 1} /\ One(Orphan(j)') \in {0, 1}
              /\ One(Orphan(j)) <= lost[j] /\ One(Orphan(j)) <= One(Orphan(j)')
          BY <3>1, <3>6 DEF RowOK, RepeatsOK, One
        <4>2. /\ Survived(j) = lost[j] - One(Orphan(j))
              /\ Survived(j)' = lost'[j] - One(Orphan(j)')
          BY DEF Survived
        <4> QED
          BY <3>3, <3>5, <4>1, <4>2
      <3>10. Others * Survived(j) \in Nat /\ Others * Survived(j) <= Others * Survived(j)'
             /\ Others * Survived(j)' \in Nat
        BY <3>3, <3>9, Grows, SMTT(30)
      <3>11. RepeatsOK(j)'
        <4>1. undone[j] <= Others * Survived(j)
              /\ (~Stuck(j) => undone[j] + Cardinality(Recoveries(j)) <= Others * Survived(j))
          BY <3>1 DEF RowOK, RepeatsOK
        <4>2. undone[j] <= Others * Survived(j)'
              /\ (~Stuck(j) => undone[j] + Cardinality(Recoveries(j)') <= Others * Survived(j)')
          BY <3>3, <3>4, <3>10, <4>1
        <4> QED
          BY <2>1, <3>9, <4>2 DEF RepeatsOK
      <3> QED
        BY <1>1, <3>1, <3>7, <3>8, <3>11 DEF RowOK
    <2> QED
      BY <2>2, <2>3
  <1> QED
    BY <1>4, <1>5, <1>6 DEF QueueInv

\* The clock ages the rows of live handlers, to MaxRun at most.
LEMMA TickInv ==
    ASSUME QueueInv, Tick
    PROVE  QueueInv'
  <1> USE DEF Tick
  <1>1. JobTypeOK'
    BY DEF QueueInv, JobTypeOK
  <1>2. ASSUME NEW w \in Workers PROVE CopyOK(w)'
    <2>1. CopyOK(w) /\ now \in Nat /\ (Busy(w) => lease[w].at \in Nat)
      BY LeaseShape DEF QueueInv, JobTypeOK, Lease
    <2> QED
      BY <2>1 DEF CopyOK, Busy, Recovering
  <1>3. ASSUME NEW j \in Jobs PROVE RowOK(j)'
    <2>1. Executors(j)' = Executors(j) /\ Recoveries(j)' = Recoveries(j)
      BY DEF Executors, Recoveries
    <2>2. Stuck(j) => Stuck(j)'
      BY DEF Stuck, QueueInv, JobTypeOK
    <2> QED
      BY <2>1, <2>2, RowKept
  <1> QED
    BY <1>1, <1>2, <1>3 DEF QueueInv

\* Every transaction of the queue preserves the invariant.
LEMMA NextInv == QueueInv /\ [JobNext]_jobVars => QueueInv'
  <1> SUFFICES ASSUME QueueInv, [JobNext]_jobVars
               PROVE  QueueInv'
    OBVIOUS
  <1>1. CASE \E j \in Jobs : Enqueue(j)
    BY <1>1, EnqueueInv
  <1>2. ASSUME NEW w \in Workers, WorkerStep(w)
        PROVE  QueueInv'
    BY <1>2, ClaimInv, CompleteInv, FailRetryInv, FailFinalInv, SelectStuckInv,
       RequeueStuckInv, CrashInv DEF WorkerStep, RecoverStuck
  <1>3. CASE Tick
    BY <1>3, TickInv
  <1>4. CASE UNCHANGED jobVars
    <2> USE <1>4 DEF jobVars
    <2>1. JobTypeOK'
      BY DEF QueueInv, JobTypeOK
    <2>2. ASSUME NEW w \in Workers
          PROVE  CopyOK(w)'
      BY DEF QueueInv, CopyOK, Busy, Recovering
    <2>3. ASSUME NEW j \in Jobs
          PROVE  RowOK(j)'
      <3>1. Executors(j)' = Executors(j) /\ Recoveries(j)' = Recoveries(j)
        BY DEF Executors, Recoveries
      <3>2. Stuck(j)' <=> Stuck(j)
        BY DEF Stuck
      <3> QED
        BY <3>1, <3>2, RowKept
    <2> QED
      BY <2>1, <2>2, <2>3 DEF QueueInv
  <1> QED
    BY <1>1, <1>2, <1>3, <1>4 DEF JobNext, Rest

\* The invariant holds in every reachable state of the queue.
THEOREM QueueInvariant == JobSpec => []QueueInv
  BY InitInv, NextInv, PTL DEF JobSpec

\* An executor of a job that no overtaken recovery has hit is its only one,
\* and writes the row from a copy that is current.
UndisturbedIsSole ==
    \A w \in Workers : Busy(w) =>
        LET j == lease[w].job IN
        undone[j] = 0 =>
            /\ status[j] = "running"
            /\ lease[w].attempt = attempts[j]
            /\ lease[w].at = runAfter[j]
            /\ \A v \in Workers : lease[v].job = j => v = w

\* With no repeat counted, the one executor is the one that claimed last.
LEMMA SoleExecutor ==
    ASSUME QueueInv, NEW w \in Workers, NEW j \in Jobs, lease[w].job = j, undone[j] = 0
    PROVE  /\ status[j] = "running" /\ lease[w].attempt = attempts[j]
           /\ lease[w].at = runAfter[j]
           /\ \A v \in Workers : lease[v].job = j => v = w
  <1>1. /\ w \in Executors(j) /\ Executors(j) \subseteq Workers
        /\ Cardinality(Executors(j)) \in Nat /\ Busy(w)
    BY RowTypes DEF QueueInv, Executors, Busy
  <1>2. Cardinality(Executors(j)) >= 1
    BY <1>1, Counts
  <1>3. Held(j) /\ Cardinality(Executors(j)) <= 1
    BY <1>1, <1>2 DEF QueueInv, RowOK, HoldersOK, One
  <1>4. \A u, v \in Executors(j) : u = v
    BY <1>1, <1>3, OneOfThem
  <1>5. Current(w, j) /\ \A v \in Workers : lease[v].job = j => v = w
    BY <1>1, <1>3, <1>4 DEF Held, Current, Executors
  <1> QED
    BY <1>1, <1>3, <1>5 DEF Held, Current, QueueInv, CopyOK

\* A job has one executor, and one more for each overtaken recovery of it;
\* without one, the executor is alone and its copy is never stale.
THEOREM ExclusiveExecution == JobSpec => [](SingleExecutor /\ UndisturbedIsSole)
  <1>1. ASSUME QueueInv PROVE SingleExecutor
    <2> SUFFICES ASSUME NEW j \in Jobs PROVE Cardinality(Executors(j)) <= 1 + undone[j]
      BY DEF SingleExecutor
    <2>1. Cardinality(Executors(j)) <= undone[j] + One(Held(j)) /\ One(Held(j)) \in {0, 1}
      BY <1>1 DEF QueueInv, RowOK, HoldersOK, One
    <2>2. Cardinality(Executors(j)) \in Nat /\ undone[j] \in Nat
      BY <1>1, RowTypes DEF QueueInv
    <2> QED
      BY <2>1, <2>2
  <1>2. ASSUME QueueInv PROVE UndisturbedIsSole
    <2> SUFFICES ASSUME NEW w \in Workers, Busy(w), undone[lease[w].job] = 0
                 PROVE  /\ status[lease[w].job] = "running"
                        /\ lease[w].attempt = attempts[lease[w].job]
                        /\ lease[w].at = runAfter[lease[w].job]
                        /\ \A v \in Workers : lease[v].job = lease[w].job => v = w
      BY DEF UndisturbedIsSole
    <2>1. PICK j \in Jobs : j = lease[w].job
      BY <1>2, LeaseShape DEF QueueInv
    <2> QED
      BY <1>2, <2>1, SoleExecutor
  <1> QED
    BY <1>1, <1>2, QueueInvariant, PTL

\* A job is started at most MAX_ATTEMPTS times, plus, for each crash in it,
\* once per worker: every worker can be late with the recovery once.
THEOREM BoundedStarts == JobSpec => []StartsBounded
  <1>1. ASSUME QueueInv PROVE StartsBounded
    <2> SUFFICES ASSUME NEW j \in Jobs
                 PROVE  attempts[j] <= MaxAttempts + Cardinality(Workers) * lost[j]
      BY DEF StartsBounded
    <2>1. /\ attempts[j] \in Nat /\ lost[j] \in Nat /\ undone[j] \in Nat
          /\ Cardinality(Late(j)) \in Nat /\ MaxAttempts \in Nat
      BY <1>1, RowTypes DEF QueueInv
    <2>2. undone[j] <= Others * lost[j] /\ Others * lost[j] \in Nat
      BY <1>1, RepeatBounds
    <2>3. Cardinality(Workers) * lost[j] = Others * lost[j] + lost[j]
      <3>1. Others \in Nat /\ Cardinality(Workers) = Others + 1
        BY OthersCounted
      <3>2. (Others + 1) * lost[j] = Others * lost[j] + lost[j]
        BY <2>1, <3>1, OnceMore
      <3> QED
        BY <3>1, <3>2
    <2>4. attempts[j] <= MaxAttempts + lost[j] + undone[j]
      <3>1. CASE attempts[j] >= MaxAttempts
        BY <1>1, <2>1, <3>1, SMTT(40) DEF QueueInv, RowOK, StartsOK, One
      <3>2. CASE attempts[j] < MaxAttempts
        BY <2>1, <3>2
      <3> QED
        BY <2>1, <3>1, <3>2
    <2> HIDE DEF Others
    <2> QED
      BY <2>1, <2>2, <2>3, <2>4
  <1> QED
    BY <1>1, QueueInvariant, PTL

\* Every variable keeps its type in every reachable state.
THEOREM QueueTypes == JobSpec => []JobTypeOK
  <1>1. QueueInv => JobTypeOK
    BY DEF QueueInv
  <1> QED
    BY <1>1, QueueInvariant, PTL

-----------------------------------------------------------------------------
(***************************************************************************)
(* JobQueue implements JobLedger.  Each lemma maps one transaction to the  *)
(* ledger's step; Tick, Rest and the select of recover_stuck() change      *)
(* nothing the ledger shows.                                               *)
(***************************************************************************)

ledgerView == <<LedgerPhase, attempts, lost, undone, LedgerHeld>>

\* The ledger counts as the queue does.
LEMMA SameCount == ASSUME NEW S PROVE Ledger!Cardinality(S) = Cardinality(S)
  BY DEF Cardinality, Ledger!Cardinality

\* enqueue() submits a job.
LEMMA MappedEnqueue ==
    ASSUME QueueInv, NEW j \in Jobs, Enqueue(j)
    PROVE  Ledger!Submit(j)
  BY DEF QueueInv, JobTypeOK, Enqueue, Ledger!Submit, LedgerPhase, LedgerHeld, Settled

\* claim_next() takes a job that is open, that nobody holds but for its
\* repeats, with a start left.
LEMMA MappedClaim ==
    ASSUME QueueInv, NEW w \in Workers, Claim(w)
    PROVE  \E j \in Jobs : Ledger!Take(w, j)
  <1>1. PICK j \in Jobs :
            /\ status[j] = "queued"
            /\ status' = [status EXCEPT ![j] = "running"]
            /\ attempts' = [attempts EXCEPT ![j] = @ + 1]
            /\ lease' = [lease EXCEPT ![w] =
                            [job |-> j, attempt |-> attempts[j] + 1, at |-> now]]
    BY DEF Claim, Due
  <1>2. /\ attempts[j] \in Nat /\ lost[j] \in Nat /\ undone[j] \in Nat
        /\ Cardinality(Late(j)) \in Nat /\ MaxAttempts \in Nat
        /\ Cardinality(Executors(j)) \in Nat
    BY RowTypes DEF QueueInv
  <1>3. ~Held(j) /\ Loose(j) /\ RowOK(j)
    BY <1>1 DEF Held, Loose, QueueInv
  <1>4. Cardinality(Executors(j)) <= undone[j]
    BY <1>2, <1>3 DEF RowOK, HoldersOK, One
  <1>5. attempts[j] < MaxAttempts + lost[j] + undone[j]
    <2>1. CASE attempts[j] >= MaxAttempts
      BY <1>2, <1>3, <2>1, SMTT(40) DEF RowOK, StartsOK, One
    <2>2. CASE attempts[j] < MaxAttempts
      BY <1>2, <2>2
    <2> QED
      BY <1>2, <2>1, <2>2
  <1>6. LedgerHeld' = [LedgerHeld EXCEPT ![w] = j]
    BY <1>1 DEF QueueInv, JobTypeOK, LedgerHeld
  <1>7. LedgerPhase' = LedgerPhase /\ LedgerPhase[j] = "open"
    BY <1>1 DEF QueueInv, JobTypeOK, LedgerPhase, Settled
  <1>8. LedgerHeld[w] = NoJob /\ {v \in Workers : LedgerHeld[v] = j} = Executors(j)
    BY DEF LedgerHeld, Claim, BetweenJobs, Busy, Executors
  <1>9. Ledger!Cardinality({v \in Workers : LedgerHeld[v] = j}) <= undone[j]
    BY <1>4, <1>8, SameCount
  <1>10. UNCHANGED <<lost, undone>>
    BY DEF Claim
  <1>11. Ledger!Take(w, j)
    BY <1>1, <1>5, <1>6, <1>7, <1>8, <1>9, <1>10 DEF Ledger!Take
  <1> QED
    BY <1>11

\* A worker that lets go of its job lets go of it in the ledger.
LEMMA MappedRelease ==
    ASSUME QueueInv, NEW w \in Workers, Busy(w),
           lease' = [lease EXCEPT ![w] = NoLease]
    PROVE  /\ lease[w].job \in Jobs
           /\ LedgerHeld[w] = lease[w].job
           /\ LedgerHeld[w] # NoJob
           /\ LedgerHeld' = [LedgerHeld EXCEPT ![w] = NoJob]
  <1>1. lease[w].job \in Jobs
    BY LeaseShape DEF QueueInv
  <1>2. NoLease.job = NoJob
    BY DEF NoLease
  <1> QED
    BY <1>1, <1>2 DEF LedgerHeld, QueueInv, JobTypeOK, Busy

\* complete(), and fail() without a retry, settle the job.
LEMMA MappedSettle ==
    ASSUME QueueInv, NEW w \in Workers, Complete(w) \/ FailFinal(w)
    PROVE  Ledger!Settle(w)
  <1>1. PICK s \in {"done", "failed"} : status' = [status EXCEPT ![lease[w].job] = s]
    BY DEF Complete, FailFinal
  <1>2. /\ Busy(w) /\ lease' = [lease EXCEPT ![w] = NoLease]
        /\ UNCHANGED <<attempts, lost, undone>>
    BY DEF Complete, FailFinal
  <1>3. LedgerPhase' = [LedgerPhase EXCEPT ![lease[w].job] = "settled"]
    BY <1>1, <1>2, MappedRelease DEF LedgerPhase, QueueInv, JobTypeOK, Settled
  <1> QED
    BY <1>2, <1>3, MappedRelease DEF Ledger!Settle

\* fail() with a retry hands the job back; without a repeat it was open, and
\* has a start left.
LEMMA MappedRetry ==
    ASSUME QueueInv, NEW w \in Workers, FailRetry(w)
    PROVE  Ledger!HandBack(w)
  <1>1. /\ Busy(w) /\ lease' = [lease EXCEPT ![w] = NoLease]
        /\ status' = [status EXCEPT ![lease[w].job] = "queued"]
        /\ lease[w].attempt < MaxAttempts
        /\ UNCHANGED <<attempts, lost, undone>>
    BY DEF FailRetry, AttemptsRemain
  <1>2. PICK j \in Jobs : j = lease[w].job
    BY <1>1, LeaseShape DEF QueueInv
  <1>3. undone[j] = 0 => LedgerPhase[j] = "open" /\ attempts[j] < MaxAttempts
    <2> SUFFICES ASSUME undone[j] = 0
                 PROVE  LedgerPhase[j] = "open" /\ attempts[j] < MaxAttempts
      OBVIOUS
    <2>1. status[j] = "running" /\ lease[w].attempt = attempts[j]
      BY <1>2, SoleExecutor
    <2> QED
      BY <1>1, <2>1 DEF LedgerPhase, Settled
  <1>4. LedgerPhase' = [LedgerPhase EXCEPT ![j] = "open"]
    BY <1>1, <1>2 DEF LedgerPhase, QueueInv, JobTypeOK, Settled
  <1> QED
    BY <1>1, <1>2, <1>3, <1>4, MappedRelease DEF Ledger!HandBack

\* A crash loses the job its worker held, if it held one.
LEMMA MappedCrash ==
    ASSUME QueueInv, NEW w \in Workers, Crash(w)
    PROVE  Ledger!Lose(w) \/ UNCHANGED ledgerView
  <1>1. LedgerPhase' = LedgerPhase /\ attempts' = attempts /\ undone' = undone
    BY DEF LedgerPhase, Crash, Settled
  <1>2. CASE Busy(w)
    <2>1. lost' = [lost EXCEPT ![lease[w].job] = @ + 1]
      BY <1>2 DEF Crash
    <2> QED
      BY <1>1, <1>2, <2>1, MappedRelease DEF Ledger!Lose, Crash
  <1>3. CASE ~Busy(w)
    <2>1. lease[w] = NoLease
      BY <1>3, LeaseShape DEF QueueInv
    <2>2. lease' = lease /\ lost' = lost
      BY <1>3, <2>1 DEF Crash, QueueInv, JobTypeOK
    <2> QED
      BY <1>1, <2>2 DEF LedgerHeld, ledgerView
  <1> QED
    BY <1>2, <1>3

\* The update of recover_stuck() repeats the jobs that are no longer stuck;
\* the others were open already.
LEMMA MappedRecover ==
    ASSUME QueueInv, NEW w \in Workers, RequeueStuck(w)
    PROVE  \E S \in SUBSET Jobs : Ledger!Repeat(S)
  <1> DEFINE S == {j \in found[w].jobs : ~Stuck(j)}
  <1>1. found[w].jobs \subseteq Jobs /\ \A j \in found[w].jobs : status[j] # "absent"
    BY DEF QueueInv, CopyOK, RequeueStuck, JobTypeOK, Found
  <1>2. ASSUME NEW j \in S PROVE undone[j] < Others * lost[j] /\ LedgerPhase[j] # "absent"
    <2>1. j \in Jobs /\ ~Stuck(j) /\ status[j] # "absent" /\ w \in Recoveries(j)
      BY <1>1 DEF Recoveries
    <2>2. undone[j] + Cardinality(Recoveries(j)) <= Others * Survived(j)
      BY <2>1 DEF QueueInv, RowOK, RepeatsOK
    <2>3. /\ Cardinality(Recoveries(j)) >= 1 /\ Cardinality(Recoveries(j)) \in Nat
          /\ undone[j] \in Nat
      BY <2>1, Counts, RowTypes DEF QueueInv
    <2>4. /\ Others * Survived(j) <= Others * lost[j]
          /\ Others * Survived(j) \in Nat /\ Others * lost[j] \in Nat
      BY <2>1, RepeatBounds
    <2>5. LedgerPhase[j] # "absent"
      BY <2>1 DEF LedgerPhase
    <2> QED
      BY <2>2, <2>3, <2>4, <2>5
  <1>3. LedgerPhase' = [j \in Jobs |-> IF j \in S THEN "open" ELSE LedgerPhase[j]]
    <2>1. ASSUME NEW j \in Jobs
          PROVE  LedgerPhase'[j] = IF j \in S THEN "open" ELSE LedgerPhase[j]
      BY <1>1 DEF LedgerPhase, RequeueStuck, Settled, Stuck
    <2> QED
      BY <2>1 DEF LedgerPhase
  <1>4. undone' = [j \in Jobs |-> IF j \in S THEN undone[j] + 1 ELSE undone[j]]
    BY DEF RequeueStuck
  <1>5. UNCHANGED <<attempts, lost, LedgerHeld>> /\ S \in SUBSET Jobs
    BY <1>1 DEF RequeueStuck, LedgerHeld
  <1> HIDE DEF S
  <1>6. Ledger!Repeat(S)
    BY <1>2, <1>3, <1>4, <1>5, SameCount DEF Ledger!Repeat, Others
  <1> QED
    BY <1>5, <1>6

\* The queue implements the ledger.
THEOREM QueueImplementsLedger == JobSpec => ImplementsLedger
  <1>1. JobInit => Ledger!LedgerInit
    BY DEF JobInit, Ledger!LedgerInit, LedgerPhase, LedgerHeld, NoLease, Settled
  <1>2. QueueInv /\ [JobNext]_jobVars => [Ledger!LedgerNext]_ledgerView
    <2> SUFFICES ASSUME QueueInv, [JobNext]_jobVars
                 PROVE  Ledger!LedgerNext \/ UNCHANGED ledgerView
      OBVIOUS
    <2>1. CASE \E j \in Jobs : Enqueue(j)
      BY <2>1, MappedEnqueue DEF Ledger!LedgerNext
    <2>2. ASSUME NEW w \in Workers, WorkerStep(w)
          PROVE  Ledger!LedgerNext \/ UNCHANGED ledgerView
      <3>1. CASE Claim(w)
        BY <3>1, MappedClaim DEF Ledger!LedgerNext
      <3>2. CASE Complete(w) \/ FailFinal(w)
        BY <3>2, MappedSettle DEF Ledger!LedgerNext
      <3>3. CASE FailRetry(w)
        BY <3>3, MappedRetry DEF Ledger!LedgerNext
      <3>4. CASE SelectStuck(w)
        BY <3>4 DEF SelectStuck, ledgerView, LedgerPhase, LedgerHeld, Settled
      <3>5. CASE RequeueStuck(w)
        BY <3>5, MappedRecover DEF Ledger!LedgerNext
      <3>6. CASE Crash(w)
        BY <3>6, MappedCrash DEF Ledger!LedgerNext
      <3> QED
        BY <2>2, <3>1, <3>2, <3>3, <3>4, <3>5, <3>6 DEF WorkerStep, RecoverStuck
    <2>3. CASE Tick \/ UNCHANGED jobVars
      BY <2>3 DEF Tick, jobVars, ledgerView, LedgerPhase, LedgerHeld, Settled
    <2> QED
      BY <2>1, <2>2, <2>3 DEF JobNext, Rest
  <1> QED
    BY <1>1, <1>2, QueueInvariant, PTL
    DEF JobSpec, ImplementsLedger, Ledger!LedgerSpec, Ledger!ledgerVars, ledgerView

-----------------------------------------------------------------------------
(***************************************************************************)
(* The one worker docker-compose.yml runs: nobody overtakes its recovery,  *)
(* because it comes between two jobs of its own.  Nothing is assumed of    *)
(* how long a handler runs.                                                *)
(***************************************************************************)

\* A worker writes a row only from a copy that is still current.
LeaseIsCurrent ==
    \A w \in Workers : Busy(w) =>
        /\ status[lease[w].job] = "running"
        /\ attempts[lease[w].job] = lease[w].attempt
        /\ runAfter[lease[w].job] = lease[w].at

\* What it selected as stuck is stuck when it updates it.
FoundIsStuck ==
    \A w \in Workers : Recovering(w) => ~Busy(w) /\ \A j \in found[w].jobs : Stuck(j)

SoleInv ==
    /\ JobTypeOK
    /\ LeaseIsCurrent
    /\ FoundIsStuck
    /\ \A j \in Jobs : undone[j] = 0

\* The empty table satisfies it.
LEMMA InitSole == JobInit => SoleInv
  <1> SUFFICES ASSUME JobInit PROVE SoleInv
    OBVIOUS
  <1>1. JobTypeOK
    BY InitInv DEF QueueInv
  <1> QED
    BY <1>1 DEF JobInit, SoleInv, LeaseIsCurrent, FoundIsStuck, Busy, Recovering, NoLease,
                NothingFound

\* The worker that lets go of its row was its only one, and recovers nothing.
LEMMA ReleaseSole ==
    ASSUME OneWorker, SoleInv, JobTypeOK', NEW w \in Workers, Busy(w),
           lease' = [lease EXCEPT ![w] = NoLease],
           UNCHANGED <<found, undone>>
    PROVE  SoleInv'
  <1>1. \A v \in Workers : v = w
    BY DEF OneWorker
  <1>2. ~Busy(w)' /\ ~Recovering(w)'
    BY DEF SoleInv, FoundIsStuck, JobTypeOK, Busy, Recovering, NoLease
  <1> QED
    BY <1>1, <1>2 DEF SoleInv, LeaseIsCurrent, FoundIsStuck

\* Every transaction keeps the types.
LEMMA NextKeepsTypes ==
    ASSUME JobTypeOK, [JobNext]_jobVars
    PROVE  JobTypeOK'
  <1> USE DEF JobTypeOK
  <1>1. ASSUME NEW j \in Jobs, Enqueue(j)
        PROVE  JobTypeOK'
    BY <1>1 DEF Enqueue, Statuses
  <1>2. ASSUME NEW w \in Workers, Claim(w)
        PROVE  JobTypeOK'
    <2>1. PICK j \in Jobs :
              /\ status' = [status EXCEPT ![j] = "running"]
              /\ attempts' = [attempts EXCEPT ![j] = @ + 1]
              /\ runAfter' = [runAfter EXCEPT ![j] = now]
              /\ lease' = [lease EXCEPT ![w] =
                              [job |-> j, attempt |-> attempts[j] + 1, at |-> now]]
      BY <1>2 DEF Claim
    <2>2. /\ [job |-> j, attempt |-> attempts[j] + 1, at |-> now] \in Lease
          /\ attempts[j] + 1 \in Nat
      BY DEF Lease
    <2>3. /\ status' \in [Jobs -> Statuses] /\ attempts' \in [Jobs -> Nat]
          /\ runAfter' \in [Jobs -> Nat]
      BY <2>1, <2>2 DEF Statuses
    <2>4. lease' \in [Workers -> Lease \union {NoLease}]
      BY <2>1, <2>2
    <2> QED
      BY <1>2, <2>3, <2>4 DEF Claim
  <1>3. ASSUME NEW w \in Workers, Complete(w) \/ FailFinal(w)
        PROVE  JobTypeOK'
    BY <1>3 DEF Complete, FailFinal, Statuses
  <1>4. ASSUME NEW w \in Workers, FailRetry(w)
        PROVE  JobTypeOK'
    <2>1. lease[w].at + BackoffFor(lease[w].attempt) \in Nat
      <3>1. lease[w].at \in Nat /\ lease[w].attempt \in Nat \ {0}
        BY <1>4, LeaseShape DEF FailRetry, Lease
      <3>2. BackoffFor(lease[w].attempt) \in Nat
        BY <3>1, BackoffDefined
      <3> QED
        BY <3>1, <3>2
    <2>2. lease[w].job \in Jobs
      BY <1>4, LeaseShape DEF FailRetry
    <2>3. status' \in [Jobs -> Statuses] /\ runAfter' \in [Jobs -> Nat]
      BY <1>4, <2>1, <2>2 DEF FailRetry, Statuses
    <2>4. lease' \in [Workers -> Lease \union {NoLease}]
      BY <1>4 DEF FailRetry
    <2> QED
      BY <1>4, <2>3, <2>4 DEF FailRetry
  <1>5. ASSUME NEW w \in Workers, SelectStuck(w)
        PROVE  JobTypeOK'
    BY <1>5 DEF SelectStuck, Found
  <1>6. ASSUME NEW w \in Workers, RequeueStuck(w)
        PROVE  JobTypeOK'
    BY <1>6 DEF RequeueStuck, Found, NothingFound, Statuses
  <1>7. ASSUME NEW w \in Workers, Crash(w)
        PROVE  JobTypeOK'
    <2>1. lost' \in [Jobs -> Nat]
      <3>1. Busy(w) => lease[w].job \in Jobs
        BY LeaseShape
      <3>2. lost' = IF Busy(w) THEN [lost EXCEPT ![lease[w].job] = @ + 1] ELSE lost
        BY <1>7 DEF Crash
      <3>3. \A j \in Jobs : [lost EXCEPT ![j] = @ + 1] \in [Jobs -> Nat]
        OBVIOUS
      <3> QED
        BY <3>1, <3>2, <3>3
    <2> QED
      BY <1>7, <2>1 DEF Crash, Found, NothingFound
  <1>8. CASE Tick \/ Rest \/ UNCHANGED jobVars
    BY <1>8 DEF Tick, Rest, jobVars
  <1> QED
    BY <1>1, <1>2, <1>3, <1>4, <1>5, <1>6, <1>7, <1>8 DEF JobNext, WorkerStep, RecoverStuck

\* Every transaction of one worker preserves it.
LEMMA NextSole ==
    ASSUME OneWorker, SoleInv, JobTypeOK', [JobNext]_jobVars
    PROVE  SoleInv'
  <1> USE DEF SoleInv
  <1>1. ASSUME NEW j \in Jobs, Enqueue(j)
        PROVE  SoleInv'
    <2>1. status[j] = "absent" /\ \A k \in Jobs : k # j => status'[k] = status[k]
                                                       /\ runAfter'[k] = runAfter[k]
      BY <1>1 DEF Enqueue, JobTypeOK
    <2>2. LeaseIsCurrent'
      BY <1>1, <2>1, LeaseShape DEF Enqueue, LeaseIsCurrent, Busy
    <2>3. FoundIsStuck'
      BY <1>1, <2>1 DEF Enqueue, FoundIsStuck, Recovering, Busy, Stuck, JobTypeOK, Found
    <2> QED
      BY <1>1, <2>2, <2>3 DEF Enqueue
  <1>2. ASSUME NEW w \in Workers, Claim(w)
        PROVE  SoleInv'
    <2>1. PICK j \in Jobs :
              /\ status' = [status EXCEPT ![j] = "running"]
              /\ attempts' = [attempts EXCEPT ![j] = @ + 1]
              /\ runAfter' = [runAfter EXCEPT ![j] = now]
              /\ lease' = [lease EXCEPT ![w] =
                              [job |-> j, attempt |-> attempts[j] + 1, at |-> now]]
      BY <1>2 DEF Claim
    <2>2. \A v \in Workers : v = w
      BY DEF OneWorker
    <2>3. lease'[w] = [job |-> j, attempt |-> attempts[j] + 1, at |-> now]
      BY <2>1 DEF JobTypeOK
    <2>4. status'[j] = "running" /\ attempts'[j] = attempts[j] + 1 /\ runAfter'[j] = now
      BY <2>1 DEF JobTypeOK
    <2>5. LeaseIsCurrent'
      BY <2>2, <2>3, <2>4 DEF LeaseIsCurrent
    <2>6. FoundIsStuck'
      BY <1>2, <2>2 DEF Claim, BetweenJobs, Recovering, FoundIsStuck
    <2> QED
      BY <1>2, <2>5, <2>6 DEF Claim
  <1>3. ASSUME NEW w \in Workers, Complete(w) \/ FailRetry(w) \/ FailFinal(w)
        PROVE  SoleInv'
    BY <1>3, ReleaseSole DEF Complete, FailRetry, FailFinal
  <1>4. ASSUME NEW w \in Workers, SelectStuck(w)
        PROVE  SoleInv'
    <2>1. \A v \in Workers : v = w
      BY DEF OneWorker
    <2>2. found'[w].jobs = {j \in Jobs : Stuck(j)}
      BY <1>4 DEF SelectStuck, JobTypeOK
    <2>3. ~Busy(w)'
      BY <1>4 DEF SelectStuck, BetweenJobs, Busy
    <2>4. \A j \in Jobs : Stuck(j)' <=> Stuck(j)
      BY <1>4 DEF SelectStuck, Stuck
    <2> QED
      BY <1>4, <2>1, <2>2, <2>3, <2>4 DEF SelectStuck, LeaseIsCurrent, FoundIsStuck
  <1>5. ASSUME NEW w \in Workers, RequeueStuck(w)
        PROVE  SoleInv'
    <2>1. \A v \in Workers : v = w
      BY DEF OneWorker
    <2>2. ~Busy(w)' /\ ~Recovering(w)'
      BY <1>5 DEF RequeueStuck, FoundIsStuck, Busy, Recovering, NothingFound, JobTypeOK
    <2>3. \A j \in Jobs : undone'[j] = 0
      BY <1>5 DEF RequeueStuck, FoundIsStuck
    <2> QED
      BY <2>1, <2>2, <2>3 DEF LeaseIsCurrent, FoundIsStuck
  <1>6. ASSUME NEW w \in Workers, Crash(w)
        PROVE  SoleInv'
    <2>1. \A v \in Workers : v = w
      BY DEF OneWorker
    <2>2. ~Busy(w)' /\ ~Recovering(w)'
      BY <1>6 DEF Crash, Busy, Recovering, NoLease, NothingFound, JobTypeOK
    <2> QED
      BY <1>6, <2>1, <2>2 DEF Crash, LeaseIsCurrent, FoundIsStuck
  <1>7. CASE Tick
    <2>1. ASSUME NEW j \in Jobs, Stuck(j) PROVE Stuck(j)'
      <3>1. now \in Nat /\ runAfter[j] \in Nat
        BY DEF JobTypeOK
      <3> QED
        BY <1>7, <2>1, <3>1 DEF Tick, Stuck
    <2>2. FoundIsStuck'
      BY <1>7, <2>1 DEF Tick, FoundIsStuck, Recovering, Busy, JobTypeOK, Found
    <2> QED
      BY <1>7, <2>2 DEF Tick, LeaseIsCurrent, Busy
  <1>8. CASE UNCHANGED jobVars
    BY <1>8 DEF jobVars, LeaseIsCurrent, FoundIsStuck, Busy, Recovering, Stuck
  <1> QED
    BY <1>1, <1>2, <1>3, <1>4, <1>5, <1>6, <1>7, <1>8
       DEF JobNext, WorkerStep, RecoverStuck, Rest

\* With one worker no recovery is ever overtaken, the worker never writes a
\* row from a copy that has become stale, and what it takes for stuck it has
\* left behind itself, however long its handlers run.
THEOREM SoleInvariant ==
    ASSUME OneWorker
    PROVE  JobSpec => []SoleInv
  <1>1. SoleInv /\ [JobNext]_jobVars => SoleInv'
    BY NextSole, NextKeepsTypes DEF SoleInv
  <1> QED
    BY <1>1, InitSole, PTL DEF JobSpec

-----------------------------------------------------------------------------
(* What the modules that run the queue use of its transactions. *)

\* The rows workers execute and recover exist.
LEMMA LeasedRow ==
    ASSUME QueueInv, NEW w \in Workers
    PROVE  /\ Busy(w) => lease[w].job \in Jobs /\ status[lease[w].job] # "absent"
           /\ \A j \in found[w].jobs : j \in Jobs /\ status[j] # "absent"
  BY LeaseShape DEF QueueInv, CopyOK, Recovering, JobTypeOK, Found

\* A worker that lets go of its row is no longer busy, the others still are.
LEMMA Released ==
    ASSUME JobTypeOK, NEW w \in Workers, lease' = [lease EXCEPT ![w] = NoLease]
    PROVE  /\ ~Busy(w)' /\ lease'[w].job = NoJob
           /\ \A v \in Workers : v # w => lease'[v] = lease[v] /\ (Busy(v)' <=> Busy(v))
  BY DEF JobTypeOK, Busy, NoLease

\* complete() and fail() change the row of the worker's job and nobody else's,
\* and the worker lets go of it.
LEMMA JobEnds ==
    ASSUME QueueInv, NEW w \in Workers, Complete(w) \/ FailRetry(w) \/ FailFinal(w)
    PROVE  /\ Busy(w) /\ lease[w].job \in Jobs /\ status[lease[w].job] # "absent"
           /\ lease' = [lease EXCEPT ![w] = NoLease]
           /\ status'[lease[w].job] \in {"queued", "done", "failed"}
           /\ FailRetry(w) => status'[lease[w].job] = "queued"
           /\ \A k \in Jobs : k # lease[w].job => status'[k] = status[k]
           /\ UNCHANGED <<now, lost, crashes>>
  <1>1. Busy(w) /\ lease' = [lease EXCEPT ![w] = NoLease] /\ UNCHANGED <<now, lost, crashes>>
    BY DEF Complete, FailRetry, FailFinal
  <1>2. lease[w].job \in Jobs /\ status[lease[w].job] # "absent"
    BY <1>1, LeasedRow
  <1>3. PICK s \in {"queued", "done", "failed"} :
            status' = [status EXCEPT ![lease[w].job] = s] /\ (FailRetry(w) => s = "queued")
    BY DEF Complete, FailRetry, FailFinal
  <1>4. status'[lease[w].job] = s /\ \A k \in Jobs : k # lease[w].job => status'[k] = status[k]
    BY <1>2, <1>3 DEF QueueInv, JobTypeOK
  <1> QED
    BY <1>1, <1>2, <1>3, <1>4

\* claim_next() gives the worker a queued row.
LEMMA Claims ==
    ASSUME QueueInv, NEW w \in Workers, Claim(w)
    PROVE  \E j \in Jobs :
               /\ status[j] = "queued" /\ status' = [status EXCEPT ![j] = "running"]
               /\ lease'[w].job = j /\ j # NoJob /\ ~Busy(w)
               /\ \A v \in Workers : v # w => lease'[v] = lease[v]
  <1>1. PICK j \in Jobs :
            /\ status[j] = "queued"
            /\ status' = [status EXCEPT ![j] = "running"]
            /\ lease' = [lease EXCEPT ![w] =
                            [job |-> j, attempt |-> attempts[j] + 1, at |-> now]]
    BY DEF Claim, Due
  <1>2. lease'[w].job = j /\ \A v \in Workers : v # w => lease'[v] = lease[v]
    BY <1>1 DEF QueueInv, JobTypeOK
  <1> QED
    BY <1>1, <1>2 DEF Claim, BetweenJobs

\* recover_stuck() changes no lease, and no row but to queue one that exists.
LEMMA Recovers ==
    ASSUME QueueInv, NEW w \in Workers, RecoverStuck(w)
    PROVE  /\ UNCHANGED lease
           /\ \A j \in Jobs :
                  \/ status'[j] = status[j]
                  \/ status'[j] = "queued" /\ status[j] # "absent"
  BY LeasedRow DEF RecoverStuck, SelectStuck, RequeueStuck

\* The one worker's job is running when it ends.
LEMMA SoleJobEnds ==
    ASSUME SoleInv, NEW w \in Workers, Complete(w) \/ FailRetry(w) \/ FailFinal(w)
    PROVE  Busy(w) /\ lease[w].job \in Jobs /\ status[lease[w].job] = "running"
  BY LeaseShape DEF SoleInv, LeaseIsCurrent, Complete, FailRetry, FailFinal

\* The one worker's recovery only queues rows that are running.
LEMMA SoleRecovers ==
    ASSUME SoleInv, NEW w \in Workers, RecoverStuck(w)
    PROVE  \A j \in Jobs :
               \/ status'[j] = status[j]
               \/ status'[j] = "queued" /\ status[j] = "running"
  BY DEF SoleInv, FoundIsStuck, Stuck, RecoverStuck, SelectStuck, RequeueStuck
=============================================================================
