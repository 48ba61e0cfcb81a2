---------------------------- MODULE ShoppingSync ----------------------------
(***************************************************************************)
(* The Home Assistant sensor that follows the shopping list: the requests  *)
(* that change the list and then ask for a sync (web/routes_shopping.py,   *)
(* shopping/service.py), and the worker that reads the list and posts it   *)
(* (jobs/handlers.py), through the job queue.                              *)
(*                                                                         *)
(* The list is the number of changes made to it so far, and the sensor the *)
(* number of changes it shows.                                             *)
(***************************************************************************)
EXTENDS JobQueue

CONSTANTS
    Tabs,        \* requests that can be under way at the same time
    MaxChanges,  \* bound: changes of the list
    MaxFailures  \* bound: posts that fail and requests that break off

ASSUME SyncAssumption == MaxChanges \in Nat /\ MaxFailures \in Nat

VARIABLES
    list,      \* the items not yet bought
    page,      \* how far each request is
    step,      \* how far each worker is in its handler
    names,     \* what each worker read of the list
    sensor,    \* what Home Assistant shows
    failures,  \* history: posts that failed, requests that broke off
    missed     \* history: what went wrong since the list was last read

syncVars == <<list, page, step, names, sensor, failures, missed>>
vars == <<jobVars, syncVars>>

Init ==
    /\ JobInit
    /\ list = 0
    /\ page = [t \in Tabs |-> "idle"]
    /\ step = [w \in Workers |-> "idle"]
    /\ names = [w \in Workers |-> 0]
    /\ sensor = 0
    /\ failures = 0
    /\ missed = {}

Turn(t, p) == page' = [page EXCEPT ![t] = p]
GoTo(w, s) == step' = [step EXCEPT ![w] = s]

-----------------------------------------------------------------------------
\* add_by_name(), add_by_product(), toggle_bought(), remove(), clear_bought():
\* the change is committed before a sync is asked for.
Change(t) ==
    /\ page[t] = "idle"
    /\ list < MaxChanges
    /\ list' = list + 1
    /\ Turn(t, "changed")
    /\ UNCHANGED <<jobVars, step, names, sensor, failures, missed>>

EverAsked(j) == status[j] # "absent"                      \* mutant: any status
\* Job.status.in_(("queued", "running"))
Asked(j) == status[j] \in {"queued", "running"}

\* queue_ha_sync(), the select: a sync that is queued or running is enough.
\* One that is running may have read the list already.
Look(t) ==
    /\ page[t] = "changed"
    /\ \/ /\ \E j \in Jobs : Asked(j)
          /\ Turn(t, "idle")
          /\ missed' = IF \E w \in Workers : step[w] \in {"posting", "settle"}
                       THEN missed \union {"skipped"} ELSE missed
       \/ /\ ~ \E j \in Jobs : Asked(j)
          /\ Turn(t, "asking")
          /\ UNCHANGED missed
    /\ UNCHANGED <<jobVars, list, step, names, sensor, failures>>

\* queue_ha_sync(), the insert: another request may have inserted its own.
Ask(t) ==
    /\ page[t] = "asking"
    /\ \E j \in Jobs : Enqueue(j)
    /\ Turn(t, "idle")
    /\ UNCHANGED <<list, step, names, sensor, failures, missed>>

\* The web process stops between the two commits.
BreakOff(t) ==
    /\ page[t] # "idle"
    /\ failures < MaxFailures
    /\ failures' = failures + 1
    /\ missed' = missed \union {"never asked"}
    /\ Turn(t, "idle")
    /\ UNCHANGED <<jobVars, list, step, names, sensor>>

-----------------------------------------------------------------------------
StartSync(w) ==
    /\ step[w] = "idle"
    /\ Claim(w)
    /\ GoTo(w, "claimed")
    /\ UNCHANGED <<list, page, names, sensor, failures, missed>>

\* pending_names()
ToBuy == list

\* push_state(), up to the post.
ReadList(w) ==
    /\ step[w] = "claimed"
    /\ names' = [names EXCEPT ![w] = ToBuy]
    /\ missed' = {}
    /\ GoTo(w, "posting")
    /\ UNCHANGED <<jobVars, list, page, sensor, failures>>

Post(w) ==
    /\ step[w] = "posting"
    /\ sensor' = names[w]
    /\ GoTo(w, "settle")
    /\ UNCHANGED <<jobVars, list, page, names, failures, missed>>

\* Whether Home Assistant got the post is not known when no answer comes.
MaybePosted(w) == sensor' \in {sensor, names[w]}

\* push_state() returns False, which nobody looks at.
PostFails(w) ==
    /\ step[w] = "posting"
    /\ failures < MaxFailures
    /\ failures' = failures + 1
    /\ missed' = missed \union {"failed"}
    /\ MaybePosted(w)
    /\ GoTo(w, "settle")
    /\ UNCHANGED <<jobVars, list, page, names>>

\* Any other exception: process_one() fails the job for good.
Breaks(w) ==
    /\ step[w] \in {"claimed", "posting"}
    /\ failures < MaxFailures
    /\ failures' = failures + 1
    /\ missed' = missed \union {"failed"}
    /\ FailFinal(w)
    /\ GoTo(w, "idle")
    /\ UNCHANGED <<list, page, names, sensor>>

Finish(w) ==
    /\ step[w] = "settle"
    /\ Complete(w)
    /\ GoTo(w, "idle")
    /\ UNCHANGED <<list, page, names, sensor, failures, missed>>

\* The worker dies, before or after its post has arrived.  (Between two jobs it
\* has written nothing: its housekeeping starts again.)
Die(w) ==
    /\ step[w] # "idle"
    /\ Crash(w)
    /\ IF step[w] = "posting" THEN MaybePosted(w) ELSE UNCHANGED sensor
    /\ GoTo(w, "idle")
    /\ UNCHANGED <<list, page, names, failures, missed>>

Housekeep(w) ==
    /\ step[w] = "idle"
    /\ RecoverStuck(w)
    /\ UNCHANGED syncVars

ClockTick == Tick /\ UNCHANGED syncVars

\* No change is left to make, and every sync is settled.
AtRest ==
    /\ list = MaxChanges
    /\ \A t \in Tabs : page[t] = "idle"
    /\ \A j \in Jobs : status[j] = "absent" \/ Settled(j)
    /\ UNCHANGED vars

-----------------------------------------------------------------------------
HandlerStep(w) == ReadList(w) \/ Post(w) \/ PostFails(w) \/ Breaks(w) \/ Finish(w)
Request(t) == Look(t) \/ Ask(t)

Next ==
    \/ \E t \in Tabs : Change(t) \/ Request(t) \/ BreakOff(t)
    \/ \E w \in Workers : StartSync(w) \/ HandlerStep(w) \/ Die(w) \/ Housekeep(w)
    \/ ClockTick
    \/ AtRest

Spec == Init /\ [][Next]_vars

\* A request that has begun runs on, and so do the worker and the clock; no
\* one owes a change.
Fairness ==
    /\ WF_vars(ClockTick)
    /\ \A t \in Tabs : WF_vars(Request(t))
    /\ \A w \in Workers :
        WF_vars(StartSync(w)) /\ WF_vars(HandlerStep(w)) /\ WF_vars(Housekeep(w))

FairSpec == Spec /\ Fairness

-----------------------------------------------------------------------------
\* Every variable keeps its type; what is shown was once on the list.
SyncTypeOK ==
    /\ JobTypeOK
    /\ list \in Nat
    /\ page \in [Tabs -> {"idle", "changed", "asking"}]
    /\ step \in [Workers -> {"idle", "claimed", "posting", "settle"}]
    /\ names \in [Workers -> 0..list]
    /\ sensor \in 0..list
    /\ failures \in Nat
    /\ missed \in SUBSET {"skipped", "never asked", "failed"}

\* When nothing is under way the sensor shows the list, unless, since the
\* list was last read, a change met the handler between that read and its
\* end, a request broke off before asking, or a post failed: queue_ha_sync() loses nothing
\* by racing with itself, and recover_stuck() makes up for every crash.
StaleIsExplained ==
    (/\ \A t \in Tabs : page[t] = "idle"
     /\ \A j \in Jobs : status[j] = "absent" \/ Settled(j)
     /\ sensor # list) => missed # {}

\* A queued sync is pushed, with everything that was on the list while it
\* waited, whatever crashes; only a failed post is not tried again.
QueuedIsPushed ==
    \A n \in 1..MaxChanges :
        (list = n /\ \E j \in Jobs : status[j] = "queued")
            ~> (sensor >= n \/ failures > 0)
=============================================================================
