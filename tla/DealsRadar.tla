----------------------------- MODULE DealsRadar -----------------------------
(***************************************************************************)
(* The offers and what becomes of them (deals/service.py): the refresh     *)
(* stores what it finds, judges every offer against the rules the user     *)
(* made, purges, and announces what is new through Home Assistant; the     *)
(* requests that dismiss an offer or remove a rule (web/routes_deals.py)   *)
(* judge every offer as well.  DealsRefresh says when a refresh runs.      *)
(*                                                                         *)
(* A judgement (evaluate()) is three steps: the rules are read, the offers *)
(* are read, and what differs from what was read is written.               *)
(***************************************************************************)
EXTENDS Naturals, FiniteSets

CONSTANTS
    Offers,      \* external ids of the offers of the source
    Brand,       \* Deal.brand of each offer, or None
    Category,    \* Deal.category, or None
    OwnLabel,    \* Deal.private_label: "yes", "no", or None when not known
    Name,        \* the normalised name
    None,
    Requests,    \* requests that can be under way at the same time
    Worker,      \* the worker process
    MaxChanges,  \* bound: rules made or removed
    MaxFaults    \* bound: crashes, failed posts, refreshes that break off

ASSUME RadarAssumption ==
    /\ Worker \notin Requests
    /\ None \notin Offers
    /\ MaxChanges \in Nat
    /\ MaxFaults \in Nat

VARIABLES
    life,      \* of each offer: "absent", "current", "ended", "old" (past PURGE_AFTER)
    worth,     \* the offers whose price makes them relevant
    relevant,  \* the offers with Deal.relevance
    alerted,   \* the offers with Deal.alerted_at
    rules,     \* the rows of deal_rules
    at,        \* how far each process is
    known,     \* the rules each process has read
    seen,      \* the offers each process has read, and which were relevant
    clean,     \* history: processes whose judgement nothing has disturbed
    late,      \* history: the last judgement was disturbed or never made
    told,      \* history: how often each row has been announced
    changes,   \* history: rules made or removed
    faults     \* history: faults so far

table == <<life, worth, relevant, alerted, rules>>
process == <<at, known, seen, clean>>
history == <<late, told, changes, faults>>
radarVars == <<table, process, history>>

Processes == Requests \union {Worker}
Kinds == {"brand", "category", "a_brand", "product", "deal"}
Nothing == [all |-> {}, relevant |-> {}]
Stored(d) == life[d] # "absent"

RadarInit ==
    /\ life = [d \in Offers |-> "absent"]
    /\ worth = {} /\ relevant = {} /\ alerted = {} /\ rules = {}
    /\ at = [p \in Processes |-> "idle"]
    /\ known = [p \in Processes |-> {}]
    /\ seen = [p \in Processes |-> Nothing]
    /\ clean = {}
    /\ late = FALSE
    /\ told = [d \in Offers |-> 0]
    /\ changes = 0
    /\ faults = 0

Goes(p, s) == at' = [at EXCEPT ![p] = s]
Fault ==
    /\ faults < MaxFaults
    /\ faults' = faults + 1
Change ==
    /\ changes < MaxChanges
    /\ changes' = changes + 1

-----------------------------------------------------------------------------
(* What the user told the radar *)

\* available_reasons(), by the kind of rule each makes (_KIND).
Reasons(d) ==
    {"product", "deal"}
    \union (IF Brand[d] # None THEN {"brand"} ELSE {})
    \union (IF Category[d] # None THEN {"category"} ELSE {})
    \union (IF Category[d] # None /\ OwnLabel[d] = "no" THEN {"a_brand"} ELSE {})

\* _rule_value()
RuleValue(kind, d) ==
    CASE kind = "brand" -> Brand[d]
      [] kind \in {"category", "a_brand"} -> Category[d]
      [] kind = "product" -> Name[d]
      [] kind = "deal" -> d

Rule(kind, d) == <<kind, RuleValue(kind, d)>>
Rules == {Rule(kind, d) : kind \in Kinds, d \in Offers}

\* blocked(): by any rule that fits the offer; an A-brand rule only when the
\* offer is known to be no house brand.
Blocked(S, d) == \E kind \in Reasons(d) : Rule(kind, d) \in S

-----------------------------------------------------------------------------
(* evaluate(), in any process *)

\* A rule that is made or removed disturbs the judgements the others are in
\* the middle of, a written offer those that have read the offers.
Disturb(p) == clean' = clean \intersect {p}
DisturbReaders(p) ==
    clean' = {q \in clean \ {p} : at[q] = "judging offers" /\ seen[q] = Nothing}

\* load_rules()
LoadRules(p) ==
    /\ at[p] = "judging"
    /\ known' = [known EXCEPT ![p] = rules]
    /\ clean' = IF seen[p] = Nothing THEN clean \union {p} ELSE clean
    /\ Goes(p, "judging offers")
    /\ UNCHANGED <<table, seen, history>>

\* The select of the offers that have not ended.  The offer a request was
\* about is in its session already, as it was loaded.
LoadOffers(p) ==
    LET now == {d \in Offers : life[d] = "current"} IN
    /\ at[p] = "judging offers"
    /\ seen' = [seen EXCEPT ![p] =
           [all |-> now,
            relevant |-> {d \in now : d \in IF d \in @.all THEN @.relevant ELSE relevant}]]
    /\ Goes(p, "writing")
    /\ UNCHANGED <<table, known, clean, history>>

JudgedByPrice(p) == seen[p].all \intersect worth     \* mutant: rules not applied
\* The verdict on the offers read: their price and the rules read before.
Judged(p) == {d \in seen[p].all \intersect worth : ~Blocked(known[p], d)}

\* Only what differs from what was read is written.
Written(p) ==
    (relevant \ (seen[p].relevant \ Judged(p))) \union (Judged(p) \ seen[p].relevant)

\* The commit of evaluate().
Write(p) ==
    /\ at[p] = "writing"
    /\ relevant' = Written(p)
    /\ late' = (p \notin clean)
    /\ DisturbReaders(p)
    /\ Goes(p, IF p = Worker THEN "purging" ELSE "idle")
    /\ known' = [known EXCEPT ![p] = {}]
    /\ seen' = [seen EXCEPT ![p] = Nothing]
    /\ UNCHANGED <<life, worth, alerted, rules, told, changes, faults>>

-----------------------------------------------------------------------------
(* The requests *)

\* deal_dismiss(): the offer is loaded ...
OpenDismiss(t, d) ==
    /\ at[t] = "idle"
    /\ Stored(d)
    /\ seen' = [seen EXCEPT ![t] = [all |-> {d}, relevant |-> {d} \intersect relevant]]
    /\ clean' = clean \union {t}
    /\ Goes(t, "dismissing")
    /\ UNCHANGED <<table, known, history>>

\* ... dismiss() commits the rule, a new one or one that was there ...
Dismiss(t) ==
    /\ at[t] = "dismissing"
    /\ Change
    /\ \E d \in seen[t].all, kind \in Kinds :
        /\ kind \in Reasons(d)
        /\ rules' = rules \union {Rule(kind, d)}
    /\ Disturb(t)
    /\ Goes(t, "judging")
    /\ UNCHANGED <<life, worth, relevant, alerted, known, seen, late, told, faults>>

\* ... or refuses the reason (ValueError) or gives up (the unique constraint).
Refuse(t) ==
    /\ at[t] = "dismissing"
    /\ seen' = [seen EXCEPT ![t] = Nothing]
    /\ clean' = clean \ {t}
    /\ Goes(t, "idle")
    /\ UNCHANGED <<table, known, history>>

\* deal_rule_remove()
RemoveRule(t) ==
    /\ at[t] = "idle"
    /\ Change
    /\ \E r \in rules : rules' = rules \ {r}
    /\ Disturb(t)
    /\ Goes(t, "judging")
    /\ UNCHANGED <<life, worth, relevant, alerted, known, seen, late, told, faults>>

\* The request breaks off after its rule is committed.
BreakOff(t) ==
    /\ at[t] \in {"judging", "judging offers", "writing"}
    /\ Fault
    /\ late' = TRUE
    /\ clean' = clean \ {t}
    /\ known' = [known EXCEPT ![t] = {}]
    /\ seen' = [seen EXCEPT ![t] = Nothing]
    /\ Goes(t, "idle")
    /\ UNCHANGED <<table, told, changes>>

-----------------------------------------------------------------------------
(* The refresh *)

\* run_chunk(): upsert() stores or renews what the source answers, which are
\* offers that are on; relevance and alerted_at stay as they are.
Find ==
    /\ at[Worker] = "idle"
    /\ \E hits, good \in SUBSET Offers :
        /\ good \subseteq hits
        /\ life' = [d \in Offers |-> IF d \in hits THEN "current" ELSE life[d]]
        /\ worth' = (worth \ hits) \union good
    /\ DisturbReaders(Worker)
    /\ Goes(Worker, "judging")
    /\ UNCHANGED <<relevant, alerted, rules, known, seen, history>>

Purged == {d \in Offers : life[d] = "old"}

\* purge_old()
Purge ==
    /\ at[Worker] = "purging"
    /\ life' = [d \in Offers |-> IF d \in Purged THEN "absent" ELSE life[d]]
    /\ worth' = worth \ Purged
    /\ relevant' = relevant \ Purged
    /\ alerted' = alerted \ Purged
    /\ told' = [d \in Offers |-> IF d \in Purged THEN 0 ELSE told[d]]
    /\ Goes(Worker, "alerting")
    /\ UNCHANGED <<rules, known, seen, clean, late, changes, faults>>

PendingEnded == {d \in relevant \ alerted : life[d] = "ended"}  \* mutant: < for >=
\* pending_alerts(), offers not yet valid left aside.
Pending == {d \in relevant \ alerted : life[d] = "current"}

\* send_alerts(), up to the post.
Alert ==
    /\ at[Worker] = "alerting"
    /\ seen' = [seen EXCEPT ![Worker] = [Nothing EXCEPT !.all = Pending]]
    /\ Goes(Worker, IF Pending = {} THEN "idle" ELSE "posting")
    /\ UNCHANGED <<table, known, clean, history>>

Announced(d) == IF d \in seen[Worker].all THEN told[d] + 1 ELSE told[d]

\* Home Assistant takes the message and answers 200.
Post ==
    /\ at[Worker] = "posting"
    /\ told' = [d \in Offers |-> Announced(d)]
    /\ Goes(Worker, "marking")
    /\ UNCHANGED <<table, known, seen, clean, late, changes, faults>>

MarksNothing == alerted                              \* mutant: alerted_at not set
Marks == alerted \union seen[Worker].all

\* alerted_at, and its commit.
Mark ==
    /\ at[Worker] = "marking"
    /\ alerted' = Marks
    /\ seen' = [seen EXCEPT ![Worker] = Nothing]
    /\ Goes(Worker, "idle")
    /\ UNCHANGED <<life, worth, relevant, rules, known, clean, history>>

\* The refresh ends early: the run has failed or alerts are off, the post
\* fails before or after Home Assistant took the message, an exception or a
\* crash.
CutShort ==
    /\ at[Worker] # "idle"
    /\ Fault
    /\ \/ UNCHANGED told
       \/ at[Worker] = "posting" /\ told' = [d \in Offers |-> Announced(d)]
    /\ late' = (late \/ at[Worker] \in {"judging", "judging offers", "writing"})
    /\ clean' = clean \ {Worker}
    /\ known' = [known EXCEPT ![Worker] = {}]
    /\ seen' = [seen EXCEPT ![Worker] = Nothing]
    /\ Goes(Worker, "idle")
    /\ UNCHANGED <<table, changes>>

\* An offer ends, and after PURGE_AFTER it is old.
Ages(d) ==
    /\ life[d] \in {"current", "ended"}
    /\ life' = [life EXCEPT ![d] = IF @ = "current" THEN "ended" ELSE "old"]
    /\ UNCHANGED <<worth, relevant, alerted, rules, process, history>>

-----------------------------------------------------------------------------
Judge(p) == LoadRules(p) \/ LoadOffers(p) \/ Write(p)
Refresh == Find \/ Judge(Worker) \/ Purge \/ Alert \/ Post \/ Mark

RadarNext ==
    \/ Refresh \/ CutShort
    \/ \E t \in Requests : Judge(t) \/ Dismiss(t) \/ Refuse(t) \/ RemoveRule(t) \/ BreakOff(t)
    \/ \E t \in Requests, d \in Offers : OpenDismiss(t, d)
    \/ \E d \in Offers : Ages(d)

RadarSpec == RadarInit /\ [][RadarNext]_radarVars

\* The refresh runs every night (DealsRefresh), and a judgement that has
\* begun goes on.
RadarFairness ==
    /\ WF_radarVars(Refresh)
    /\ \A t \in Requests : WF_radarVars(Judge(t))

FairRadarSpec == RadarSpec /\ RadarFairness

-----------------------------------------------------------------------------
\* Every variable keeps its type; a row that is gone has left nothing.
RadarTypeOK ==
    /\ life \in [Offers -> {"absent", "current", "ended", "old"}]
    /\ \A S \in {worth, relevant, alerted} : S \subseteq {d \in Offers : Stored(d)}
    /\ rules \subseteq Rules
    /\ at \in [Processes -> {"idle", "dismissing", "judging", "judging offers", "writing",
                             "purging", "alerting", "posting", "marking"}]
    /\ known \in [Processes -> SUBSET Rules]
    /\ seen \in [Processes -> [all : SUBSET Offers, relevant : SUBSET Offers]]
    /\ clean \subseteq Processes
    /\ late \in BOOLEAN
    /\ told \in [Offers -> Nat]
    /\ changes \in 0..MaxChanges
    /\ faults \in 0..MaxFaults

Judging == \E p \in Processes : at[p] \in {"judging", "judging offers", "writing"}

\* When no judgement is under way and the last was not disturbed by another
\* process, the page shows what is worth a look and no rule blocks: neither
\* the request nor the refresh leaves an offer behind, the one the request
\* had loaded before included.
ShownIsRight ==
    ~Judging /\ ~late =>
        \A d \in Offers : life[d] = "current" =>
            (d \in relevant <=> d \in worth /\ ~Blocked(rules, d))

\* An offer is announced again only for a mark that a fault has lost.
ToldOnceAndFaults ==
    \A d \in Offers : told[d] <= faults + (IF d \in alerted \/ at[Worker] = "marking"
                                           THEN 1 ELSE 0)

\* An offer that is on, worth a look and not blocked is announced, as long as
\* it stays so: a failed post is tried again by the next refresh.
EveryOfferTold ==
    \A d \in Offers :
        LET Due == life[d] = "current" /\ d \in worth /\ ~Blocked(rules, d)
        IN  Due ~> (d \in alerted \/ ~Due)
=============================================================================
