------------------------------ MODULE Overview ------------------------------
(***************************************************************************)
(* The monthly overview (analytics/aggregate.py, queries.py, routes.py):   *)
(* what the household's confirmed receipts add up to in each spending      *)
(* cycle, while days pass, receipts are confirmed and deleted, and the     *)
(* start day of the cycle is changed on the settings page.                 *)
(***************************************************************************)
EXTENDS Cycles, Sequences, FiniteSets, FiniteSetsExt

CONSTANTS
    Book,        \* the receipts there can be: [on, store, total, lines]
    Categories,  \* rows of the table categories
    Nonfood,     \* those with counts_as_food off
    Fallback,    \* the category "Overig"
    NoCategory,
    StartDays,   \* cycle_start_day: the settings page takes 1 to 28
    FirstDay,
    LastDay,     \* bound: the last day modelled
    TrendMonths, \* TREND_MONTHS
    MinDays      \* PROJECTION_MIN_DAYS

ASSUME OverviewAssumption ==
    /\ StartDays \subseteq 1 .. 28 /\ 1 \in StartDays
    /\ IsDate(FirstDay) /\ FirstDay.month > TrendMonths
    /\ TrendMonths \in Nat /\ MinDays \in Nat
    /\ IsFiniteSet(Categories)
    /\ Nonfood \subseteq Categories /\ NoCategory \notin Categories
    /\ \A r \in Book :
           /\ IsDate(r.on) /\ r.total \in Int
           /\ IsFiniteSet(DOMAIN r.lines)
           /\ \A i \in DOMAIN r.lines : r.lines[i].cents \in Int

VARIABLES
    today,
    startDay,
    confirmed  \* receipts that are confirmed

overviewVars == <<today, startDay, confirmed>>

OverviewInit ==
    /\ today = FirstDay
    /\ startDay = 1
    /\ confirmed = {}

NextDay ==
    /\ Before(today, LastDay)
    /\ today' = Tomorrow(today)
    /\ UNCHANGED <<startDay, confirmed>>

\* parse_and_save()
SetStartDay(d) ==
    /\ startDay' = d
    /\ UNCHANGED <<today, confirmed>>

\* confirm(), quick_add(), once the purchase has been made.
Confirm(r) ==
    /\ ~Before(today, r.on)
    /\ confirmed' = confirmed \union {r}
    /\ UNCHANGED <<today, startDay>>

\* delete(), or a confirmed receipt read once more.
Withdraw(r) ==
    /\ confirmed' = confirmed \ {r}
    /\ UNCHANGED <<today, startDay>>

OverviewNext ==
    \/ NextDay
    \/ \E d \in StartDays \ {startDay} : SetStartDay(d)
    \/ \E r \in Book \ confirmed : Confirm(r)
    \/ \E r \in confirmed : Withdraw(r)

OverviewSpec == OverviewInit /\ [][OverviewNext]_overviewVars

-----------------------------------------------------------------------------
(* attribute(), summarize_month() *)

Items(lines) == {i \in DOMAIN lines : lines[i].kind = "item"}

\* A discount is booked to the item before it; deposits, bags and rounding
\* to the fallback category.
Attributed(lines, i) ==
    LET before == {j \in Items(lines) : j <= i}
    IN  IF lines[i].kind \notin {"item", "discount"} \/ before = {}
        THEN NoCategory
        ELSE lines[Max(before)].category

\* mutant: a category that is gone is left out.
BookedAsIs(category) == category

Booked(category) == IF category \in Categories THEN category ELSE Fallback

Cents(r) == [i \in DOMAIN r.lines |-> r.lines[i].cents]

Explained(r) == SumFunction(Cents(r))

\* The lines of a receipt booked to one category.
Share(r, category) ==
    SumFunctionOnSet(Cents(r),
        {i \in DOMAIN r.lines : Booked(Attributed(r.lines, i)) = category})

Total(R) == SumFunction([r \in R |-> r.total])
NotItemised(R) == SumFunction([r \in R |-> r.total - Explained(r)])
ByCategory(R, category) == SumFunction([r \in R |-> Share(r, category)])
ByStore(R, store) == Total({r \in R : r.store = store})

\* What a line may be booked to.
Slots == Categories \union {Fallback}

\* Without a row in categories a line counts as food.
FoodSpend(R) ==
    NotItemised(R) + SumFunction([c \in Slots \ Nonfood |-> ByCategory(R, c)])
NonfoodSpend(R) == SumFunction([c \in Nonfood |-> ByCategory(R, c)])

-----------------------------------------------------------------------------
(* home(), overview(): what a page shows for a cycle *)

\* load_receipts(): what is confirmed from the first cycle of the trend on
\* up to the end of the cycle shown.
Loaded(m) ==
    {r \in confirmed :
        /\ ~Before(r.on, CycleStart(m - (TrendMonths - 1), startDay))
        /\ Before(r.on, CycleStart(m + 1, startDay))}

InMonth(R, m) == {r \in R : InCycle(r.on, m, startDay)}
Shown(m) == InMonth(Loaded(m), m)

\* month_series(): the receipts of each cycle of the trend.
Series(m) == [k \in 0 .. TrendMonths - 1 |-> InMonth(Loaded(m), m - k)]

\* project_month_end(): the days gone, and whether a pace is shown.
Elapsed(m) == DaysUntil(CycleStart(m, startDay), today) + 1
Projects(m) == InCycle(today, m, startDay) /\ Elapsed(m) >= MinDays

\* parse_month(): no page shows a cycle after the current one.
Pages == FirstDay.month - 1 .. CurrentAnchor(today, startDay)

-----------------------------------------------------------------------------
(* Properties *)

\* "The numbers always add up to the total" (aggregate.py:9-10): food and
\* the rest, the categories and what the lines do not explain, and the
\* stores each make up the total of a cycle, for a discount before any item
\* and for lines whose category is gone too.
BooksBalance ==
    \A m \in Pages :
        LET R == Shown(m)
        IN  /\ FoodSpend(R) + NonfoodSpend(R) = Total(R)
            /\ NotItemised(R) + SumFunction([c \in Slots |-> ByCategory(R, c)]) = Total(R)
            /\ SumFunction([s \in {r.store : r \in R} |-> ByStore(R, s)]) = Total(R)

\* Cycles cover the calendar: today lies in the cycle the pages call the
\* current one, whatever the start day is changed to; every receipt that is
\* due to a cycle of the trend has been loaded and is counted in that one
\* and in no other; and a projection is for days that the cycle has.
CyclesCover ==
    LET current == CurrentAnchor(today, startDay)
    IN  /\ InCycle(today, current, startDay)
        /\ Projects(current) => Elapsed(current) <= CycleLength(current, startDay)
        /\ \A m \in Pages, r \in confirmed :
               Cardinality({k \in DOMAIN Series(m) : r \in Series(m)[k]}) =
                   IF \E k \in 0 .. TrendMonths - 1 : InCycle(r.on, m - k, startDay)
                   THEN 1 ELSE 0
=============================================================================
