------------------------------- MODULE Cycles -------------------------------
(***************************************************************************)
(* The spending cycle of analytics/aggregate.py: a calendar month, or      *)
(* payday to payday.  A date is its month, counted from year 0, and its    *)
(* day in that month; a cycle is labelled by the month it starts in.       *)
(***************************************************************************)
EXTENDS Integers

Less(a, b) == IF a < b THEN a ELSE b

Leap(y) == y % 4 = 0 /\ (y % 100 # 0 \/ y % 400 = 0)

\* days_in_month(); month 0 of a year is January.
DaysIn(m) ==
    CASE m % 12 = 1 -> IF Leap(m \div 12) THEN 29 ELSE 28
      [] m % 12 \in {3, 5, 8, 10} -> 30
      [] OTHER -> 31

Date(m, d) == [month |-> m, day |-> d]
IsDate(x) == x.month \in Nat /\ x.day \in 1 .. DaysIn(x.month)

Before(x, y) == x.month < y.month \/ (x.month = y.month /\ x.day < y.day)

Tomorrow(x) ==
    IF x.day < DaysIn(x.month) THEN Date(x.month, x.day + 1)
    ELSE Date(x.month + 1, 1)

\* cycle_start(): the start day, clamped to the days the month has.
CycleStart(m, startDay) == Date(m, Less(startDay, DaysIn(m)))

\* cycle_bounds(): the first day is in, the first of the next cycle is not.
InCycle(x, m, startDay) ==
    /\ ~Before(x, CycleStart(m, startDay))
    /\ Before(x, CycleStart(m + 1, startDay))

\* mutant: <= for <.
CurrentAnchorLate(today, startDay) ==
    IF today.day <= CycleStart(today.month, startDay).day
    THEN today.month - 1 ELSE today.month

\* current_cycle_anchor()
CurrentAnchor(today, startDay) ==
    IF today.day < CycleStart(today.month, startDay).day
    THEN today.month - 1 ELSE today.month

\* Days from x to y, for y in the month of x or in the next.
DaysUntil(x, y) ==
    IF x.month = y.month THEN y.day - x.day
    ELSE DaysIn(x.month) - x.day + y.day

CycleLength(m, startDay) ==
    DaysUntil(CycleStart(m, startDay), CycleStart(m + 1, startDay))
=============================================================================
