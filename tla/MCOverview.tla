----------------------------- MODULE MCOverview -----------------------------
(***************************************************************************)
(* Instances of Overview for TLC: from 27 January to 16 April of 2024, a   *)
(* leap year.                                                              *)
(***************************************************************************)
EXTENDS Overview

CONSTANTS food, care, gone, other, none, jumbo, aldi

January == 2024 * 12
MCFirstDay == Date(January, 27)
MCLastDay == Date(January + 3, 16)

Line(kind, cents, category) ==
    [kind |-> kind, cents |-> cents, category |-> category]

Receipt(on, store, total, lines) ==
    [on |-> on, store |-> store, total |-> total, lines |-> lines]

MCBook == {
    \* a discount before any item, then one of a category that is not food
    Receipt(Date(January, 27), jumbo, 9,
        <<Line("discount", -1, none), Line("item", 4, food),
          Line("item", 6, care), Line("discount", -2, none)>>),
    \* a category that is gone, a deposit, and one cent nobody explains
    Receipt(Date(January + 1, 14), aldi, 8,
        <<Line("item", 5, gone), Line("deposit", 2, none)>>),
    \* paid less than the lines say
    Receipt(Date(January + 1, 15), jumbo, 3, <<Line("item", 4, food)>>),
    \* no lines, on the leap day
    Receipt(Date(January + 1, 29), aldi, 2, <<>>),
    Receipt(Date(January + 2, 1), jumbo, 1, <<Line("item", 1, care)>>) }
=============================================================================
