----------------------------- MODULE CallWindow -----------------------------
(***************************************************************************)
(* isCurrentTimeBetween: is the daily window of a task open?  Time is the  *)
(* time of day in ticks.  The ends of a window fall on whole minutes and   *)
(* the comparisons are strict, so a tick stands for an instant, and the    *)
(* ticks between two minutes for the time between them.                    *)
(***************************************************************************)
EXTENDS Integers

CONSTANTS
    Day,        \* ticks of a day
    Unparsed    \* an end without hours and minutes, as the default '9' of tasks

ASSUME DayLength == Day \in Nat \ {0}

TimesOfDay == 0..(Day - 1)

ASSUME UnparsedFresh == Unparsed \notin TimesOfDay

Ends == TimesOfDay \cup {Unparsed}

\* Mutant of IsCurrentTimeBetween: both comparisons are required over midnight.
IsCurrentTimeBetweenNever(now, start, stop) ==
    \/ Unparsed \in {start, stop}
    \/ start = 0 /\ stop = 0
    \/ now > start /\ now < stop

\* A window whose ends do not parse, or are both midnight, is always open.
IsCurrentTimeBetween(now, start, stop) ==
    \/ Unparsed \in {start, stop}
    \/ start = 0 /\ stop = 0
    \/ start > stop /\ (now > start \/ now < stop)
    \/ start <= stop /\ now > start /\ now < stop

-----------------------------------------------------------------------------
(* The reference: going round the clock from the start, now comes before   *)
(* the stop.                                                               *)

\* How long after the time a the clock shows b.
Until(a, b) == IF a <= b THEN b - a ELSE b - a + Day

OnArc(now, start, stop) ==
    0 < Until(start, now) /\ Until(start, now) < Until(start, stop)

====
