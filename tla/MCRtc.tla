------------------------------- MODULE MCRtc --------------------------------
(***************************************************************************)
(* Rtc from the last tick before midnight of a day that ends a month or a  *)
(* year, with a day of 24 ticks.  28 February 2000 is not the last.        *)
(***************************************************************************)
EXTENDS Rtc

Date(y, m, d) == [Year |-> y, Month |-> m, Date |-> d]
MCStarts == {Date(0, 2, 28), Date(1, 2, 28), Date(2, 1, 31), Date(27, 12, 31)}

\* The number of every day of the hundred years.
ASSUME CalendarAssumption == \A d \in Dates : CalendarDays(d) = DayNumber(d)
=============================================================================
