------------------------------ MODULE RtcProofs ------------------------------
(***************************************************************************)
(* The calendar of the RTC and what the firmware makes of it, for every    *)
(* resolution, at every date and whoever reads.                            *)
(*                                                                         *)
(*   CalendarIsRead     RtcGetCalendarValue() reads the instant at which   *)
(*                      it ends: the firmware's day count, for all dates   *)
(*                      of the hundred years, and the argument for reading *)
(*                      the registers one by one (a round that takes less  *)
(*                      than a second and ends at the subseconds it began  *)
(*                      with has seen no tick);                            *)
(*   RangesAreKept      the registers and the variables in their ranges;   *)
(*   AlarmIsSetRight    the alarm is its context plus the timeout, digit   *)
(*                      by digit with the carries;                         *)
(*   TimeOfDayIsKept    the error of the time of day, followed modulo the  *)
(*                      period of seconds in 32 bits.                      *)
(***************************************************************************)
EXTENDS Rtc, TLAPS

-----------------------------------------------------------------------------
(* The calendar.                                                           *)

LEMMA MonthsEnd ==
  ASSUME NEW year \in 0..99, NEW m \in 1..12
  PROVE  DaysInMonth(year)[m] \in 28..31
  BY DEF DaysInMonth

LEMMA DateFields ==
  ASSUME NEW d \in Dates
  PROVE  /\ d \in [Year : 0..99, Month : 1..12, Date : 1..31]
         /\ d.Date <= DaysInMonth(d.Year)[d.Month]
         /\ d.Year \in 0..99 /\ d.Month \in 1..12 /\ d.Date \in 1..31
  BY DEF Dates

LEMMA NextDateIn == ASSUME NEW d \in Dates PROVE NextDate(d) \in Dates
  <1>1. /\ d.Year \in 0..99 /\ d.Month \in 1..12 /\ d.Date \in 1..31
        /\ d \in [Year : 0..99, Month : 1..12, Date : 1..31]
    BY DateFields
  <1>2. CASE d.Date < DaysInMonth(d.Year)[d.Month]
    <2>1. DaysInMonth(d.Year)[d.Month] \in 28..31 BY <1>1, MonthsEnd
    <2>2. NextDate(d) = [d EXCEPT !.Date = @ + 1] BY <1>2 DEF NextDate
    <2>3. /\ NextDate(d) \in [Year : 0..99, Month : 1..12, Date : 1..31]
          /\ NextDate(d).Year = d.Year /\ NextDate(d).Month = d.Month
          /\ NextDate(d).Date = d.Date + 1
      BY <1>1, <1>2, <2>1, <2>2
    <2> QED BY <1>1, <1>2, <2>1, <2>3 DEF Dates
  <1>3. CASE ~(d.Date < DaysInMonth(d.Year)[d.Month]) /\ d.Month < 12
    <2>1. NextDate(d) = [d EXCEPT !.Month = @ + 1, !.Date = 1] BY <1>3 DEF NextDate
    <2> DEFINE m == d.Month + 1
    <2>2. m \in 1..12 BY <1>1, <1>3
    <2>3. DaysInMonth(d.Year)[m] \in 28..31
      <3> HIDE DEF m
      <3> QED BY <1>1, <2>2, MonthsEnd
    <2>4. NextDate(d) = [Year |-> d.Year, Month |-> m, Date |-> 1] BY <1>1, <2>1
    <2> HIDE DEF m
    <2> QED BY <1>1, <2>2, <2>3, <2>4 DEF Dates
  <1>4. CASE ~(d.Date < DaysInMonth(d.Year)[d.Month]) /\ ~(d.Month < 12)
    <2>1. NextDate(d) = [Year |-> (d.Year + 1) % 100, Month |-> 1, Date |-> 1]
      BY <1>4 DEF NextDate
    <2> DEFINE y == (d.Year + 1) % 100
    <2>2. y \in 0..99 BY <1>1
    <2>3. NextDate(d) = [Year |-> y, Month |-> 1, Date |-> 1] BY <2>1
    <2> HIDE DEF y
    <2>4. 1 \in 1..12 /\ 1 \in 1..31 OBVIOUS
    <2>5. DaysInMonth(y)[1] \in 28..31 BY <2>2, <2>4, MonthsEnd
    <2> QED BY <2>2, <2>3, <2>4, <2>5 DEF Dates
  <1> QED BY <1>2, <1>3, <1>4

LEMMA MonthByMonth ==
  ASSUME NEW year \in 0..99, NEW m \in 1..12, NEW day \in 1..31
  PROVE  LET d == [Year |-> year, Month |-> m, Date |-> day]
         IN  DIVC((m - 1) * 61, 2) - Correction(d)
               = DaysBefore[m] + (IF year % 4 = 0 /\ m > 2 THEN 1 ELSE 0)
  <1>1. CASE year % 4 = 0
    BY <1>1 DEF DIVC, Correction, Pow4, DaysBefore
  <1>2. CASE year % 4 # 0
    BY <1>2 DEF DIVC, Correction, Pow4, DaysBefore
  <1> QED BY <1>1, <1>2

LEMMA YearByYear ==
  ASSUME NEW year \in 0..99
  PROVE  DIVC(1461 * year, 4) = 365 * year + (year + 3) \div 4
  BY DEF DIVC

\* The firmware's day count (board-rtc.cpp:423), a division by 4 and a correction
\* packed into two bits per month, is the calendar's for every date.
THEOREM DaysAreRight == ASSUME NEW d \in Dates PROVE CalendarDays(d) = DayNumber(d)
  <1>1. /\ d.Year \in 0..99 /\ d.Month \in 1..12 /\ d.Date \in 1..31
        /\ d = [Year |-> d.Year, Month |-> d.Month, Date |-> d.Date]
    BY DateFields
  <1>2. DIVC((d.Month - 1) * 61, 2) - Correction(d)
          = DaysBefore[d.Month] + (IF d.Year % 4 = 0 /\ d.Month > 2 THEN 1 ELSE 0)
    BY <1>1, MonthByMonth
  <1>3. DIVC(1461 * d.Year, 4) = 365 * d.Year + (d.Year + 3) \div 4
    BY <1>1, YearByYear
  <1>4. DaysBefore[d.Month] \in Nat BY <1>1 DEF DaysBefore
  <1> QED BY <1>1, <1>2, <1>3, <1>4 DEF CalendarDays, DayNumber

LEMMA UnitsArePositive ==
  /\ Sub \in Nat \ {0} /\ SecPerMin \in Nat \ {0}
  /\ MinPerHour \in Nat \ {0} /\ HoursPerDay \in Nat \ {0}
  BY RtcAssumption DEF RtcAssumption

LEMMA ProductsArePositive ==
  ASSUME NEW a \in Nat \ {0}, NEW b \in Nat \ {0} PROVE a * b \in Nat \ {0}
  <1>1. a * b > 0 BY Z3
  <1> QED BY <1>1

LEMMA DivModNat ==
  ASSUME NEW a \in Nat, NEW b \in Nat \ {0} PROVE a \div b \in Nat /\ a % b \in Nat
  BY Z3

\* Ticks counted from the days, or within the day.
LEMMA Distribute ==
  ASSUME NEW s \in Int, NEW m \in Int, NEW h \in Int, NEW n \in Int,
         NEW days \in Int, NEW secs \in Int
  PROVE  s * (days * m * h * n + secs) = days * (s * m * h * n) + s * secs
  BY Z3

\* The time of day, as far as the argument needs it.
Clock == [Hours : Nat, Minutes : Nat, Seconds : Nat]

LEMMA TimeOfIsClock == ASSUME NEW t \in Nat PROVE TimeOf(t) \in Clock
  <1> DEFINE sm == Sub * SecPerMin
             smh == Sub * SecPerMin * MinPerHour
  <1>1. sm \in Nat \ {0} BY UnitsArePositive, ProductsArePositive
  <1>2. smh \in Nat \ {0} BY <1>1, UnitsArePositive, ProductsArePositive
  <1>3. t \div smh \in Nat BY <1>2, DivModNat
  <1>4. (t \div sm) % MinPerHour \in Nat BY <1>1, UnitsArePositive, DivModNat
  <1>5. (t \div Sub) % SecPerMin \in Nat BY UnitsArePositive, DivModNat
  <1> QED BY <1>3, <1>4, <1>5 DEF TimeOf, Clock

LEMMA SecondsAreNat ==
  ASSUME NEW t \in Clock
  PROVE  t.Seconds + SecPerMin * (t.Minutes + MinPerHour * t.Hours) \in Nat
  <1>1. t.Hours \in Nat /\ t.Minutes \in Nat /\ t.Seconds \in Nat BY DEF Clock
  <1>2. ASSUME NEW a \in Nat, NEW b \in Nat PROVE a * b \in Nat BY Z3
  <1>3. MinPerHour * t.Hours \in Nat BY <1>1, <1>2, UnitsArePositive
  <1>4. t.Minutes + MinPerHour * t.Hours \in Nat BY <1>1, <1>3
  <1>5. SecPerMin * (t.Minutes + MinPerHour * t.Hours) \in Nat
    BY <1>2, <1>4, UnitsArePositive
  <1> QED BY <1>1, <1>5

LEMMA TicksAreNat ==
  ASSUME NEW t \in Clock, NEW ssr \in 0..(Sub - 1) PROVE TicksOfDay(t, ssr) \in Nat
  <1> DEFINE secs == t.Seconds + SecPerMin * (t.Minutes + MinPerHour * t.Hours)
  <1>1. secs \in Nat BY SecondsAreNat
  <1>2. ASSUME NEW a \in Nat, NEW b \in Nat PROVE a * b \in Nat BY Z3
  <1>3. Sub * secs \in Nat BY <1>1, <1>2, UnitsArePositive
  <1>4. Sub - 1 - ssr \in Nat BY UnitsArePositive
  <1> HIDE DEF secs
  <1>5. TicksOfDay(t, ssr) = Sub * secs + (Sub - 1 - ssr) BY DEF TicksOfDay, secs
  <1> QED BY <1>3, <1>4, <1>5

\* A reading of the registers as they are is the instant.
LEMMA ReadingIsInstant ==
  ASSUME DR \in Dates, TR \in Clock, SSR \in 0..(Sub - 1),
         NEW r, r.date = DR, r.time = TR, r.sub = SSR
  PROVE  CalendarValue(r) = Instant
  <1> DEFINE secs == TR.Seconds + SecPerMin * (TR.Minutes + MinPerHour * TR.Hours)
             days == DayNumber(DR)
             rest == Sub - 1 - SSR
  <1>1. secs \in Int BY SecondsAreNat
  <1>2. days \in Int
    <2>1. DR.Year \in 0..99 /\ DR.Month \in 1..12 /\ DR.Date \in 1..31 BY DateFields
    <2>2. DaysBefore[DR.Month] \in Int BY <2>1 DEF DaysBefore
    <2>3. (DR.Year + 3) \div 4 \in Int BY <2>1
    <2> DEFINE leap == IF DR.Year % 4 = 0 /\ DR.Month > 2 THEN 1 ELSE 0
    <2>4. leap \in Int OBVIOUS
    <2>5. 365 * DR.Year \in Int /\ DR.Date \in Int BY <2>1
    <2> HIDE DEF leap
    <2>6. days = 365 * DR.Year + (DR.Year + 3) \div 4 + DaysBefore[DR.Month] + leap
                 + DR.Date - 1
      BY DEF DayNumber, leap
    <2> QED BY <2>2, <2>3, <2>4, <2>5, <2>6
  <1>3. CalendarDays(r.date) = days BY DaysAreRight
  <1>4. CalendarValue(r) = Sub * (days * SecPerMin * MinPerHour * HoursPerDay + secs) + rest
    <2>1. days * SecPerMin * MinPerHour * HoursPerDay \in Int
      BY <1>2, UnitsArePositive
    <2>2. /\ TR.Hours \in Nat /\ TR.Minutes \in Nat /\ TR.Seconds \in Nat BY DEF Clock
    <2>3. SecPerMin * (TR.Minutes + MinPerHour * TR.Hours) \in Int
      BY <2>2, UnitsArePositive
    <2> DEFINE a == days * SecPerMin * MinPerHour * HoursPerDay
               b == SecPerMin * (TR.Minutes + MinPerHour * TR.Hours)
    <2> HIDE DEF days, rest
    <2>4. CalendarValue(r) = Sub * (a + TR.Seconds + b) + rest
      BY <1>3 DEF CalendarValue, rest
    <2>5. secs = TR.Seconds + b OBVIOUS
    <2>6. a \in Int /\ b \in Int BY <2>1, <2>3
    <2> HIDE DEF a, b, secs
    <2>7. a + TR.Seconds + b = a + secs BY <2>2, <2>5, <2>6
    <2> QED BY <2>4, <2>7 DEF a
  <1>5. Instant = days * (Sub * SecPerMin * MinPerHour * HoursPerDay) + (Sub * secs + rest)
    BY DEF Instant, DayTicks, TicksOfDay
  <1> HIDE DEF secs, days
  <1>6. Sub * (days * SecPerMin * MinPerHour * HoursPerDay + secs)
          = days * (Sub * SecPerMin * MinPerHour * HoursPerDay) + Sub * secs
    BY <1>1, <1>2, UnitsArePositive, Distribute
  <1>7. rest \in Int BY UnitsArePositive
  <1> DEFINE u == days * (Sub * SecPerMin * MinPerHour * HoursPerDay)
             v == Sub * secs
  <1>8. u \in Int /\ v \in Int BY <1>1, <1>2, UnitsArePositive
  <1> HIDE DEF u, v, rest
  <1>9. CalendarValue(r) = (u + v) + rest BY <1>4, <1>6 DEF u, v
  <1>10. Instant = u + (v + rest) BY <1>5 DEF u, v
  <1> QED BY <1>7, <1>8, <1>9, <1>10

-----------------------------------------------------------------------------
(* A round of reading.                                                     *)

RdType == [first : 0..(Sub - 1),
           reading : [date : Dates, time : Clock, sub : 0..(Sub - 1)]]

RegistersInv == DR \in Dates /\ TR \in Clock /\ SSR \in 0..(Sub - 1)

ProgramInv == /\ pc \in [Procs -> Reading \cup {"read"} \cup MainPCs]
              /\ rd \in [Procs -> RdType]
              /\ round \in [Procs -> Int]
              /\ pc["main"] = "RtcInit" => pc["irq"] = "idle"

InRound(p) == pc[p] \in Reading \ {"ssr"}

\* The subseconds tell how many ticks the round has lasted, up to a second; a
\* round without a tick has read the registers as they still are.
RoundOf(p) ==
  InRound(p) =>
    /\ round[p] \in 0..(Sub - 1)
    /\ SSR \in {rd[p].first - round[p], rd[p].first - round[p] + Sub}
    /\ round[p] = 0 =>
         /\ pc[p] \in {"get_ssr", "tr", "again"} => rd[p].reading.date = DR
         /\ pc[p] \in {"tr", "again"} => rd[p].reading.sub = SSR
         /\ pc[p] = "again" => rd[p].reading.time = TR

RoundInv == \A p \in Procs : RoundOf(p)

ReadInv == RegistersInv /\ ProgramInv /\ RoundInv

LEMMA UnreadIn == Unread \in RdType
  <1>1. [Year |-> 0, Month |-> 1, Date |-> 1] \in Dates BY DEF Dates, DaysInMonth
  <1>2. 0 \in 0..(Sub - 1) BY UnitsArePositive
  <1> QED BY <1>1, <1>2 DEF Unread, Epoch, RdType, Clock

LEMMA TickKeeps == ASSUME ReadInv, Tick PROVE ReadInv'
  <1>1. RegistersInv'
    <2> DEFINE t == TicksOfDay(TR, SSR) + 1
    <2>1. t \in Nat BY TicksAreNat DEF ReadInv, RegistersInv
    <2>2. DayTicks \in Nat \ {0} BY UnitsArePositive, ProductsArePositive DEF DayTicks
    <2>3. t % DayTicks \in Nat BY <2>1, <2>2, DivModNat
    <2>4. TR' \in Clock BY <2>3, TimeOfIsClock DEF Tick
    <2>5. DR' \in Dates BY NextDateIn DEF Tick, ReadInv, RegistersInv
    <2>6. SSR' \in 0..(Sub - 1)
      BY UnitsArePositive DEF Tick, ReadInv, RegistersInv
    <2> QED BY <2>4, <2>5, <2>6 DEF RegistersInv
  <1>2. UNCHANGED <<pc, rd>> BY DEF Tick, program
  <1>3. round' \in [Procs -> Int] BY DEF Tick, ReadInv, ProgramInv
  <1>4. ProgramInv' BY <1>2, <1>3 DEF ReadInv, ProgramInv
  <1>5. ASSUME NEW p \in Procs, InRound(p)' PROVE RoundOf(p)'
    <2>1. InRound(p) BY <1>2, <1>5 DEF InRound
    <2>2. round'[p] = round[p] + 1 /\ round[p] < Sub - 1
      BY <2>1 DEF Tick, InRound
    <2>3. /\ round[p] \in 0..(Sub - 1)
          /\ SSR \in {rd[p].first - round[p], rd[p].first - round[p] + Sub}
      BY <2>1 DEF ReadInv, RoundInv, RoundOf
    <2>4. round'[p] \in 1..(Sub - 1) BY <2>2, <2>3, UnitsArePositive
    <2>5. SSR' = IF SSR = 0 THEN Sub - 1 ELSE SSR - 1 BY DEF Tick
    <2>6. rd'[p].first = rd[p].first /\ rd[p].first \in 0..(Sub - 1)
      BY <1>2 DEF ReadInv, ProgramInv, RdType
    <2>7. SSR' \in {rd'[p].first - round'[p], rd'[p].first - round'[p] + Sub}
      BY <2>2, <2>3, <2>5, <2>6, UnitsArePositive DEF ReadInv, RegistersInv
    <2>8. round'[p] # 0 /\ round'[p] \in 0..(Sub - 1) BY <2>4
    <2> QED BY <2>7, <2>8 DEF RoundOf
  <1>6. RoundInv' BY <1>5 DEF RoundInv, RoundOf
  <1> QED BY <1>1, <1>4, <1>6 DEF ReadInv

\* What the steps of a reading have in common.
LEMMA ReadingProgram ==
  ASSUME ReadInv, NEW p \in Procs, NEW from \in Reading,
         NEW to \in Reading \cup {"read"}, Step(p, from, to),
         rd' \in [Procs -> RdType], round' \in [Procs -> Int]
  PROVE  /\ RegistersInv' /\ ProgramInv' /\ UNCHANGED <<DR, TR, SSR>>
         /\ pc[p] = from /\ pc'[p] = to
         /\ \A q \in Procs \ {p} : pc'[q] = pc[q]
  <1>1. /\ UNCHANGED <<DR, TR, SSR>> /\ pc[p] = from /\ pc' = [pc EXCEPT ![p] = to]
    BY DEF Step, Goto, calendar
  <1>2. pc' \in [Procs -> Reading \cup {"read"} \cup MainPCs]
    BY <1>1 DEF ReadInv, ProgramInv
  <1>3. /\ pc'[p] = to /\ \A q \in Procs \ {p} : pc'[q] = pc[q]
    BY <1>1 DEF ReadInv, ProgramInv
  <1>4. pc'["main"] = "RtcInit" => pc'["irq"] = "idle"
    BY <1>1, <1>3 DEF ReadInv, ProgramInv, Reading, Procs
  <1> QED BY <1>1, <1>2, <1>3, <1>4 DEF ReadInv, RegistersInv, ProgramInv

LEMMA ReadFirstKeeps == ASSUME ReadInv, NEW p \in Procs, ReadFirst(p) PROVE ReadInv'
  <1>1. /\ Step(p, "ssr", "dr") /\ rd' = [rd EXCEPT ![p].first = SSR]
        /\ round' = [round EXCEPT ![p] = 0]
    BY DEF ReadFirst
  <1>2. /\ rd' \in [Procs -> RdType] /\ rd'[p].first = SSR
        /\ \A q \in Procs \ {p} : rd'[q] = rd[q]
    BY <1>1 DEF ReadInv, ProgramInv, RegistersInv, RdType
  <1>3. /\ round' \in [Procs -> Int] /\ round'[p] = 0
        /\ \A q \in Procs \ {p} : round'[q] = round[q]
    BY <1>1 DEF ReadInv, ProgramInv
  <1>4. /\ RegistersInv' /\ ProgramInv' /\ UNCHANGED <<DR, TR, SSR>>
        /\ pc'[p] = "dr" /\ \A q \in Procs \ {p} : pc'[q] = pc[q]
    BY <1>1, <1>2, <1>3, ReadingProgram DEF Reading
  <1>5. RoundOf(p)'
    BY <1>2, <1>3, <1>4, UnitsArePositive DEF RoundOf, ReadInv, RegistersInv
  <1>6. \A q \in Procs \ {p} : RoundOf(q)'
    BY <1>2, <1>3, <1>4 DEF ReadInv, RoundInv, RoundOf, InRound
  <1> QED BY <1>4, <1>5, <1>6 DEF ReadInv, RoundInv

LEMMA ReadNextKeeps ==
  ASSUME ReadInv, NEW p \in Procs, ReadDate(p) \/ ReadSub(p) \/ ReadTime(p)
  PROVE  ReadInv'
  <1>1. CASE ReadDate(p)
    <2>1. /\ Step(p, "dr", "get_ssr") /\ rd' = [rd EXCEPT ![p].reading.date = DR]
          /\ round' = round
      BY <1>1 DEF ReadDate
    <2>2. /\ rd' \in [Procs -> RdType] /\ rd'[p].reading.date = DR
          /\ rd'[p].first = rd[p].first
          /\ \A q \in Procs \ {p} : rd'[q] = rd[q]
      BY <2>1 DEF ReadInv, ProgramInv, RegistersInv, RdType
    <2>3. /\ RegistersInv' /\ ProgramInv' /\ UNCHANGED <<DR, TR, SSR>> /\ pc[p] = "dr"
          /\ pc'[p] = "get_ssr" /\ \A q \in Procs \ {p} : pc'[q] = pc[q]
      BY <2>1, <2>2, ReadingProgram DEF Reading, ReadInv, ProgramInv
    <2>4. RoundOf(p)'
      BY <2>1, <2>2, <2>3 DEF RoundOf, ReadInv, RoundInv, InRound, Reading
    <2>5. \A q \in Procs \ {p} : RoundOf(q)'
      BY <2>1, <2>2, <2>3 DEF ReadInv, RoundInv, RoundOf, InRound
    <2> QED BY <2>3, <2>4, <2>5 DEF ReadInv, RoundInv
  <1>2. CASE ReadSub(p)
    <2>1. /\ Step(p, "get_ssr", "tr") /\ rd' = [rd EXCEPT ![p].reading.sub = SSR]
          /\ round' = round
      BY <1>2 DEF ReadSub
    <2>2. /\ rd' \in [Procs -> RdType] /\ rd'[p].reading.sub = SSR
          /\ rd'[p].first = rd[p].first /\ rd'[p].reading.date = rd[p].reading.date
          /\ \A q \in Procs \ {p} : rd'[q] = rd[q]
      BY <2>1 DEF ReadInv, ProgramInv, RegistersInv, RdType
    <2>3. /\ RegistersInv' /\ ProgramInv' /\ UNCHANGED <<DR, TR, SSR>>
          /\ pc[p] = "get_ssr"
          /\ pc'[p] = "tr" /\ \A q \in Procs \ {p} : pc'[q] = pc[q]
      BY <2>1, <2>2, ReadingProgram DEF Reading, ReadInv, ProgramInv
    <2>4. RoundOf(p)'
      BY <2>1, <2>2, <2>3 DEF RoundOf, ReadInv, RoundInv, InRound, Reading
    <2>5. \A q \in Procs \ {p} : RoundOf(q)'
      BY <2>1, <2>2, <2>3 DEF ReadInv, RoundInv, RoundOf, InRound
    <2> QED BY <2>3, <2>4, <2>5 DEF ReadInv, RoundInv
  <1>3. CASE ReadTime(p)
    <2>1. /\ Step(p, "tr", "again") /\ rd' = [rd EXCEPT ![p].reading.time = TR]
          /\ round' = round
      BY <1>3 DEF ReadTime
    <2>2. /\ rd' \in [Procs -> RdType] /\ rd'[p].reading.time = TR
          /\ rd'[p].first = rd[p].first /\ rd'[p].reading.date = rd[p].reading.date
          /\ rd'[p].reading.sub = rd[p].reading.sub
          /\ \A q \in Procs \ {p} : rd'[q] = rd[q]
      BY <2>1 DEF ReadInv, ProgramInv, RegistersInv, RdType
    <2>3. /\ RegistersInv' /\ ProgramInv' /\ UNCHANGED <<DR, TR, SSR>> /\ pc[p] = "tr"
          /\ pc'[p] = "again" /\ \A q \in Procs \ {p} : pc'[q] = pc[q]
      BY <2>1, <2>2, ReadingProgram DEF Reading, ReadInv, ProgramInv
    <2>4. RoundOf(p)'
      BY <2>1, <2>2, <2>3 DEF RoundOf, ReadInv, RoundInv, InRound, Reading
    <2>5. \A q \in Procs \ {p} : RoundOf(q)'
      BY <2>1, <2>2, <2>3 DEF ReadInv, RoundInv, RoundOf, InRound
    <2> QED BY <2>3, <2>4, <2>5 DEF ReadInv, RoundInv
  <1> QED BY <1>1, <1>2, <1>3

LEMMA ReadAgainKeeps == ASSUME ReadInv, NEW p \in Procs, ReadAgain(p) PROVE ReadInv'
  <1> DEFINE to == IF Same(p) THEN "read" ELSE "ssr"
  <1>1. /\ Step(p, "again", to) /\ rd' = rd /\ round' = [round EXCEPT ![p] = 0]
    BY DEF ReadAgain
  <1>2. /\ round' \in [Procs -> Int] /\ \A q \in Procs \ {p} : round'[q] = round[q]
    BY <1>1 DEF ReadInv, ProgramInv
  <1>3. to \in {"read", "ssr"} OBVIOUS
  <1> HIDE DEF to
  <1>4. /\ RegistersInv' /\ ProgramInv' /\ UNCHANGED <<DR, TR, SSR>>
        /\ pc'[p] = to /\ \A q \in Procs \ {p} : pc'[q] = pc[q]
    BY <1>1, <1>2, <1>3, ReadingProgram DEF Reading, ReadInv, ProgramInv
  <1>5. RoundOf(p)' BY <1>3, <1>4 DEF RoundOf, InRound, Reading
  <1>6. \A q \in Procs \ {p} : RoundOf(q)'
    BY <1>1, <1>2, <1>4 DEF ReadInv, RoundInv, RoundOf, InRound
  <1> QED BY <1>4, <1>5, <1>6 DEF ReadInv, RoundInv

\* Every other step of the program's leaves the readings under way alone.
LEMMA OtherKeeps ==
  ASSUME ReadInv, NEW p \in Procs, NEW from, NEW to, Goto(p, from, to),
         to \in {"ssr", "idle"} \cup (MainPCs \ {"RtcInit"}),
         p = "irq" => to = "idle" \/ pc["main"] # "RtcInit",
         rd' = rd \/ rd' = [rd EXCEPT ![p] = Unread], round' = round
  PROVE  ReadInv'
  <1>1. UNCHANGED <<DR, TR, SSR>> /\ pc' = [pc EXCEPT ![p] = to]
    BY DEF Goto, calendar
  <1>2. /\ pc' \in [Procs -> Reading \cup {"read"} \cup MainPCs] /\ pc'[p] = to
        /\ \A q \in Procs \ {p} : pc'[q] = pc[q]
    BY <1>1 DEF ReadInv, ProgramInv, Reading, MainPCs
  <1>3. /\ rd' \in [Procs -> RdType] /\ \A q \in Procs \ {p} : rd'[q] = rd[q]
    BY UnreadIn DEF ReadInv, ProgramInv
  <1>4. pc'["main"] = "RtcInit" => pc'["irq"] = "idle"
    BY <1>2 DEF ReadInv, ProgramInv, MainPCs, Procs
  <1>5. RegistersInv' /\ ProgramInv'
    BY <1>1, <1>2, <1>3, <1>4 DEF ReadInv, RegistersInv, ProgramInv
  <1>6. RoundOf(p)' BY <1>2 DEF RoundOf, InRound, Reading, MainPCs
  <1>7. \A q \in Procs \ {p} : RoundOf(q)'
    BY <1>1, <1>2, <1>3 DEF ReadInv, RoundInv, RoundOf, InRound
  <1> QED BY <1>5, <1>6, <1>7 DEF ReadInv, RoundInv

LEMMA MainKeeps == ASSUME ReadInv, Main PROVE ReadInv'
  <1>1. CASE RtcInit
    <2>1. /\ pc["main"] = "RtcInit" /\ pc' = [pc EXCEPT !["main"] = "deactivate"]
          /\ SSR' \in {SSR, Sub - 1} /\ UNCHANGED <<DR, TR, rd, round>>
      BY <1>1 DEF RtcInit
    <2>2. /\ pc' \in [Procs -> Reading \cup {"read"} \cup MainPCs]
          /\ pc'["main"] = "deactivate" /\ pc'["irq"] = "idle"
      BY <2>1 DEF ReadInv, ProgramInv, Procs, MainPCs
    <2>3. RegistersInv'
      BY <2>1, UnitsArePositive DEF ReadInv, RegistersInv
    <2>4. ProgramInv' BY <2>1, <2>2 DEF ReadInv, ProgramInv
    <2>5. RoundInv' BY <2>2 DEF RoundInv, RoundOf, InRound, Procs, Reading
    <2> QED BY <2>3, <2>4, <2>5 DEF ReadInv
  <1>2. CASE RtcInitAlarm \/ Copied \/ RtcStopAlarm \/ SetAlarm
    BY <1>2, OtherKeeps
    DEF RtcInitAlarm, Copied, RtcStopAlarm, SetAlarm, Step, Procs, MainPCs
  <1>3. CASE GetUTCTime \/ (\E ms \in Utcs : SetUTCTime(ms))
    BY <1>3, OtherKeeps DEF GetUTCTime, SetUTCTime, Call, Procs, MainPCs
  <1>4. CASE \E t \in Timeouts : CopyContext(t)
    BY <1>4, OtherKeeps DEF CopyContext, Call, Procs, MainPCs
  <1>5. CASE SysTimeGet \/ RtcBkupWrite0 \/ RtcBkupWrite1
    BY <1>5, OtherKeeps
    DEF SysTimeGet, RtcBkupWrite0, RtcBkupWrite1, Step, Procs, MainPCs
  <1> QED BY <1>1, <1>2, <1>3, <1>4, <1>5 DEF Main

LEMMA IrqKeeps ==
  ASSUME ReadInv,
         RTC_Alarm_IRQHandler \/ \E p \in Procs : RtcSetTimerContext(p)
  PROVE  ReadInv'
  <1>1. CASE RTC_Alarm_IRQHandler
    BY <1>1, OtherKeeps DEF RTC_Alarm_IRQHandler, Step, Procs
  <1>2. CASE \E p \in Procs : RtcSetTimerContext(p)
    BY <1>2, OtherKeeps DEF RtcSetTimerContext, Step
  <1> QED BY <1>1, <1>2

LEMMA ResetKeeps == ASSUME ReadInv, Reset PROVE ReadInv'
  <1>1. /\ pc' = [main |-> "RtcInit", irq |-> "idle"]
        /\ rd' = [p \in Procs |-> Unread] /\ round' = [p \in Procs |-> 0]
        /\ UNCHANGED <<DR, TR, SSR>>
    BY DEF Reset, calendar
  <1>2. /\ pc' \in [Procs -> Reading \cup {"read"} \cup MainPCs]
        /\ pc'["main"] = "RtcInit" /\ pc'["irq"] = "idle"
    BY <1>1 DEF Procs, MainPCs
  <1>3. ProgramInv' BY <1>1, <1>2, UnreadIn DEF ProgramInv
  <1>4. RoundInv' BY <1>2 DEF RoundInv, RoundOf, InRound, Procs, Reading
  <1> QED BY <1>1, <1>3, <1>4 DEF ReadInv, RegistersInv

LEMMA InitHolds == Init => ReadInv
  <1> SUFFICES ASSUME Init PROVE ReadInv OBVIOUS
  <1>1. DR \in Dates BY RtcAssumption DEF Init, RtcAssumption
  <1>2. DayTicks - 1 \in Nat
    BY UnitsArePositive, ProductsArePositive DEF DayTicks
  <1>3. TR \in Clock BY <1>2, TimeOfIsClock DEF Init
  <1>4. SSR \in 0..(Sub - 1) BY UnitsArePositive DEF Init
  <1>5. ProgramInv BY UnreadIn DEF Init, ProgramInv, MainPCs, Procs
  <1>6. RoundInv BY DEF Init, RoundInv, RoundOf, InRound, Reading
  <1> QED BY <1>1, <1>3, <1>4, <1>5, <1>6 DEF ReadInv, RegistersInv

LEMMA NextKeeps == ASSUME ReadInv, [Next]_vars PROVE ReadInv'
  <1>1. CASE Tick BY <1>1, TickKeeps
  <1>2. CASE Reset BY <1>2, ResetKeeps
  <1>3. CASE Main BY <1>3, MainKeeps
  <1>4. CASE RTC_Alarm_IRQHandler \/ \E p \in Procs : RtcSetTimerContext(p)
    BY <1>4, IrqKeeps
  <1>5. CASE \E p \in Procs : Read(p)
    BY <1>5, ReadFirstKeeps, ReadNextKeeps, ReadAgainKeeps DEF Read
  <1>6. CASE UNCHANGED vars
    BY <1>6 DEF vars, calendar, program, ReadInv, RegistersInv, ProgramInv, RoundInv,
                RoundOf, InRound
  <1> QED BY <1>1, <1>2, <1>3, <1>4, <1>5, <1>6 DEF Next

-----------------------------------------------------------------------------
\* Only the last look at the subseconds ends a reading.
LEMMA EndsWithAgain ==
  ASSUME ReadInv, Next, NEW p \in Procs, pc[p] = "again", pc'[p] = "read"
  PROVE  ReadAgain(p)
  <1>0. pc \in [Procs -> Reading \cup {"read"} \cup MainPCs] BY DEF ReadInv, ProgramInv
  <1>1. ~Tick BY DEF Tick, program
  <1>2. ~Reset BY DEF Reset, Procs
  <1>3. ASSUME NEW q \in Procs, NEW from, NEW to, Goto(q, from, to), to # "read"
        PROVE  FALSE
    BY <1>0, <1>3 DEF Goto
  <1>4. ~Main
    <2>1. ~RtcInit BY <1>0 DEF RtcInit
    <2>2. ~(RtcInitAlarm \/ Copied \/ RtcStopAlarm \/ SetAlarm)
      BY <1>3 DEF RtcInitAlarm, Copied, RtcStopAlarm, SetAlarm, Step, Procs
    <2>3. ~(GetUTCTime \/ (\E ms \in Utcs : SetUTCTime(ms))
              \/ (\E t \in Timeouts : CopyContext(t)))
      BY <1>3 DEF GetUTCTime, SetUTCTime, CopyContext, Call, Procs
    <2>4. ~(SysTimeGet \/ RtcBkupWrite0 \/ RtcBkupWrite1)
      BY <1>3 DEF SysTimeGet, RtcBkupWrite0, RtcBkupWrite1, Step, Procs
    <2> QED BY <2>1, <2>2, <2>3, <2>4 DEF Main
  <1>5. ~RTC_Alarm_IRQHandler BY <1>3 DEF RTC_Alarm_IRQHandler, Step, Procs
  <1>6. PICK q \in Procs : Read(q) \/ RtcSetTimerContext(q)
    BY <1>1, <1>2, <1>4, <1>5 DEF Next
  <1>7. ReadAgain(q)
    BY <1>3, <1>6 DEF Read, ReadFirst, ReadDate, ReadSub, ReadTime, RtcSetTimerContext,
                      Step
  <1>8. q = p BY <1>0, <1>7 DEF ReadAgain, Step, Goto
  <1> QED BY <1>7, <1>8

LEMMA EndIsInstant ==
  ASSUME ReadInv, NEW p \in Procs, ReadAgain(p), pc'[p] = "read"
  PROVE  CalendarValue(rd[p].reading) = Instant
  <1>1. pc[p] = "again" /\ pc \in [Procs -> Reading \cup {"read"} \cup MainPCs]
    BY DEF ReadAgain, Step, Goto, ReadInv, ProgramInv
  <1>2. rd[p].first = SSR
    BY <1>1 DEF ReadAgain, Step, Goto, Same
  <1>3. InRound(p) BY <1>1 DEF InRound, Reading
  <1>4. rd[p].first \in 0..(Sub - 1) /\ SSR \in 0..(Sub - 1)
    BY DEF ReadInv, ProgramInv, RegistersInv, RdType
  <1>5. round[p] = 0
    BY <1>2, <1>3, <1>4, UnitsArePositive DEF ReadInv, RoundInv, RoundOf
  <1>6. /\ rd[p].reading.date = DR /\ rd[p].reading.sub = SSR
        /\ rd[p].reading.time = TR
    BY <1>1, <1>3, <1>5 DEF ReadInv, RoundInv, RoundOf
  <1> QED BY <1>6, ReadingIsInstant DEF ReadInv, RegistersInv

\* RtcGetCalendarValue(), in the main loop or in the alarm's interrupt that
\* came in the middle of it, returns the instant of its last look at the
\* subseconds: the registers read one after the other are never of two
\* instants, and the days are counted right for every date.
THEOREM CalendarIsRead == Spec => ReadIsNow
  <1>1. ASSUME ReadInv, Next
        PROVE  \A p \in Procs : pc[p] = "again" /\ pc'[p] = "read" =>
                 CalendarValue(rd[p].reading) = Instant
    BY <1>1, EndsWithAgain, EndIsInstant
  <1>2. ReadInv /\ [Next]_vars =>
          [\A p \in Procs : pc[p] = "again" /\ pc'[p] = "read" =>
             CalendarValue(rd[p].reading) = Instant]_vars
    BY <1>1
  <1> QED BY <1>2, InitHolds, NextKeeps, PTL DEF Spec, ReadIsNow

-----------------------------------------------------------------------------
(* Quotients and remainders.                                               *)

LEMMA Division ==
  ASSUME NEW a \in Int, NEW n \in Nat \ {0}
  PROVE  /\ a \div n \in Int /\ a % n \in 0..(n - 1)
         /\ a = n * (a \div n) + (a % n)
  BY Z3

LEMMA DivisionUnique ==
  ASSUME NEW a \in Int, NEW n \in Nat \ {0}, NEW q \in Int, NEW r \in 0..(n - 1),
         a = n * q + r
  PROVE  a \div n = q /\ a % n = r
  BY Z3

LEMMA Products == ASSUME NEW a \in Int, NEW b \in Int PROVE a * b \in Int /\ a * b = b * a
  BY Z3

LEMMA Associate ==
  ASSUME NEW a \in Int, NEW b \in Int, NEW c \in Int PROVE a * b * c = a * (b * c)
  BY Z3

\* Twice divided, and the remainders of a product.
LEMMA DivDiv ==
  ASSUME NEW a \in Int, NEW m \in Nat \ {0}, NEW n \in Nat \ {0}
  PROVE  /\ a \div (m * n) = (a \div m) \div n
         /\ a % (m * n) = m * ((a \div m) % n) + (a % m)
  <1> DEFINE q == (a \div m) \div n
             r == (a \div m) % n
             s == a % m
  <1>1. /\ a \div m \in Int /\ s \in 0..(m - 1) /\ a = m * (a \div m) + s
    BY Division
  <1>2. /\ q \in Int /\ r \in 0..(n - 1) /\ a \div m = n * q + r
    BY <1>1, Division
  <1> DEFINE b == a \div m
  <1> HIDE DEF q, r, s, b
  <1>3. a = m * b + s /\ b = n * q + r BY <1>1, <1>2 DEF b
  <1>4. b \in Int BY <1>1 DEF b
  <1>5. a = (m * n) * q + (m * r + s) BY <1>1, <1>2, <1>3, Z3
  <1>6. m * r + s \in 0..(m * n - 1)
    <2>1. m * r <= m * (n - 1) /\ m * r >= 0 BY <1>2, Z3
    <2>2. m * (n - 1) = m * n - m BY Z3
    <2>3. m * r \in Int /\ m * n \in Int BY <1>2, Z3
    <2> QED BY <1>1, <2>1, <2>2, <2>3
  <1>7. m * n \in Nat \ {0} BY ProductsArePositive
  <1> DEFINE p == m * n
             t == m * r + s
  <1>8. a = p * q + t /\ t \in 0..(p - 1) /\ p \in Nat \ {0} BY <1>5, <1>6, <1>7
  <1> HIDE DEF p, t
  <1>9. a \div p = q /\ a % p = t BY <1>2, <1>8, DivisionUnique
  <1> QED BY <1>9 DEF p, q, r, s, t

LEMMA ModDiv ==
  ASSUME NEW a \in Int, NEW m \in Nat \ {0}, NEW n \in Nat \ {0}
  PROVE  /\ (a % (m * n)) \div m = (a \div m) % n
         /\ (a % (m * n)) % m = a % m
  <1>1. a % (m * n) = m * ((a \div m) % n) + (a % m) BY DivDiv
  <1>2. a \div m \in Int /\ a % m \in 0..(m - 1) BY Division
  <1>3. (a \div m) % n \in Int BY <1>2, Division
  <1>4. m * n \in Nat \ {0} BY ProductsArePositive
  <1>5. a % (m * n) \in Int BY <1>4, Division
  <1> DEFINE b == a % (m * n)
             q == (a \div m) % n
             r == a % m
  <1>6. b = m * q + r /\ b \in Int /\ q \in Int /\ r \in 0..(m - 1)
    BY <1>1, <1>2, <1>3, <1>5
  <1> HIDE DEF b, q, r
  <1>7. b \div m = q /\ b % m = r BY <1>6, DivisionUnique
  <1> QED BY <1>7 DEF b, q, r

\* The digit of a sum and the carry from it: x + n * high is the one number, y
\* the other, and c is carried from below.
Added(n, x, high, y, c, a, s) == a = x + n * high + y + c /\ s = x + (y % n) + c

Carried(n, high, y, a, s) == a % n = s % n /\ a \div n = high + y \div n + s \div n

LEMMA CarryOver ==
  ASSUME NEW n \in Nat \ {0}, NEW x \in Int, NEW high \in Int, NEW y \in Int, NEW c \in Int,
         NEW a, NEW s, Added(n, x, high, y, c, a, s)
  PROVE  Carried(n, high, y, a, s)
  <1> DEFINE yd == y \div n
             ym == y % n
             q == s \div n
             r == s % n
  <1>1. yd \in Int /\ ym \in 0..(n - 1) /\ y = n * yd + ym BY Division
  <1>2. s \in Int BY <1>1 DEF Added
  <1>3. q \in Int /\ r \in 0..(n - 1) /\ s = n * q + r BY <1>2, Division
  <1>4. s = x + ym + c BY DEF Added
  <1>5. a = x + n * high + y + c BY DEF Added
  <1> HIDE DEF yd, ym, q, r
  <1>6. a = n * (high + yd + q) + r
    <2>1. n * (high + yd + q) = n * high + n * yd + n * q BY <1>1, <1>3, Z3
    <2>2. n * high \in Int /\ n * yd \in Int /\ n * q \in Int BY <1>1, <1>3, Products
    <2> QED BY <1>1, <1>2, <1>3, <1>4, <1>5, <2>1, <2>2
  <1>7. a \in Int BY <1>5, Products
  <1>8. high + yd + q \in Int BY <1>1, <1>3
  <1>9. a \div n = high + yd + q /\ a % n = r BY <1>3, <1>6, <1>7, <1>8, DivisionUnique
  <1> QED BY <1>9 DEF yd, q, r, Carried

\* Several of the modulus more.
LEMMA ModPlus ==
  ASSUME NEW n \in Nat \ {0}, NEW a \in Int, NEW k \in Int
  PROVE  (a + k * n) % n = a % n
  <1>1. a \div n \in Int /\ a % n \in 0..(n - 1) /\ a = n * (a \div n) + (a % n) BY Division
  <1> DEFINE q == a \div n
             r == a % n
             b == a + k * n
  <1>2. q \in Int /\ r \in 0..(n - 1) /\ a = n * q + r /\ b = a + k * n /\ b \in Int
    BY <1>1, Products
  <1> HIDE DEF q, r, b
  <1>3. n * (q + k) = n * q + k * n /\ n * q \in Int /\ k * n \in Int BY <1>2, Z3
  <1>4. b = n * (q + k) + r BY <1>2, <1>3
  <1>5. b % n = r BY <1>2, <1>4, DivisionUnique
  <1> QED BY <1>5 DEF b, r

-----------------------------------------------------------------------------
(* The calendar counts one tick at a time.                                 *)

SecDay == SecPerMin * MinPerHour * HoursPerDay

LEMMA DayIs ==
  /\ SecPerMin * MinPerHour \in Nat \ {0} /\ SecDay \in Nat \ {0}
  /\ MinPerHour * HoursPerDay \in Nat \ {0}
  /\ Sub * SecPerMin \in Nat \ {0} /\ Sub * SecPerMin * MinPerHour \in Nat \ {0}
  /\ DayTicks \in Nat \ {0}
  /\ Sub * SecPerMin * MinPerHour = Sub * (SecPerMin * MinPerHour)
  /\ DayTicks = Sub * SecDay
  /\ SecDay = SecPerMin * (MinPerHour * HoursPerDay)
  <1>1. /\ SecPerMin * MinPerHour \in Nat \ {0} /\ MinPerHour * HoursPerDay \in Nat \ {0}
        /\ Sub * SecPerMin \in Nat \ {0}
    BY UnitsArePositive, ProductsArePositive
  <1>2. SecDay \in Nat \ {0} /\ Sub * SecPerMin * MinPerHour \in Nat \ {0}
    BY <1>1, UnitsArePositive, ProductsArePositive DEF SecDay
  <1>3. DayTicks \in Nat \ {0} BY <1>2, UnitsArePositive, ProductsArePositive DEF DayTicks
  <1>4. Sub * SecPerMin * MinPerHour = Sub * (SecPerMin * MinPerHour)
    BY UnitsArePositive, Associate
  <1>5. SecDay = SecPerMin * (MinPerHour * HoursPerDay)
    BY UnitsArePositive, Associate DEF SecDay
  <1> DEFINE sm == SecPerMin * MinPerHour
  <1>6. sm \in Int BY <1>1
  <1>7. Sub * SecPerMin * MinPerHour = Sub * sm /\ SecDay = sm * HoursPerDay
    BY <1>4 DEF SecDay
  <1> HIDE DEF sm
  <1>8. DayTicks = Sub * SecDay
    BY <1>6, <1>7, UnitsArePositive, Associate DEF DayTicks
  <1> QED BY <1>1, <1>2, <1>3, <1>4, <1>5, <1>8

LEMMA TimesAreClock ==
  ASSUME NEW t \in Times
  PROVE  /\ t \in Clock
         /\ t.Hours \in 0..(HoursPerDay - 1) /\ t.Minutes \in 0..(MinPerHour - 1)
         /\ t.Seconds \in 0..(SecPerMin - 1)
  BY UnitsArePositive DEF Times, Clock

\* The fields of a number of ticks, by dividing it again and again.
LEMMA FieldsOf ==
  ASSUME NEW t \in Nat
  PROVE  LET s == t \div Sub
             m == s \div SecPerMin
             h == m \div MinPerHour
         IN  /\ s \in Nat /\ m \in Nat /\ h \in Nat
             /\ t \div (Sub * SecPerMin) = m /\ t \div (Sub * SecPerMin * MinPerHour) = h
             /\ TimeOf(t) = [Hours |-> h, Minutes |-> m % MinPerHour,
                             Seconds |-> s % SecPerMin]
  <1> DEFINE s == t \div Sub
             m == s \div SecPerMin
             h == m \div MinPerHour
  <1>1. s \in Nat BY UnitsArePositive, DivModNat
  <1>2. m \in Nat BY <1>1, UnitsArePositive, DivModNat
  <1>3. h \in Nat BY <1>2, UnitsArePositive, DivModNat
  <1>4. \A x \in Int, a, b \in Nat \ {0} : x \div (a * b) = (x \div a) \div b BY DivDiv
  <1>5. t \div (Sub * SecPerMin) = m
    <2>1. t \in Int OBVIOUS
    <2> QED BY <1>4, <2>1, UnitsArePositive, Zenon
  <1> DEFINE sm == Sub * SecPerMin
  <1>6. sm \in Nat \ {0} /\ t \in Int BY DayIs
  <1>7. t \div (sm * MinPerHour) = (t \div sm) \div MinPerHour
    <2> HIDE DEF sm
    <2> QED BY <1>4, <1>6, UnitsArePositive
  <1>8. t \div (Sub * SecPerMin * MinPerHour) = h BY <1>5, <1>7
  <1> QED BY <1>1, <1>2, <1>3, <1>5, <1>8 DEF TimeOf

LEMMA TimeOfIn ==
  ASSUME NEW t \in Nat, t < DayTicks PROVE TimeOf(t) \in Times
  <1> DEFINE s == t \div Sub
             m == s \div SecPerMin
             h == m \div MinPerHour
  <1>1. /\ s \in Nat /\ m \in Nat /\ h \in Nat
        /\ t \div (Sub * SecPerMin * MinPerHour) = h
        /\ TimeOf(t) = [Hours |-> h, Minutes |-> m % MinPerHour, Seconds |-> s % SecPerMin]
    BY FieldsOf
  <1> HIDE DEF s, m, h
  <1>2. m % MinPerHour \in 0..(MinPerHour - 1) /\ s % SecPerMin \in 0..(SecPerMin - 1)
    BY <1>1, UnitsArePositive, Division
  <1> DEFINE n == Sub * SecPerMin * MinPerHour
             r == t % n
  <1>3. n \in Nat \ {0} /\ DayTicks = n * HoursPerDay BY DayIs DEF DayTicks
  <1>4. t = n * h + r /\ r \in 0..(n - 1)
    <2>1. t \div n = h BY <1>1
    <2>2. t \in Int OBVIOUS
    <2> HIDE DEF n
    <2>3. t = n * (t \div n) + (t % n) /\ t % n \in 0..(n - 1) BY <1>3, <2>2, Division
    <2> QED BY <2>1, <2>3, Zenon
  <1> HIDE DEF n, r
  <1>5. ~(h >= HoursPerDay)
    <2> SUFFICES ASSUME h >= HoursPerDay PROVE FALSE OBVIOUS
    <2>1. n * h >= n * HoursPerDay BY <1>1, <1>3, UnitsArePositive, Z3
    <2>2. n * h \in Int /\ n * HoursPerDay \in Int BY <1>1, <1>3, UnitsArePositive, Products
    <2> QED BY <1>3, <1>4, <2>1, <2>2
  <1>6. h \in 0..(HoursPerDay - 1) BY <1>1, <1>5, UnitsArePositive
  <1> QED BY <1>1, <1>2, <1>6 DEF Times

\* A number of ticks, split into the registers and read again.
LEMMA TicksOfTimeOf ==
  ASSUME NEW t \in Nat PROVE TicksOfDay(TimeOf(t), (Sub - 1) - (t % Sub)) = t
  <1> DEFINE s == t \div Sub
             m == s \div SecPerMin
             h == m \div MinPerHour
             r == t % Sub
             sr == s % SecPerMin
             mr == m % MinPerHour
             c == TimeOf(t)
  <1>1. /\ s \in Nat /\ m \in Nat /\ h \in Nat
        /\ c = [Hours |-> h, Minutes |-> mr, Seconds |-> sr]
    BY FieldsOf
  <1>2. t = Sub * s + r /\ r \in 0..(Sub - 1) BY UnitsArePositive, Division
  <1>3. s = SecPerMin * m + sr /\ sr \in 0..(SecPerMin - 1)
    BY <1>1, UnitsArePositive, Division
  <1>4. m = MinPerHour * h + mr /\ mr \in 0..(MinPerHour - 1)
    BY <1>1, UnitsArePositive, Division
  <1> HIDE DEF s, m, h, r, sr, mr, c
  <1>5. c.Hours = h /\ c.Minutes = mr /\ c.Seconds = sr BY <1>1
  <1>6. MinPerHour * h \in Int /\ SecPerMin * m \in Int /\ Sub * s \in Int
    BY <1>1, UnitsArePositive, Products
  <1>7. mr + MinPerHour * h = m BY <1>4, <1>6
  <1>8. sr + SecPerMin * m = s BY <1>3, <1>6
  <1>9. TicksOfDay(c, (Sub - 1) - r) = Sub * s + (Sub - 1 - ((Sub - 1) - r))
    BY <1>5, <1>7, <1>8 DEF TicksOfDay
  <1>10. Sub - 1 - ((Sub - 1) - r) = r BY <1>2, UnitsArePositive
  <1> QED BY <1>2, <1>9, <1>10 DEF c, r

\* The ticks of a day, and of a time of the day.
LEMMA TimeInDay ==
  ASSUME NEW t \in Times, NEW ssr \in 0..(Sub - 1)
  PROVE  TicksOfDay(t, ssr) \in Nat /\ TicksOfDay(t, ssr) < DayTicks
  <1> DEFINE s == t.Seconds
             m == t.Minutes
             h == t.Hours
             M == m + MinPerHour * h
             T == s + SecPerMin * M
             mh == MinPerHour * HoursPerDay
  <1>1. /\ t \in Clock /\ h \in 0..(HoursPerDay - 1) /\ m \in 0..(MinPerHour - 1)
        /\ s \in 0..(SecPerMin - 1)
    BY TimesAreClock
  <1>2. TicksOfDay(t, ssr) \in Nat BY <1>1, TicksAreNat
  <1>3. TicksOfDay(t, ssr) = Sub * T + (Sub - 1 - ssr) BY DEF TicksOfDay
  <1>4. /\ mh \in Nat \ {0} /\ SecDay \in Nat \ {0} /\ DayTicks = Sub * SecDay
        /\ SecDay = SecPerMin * mh
    BY DayIs
  <1>5. ASSUME NEW u \in Nat \ {0}, NEW n \in Nat \ {0}, NEW lo \in 0..(u - 1),
               NEW hi \in 0..(n - 1)
        PROVE  lo + u * hi \in 0..(u * n - 1)
    <2>1. u * hi <= u * (n - 1) /\ u * hi >= 0 BY Z3
    <2>2. u * (n - 1) = u * n - u BY Z3
    <2>3. u * hi \in Int /\ u * n \in Int BY Products
    <2> QED BY <2>1, <2>2, <2>3
  <1> HIDE DEF s, m, h
  <1>6. M \in 0..(mh - 1) BY <1>1, <1>5, UnitsArePositive
  <1> HIDE DEF M, mh
  <1>7. T \in 0..(SecDay - 1) BY <1>1, <1>4, <1>5, <1>6, UnitsArePositive
  <1> HIDE DEF T
  <1> DEFINE r == Sub - 1 - ssr
  <1>8. r \in 0..(Sub - 1) BY UnitsArePositive
  <1>9. r + Sub * T \in 0..(DayTicks - 1)
    <2> HIDE DEF r
    <2>1. r + Sub * T \in 0..(Sub * SecDay - 1) BY <1>4, <1>5, <1>7, <1>8, UnitsArePositive
    <2> QED BY <1>4, <2>1
  <1>10. Sub * T \in Int BY <1>7, UnitsArePositive, Products
  <1>11. Sub * T + r < DayTicks
    <2> DEFINE p == Sub * T
    <2>1. p \in Int /\ r \in Int /\ DayTicks \in Int BY <1>8, <1>10, DayIs
    <2> HIDE DEF p, r
    <2>2. r + p \in 0..(DayTicks - 1) BY <1>9 DEF p
    <2>3. p + r < DayTicks BY <2>1, <2>2
    <2> QED BY <2>3 DEF p
  <1> QED BY <1>2, <1>3, <1>11

-----------------------------------------------------------------------------
(* The calendar counts one day at a time, and the months it goes through.  *)

\* The number of a month's first day.
MonthNumber(year, m) == 365 * year + (year + 3) \div 4 + DaysBefore[m]
                        + (IF year % 4 = 0 /\ m > 2 THEN 1 ELSE 0)

LEMMA MonthNumberRange ==
  ASSUME NEW year \in 0..99, NEW m \in 1..12
  PROVE  /\ MonthNumber(year, m) \in Nat
         /\ MonthNumber(year, m) + DaysInMonth(year)[m] <= CenturyDays
  <1>1. CASE year % 4 = 0 BY <1>1 DEF MonthNumber, DaysBefore, DaysInMonth, CenturyDays
  <1>2. CASE year % 4 # 0 BY <1>2 DEF MonthNumber, DaysBefore, DaysInMonth, CenturyDays
  <1> QED BY <1>1, <1>2

LEMMA NextMonth ==
  ASSUME NEW year \in 0..99, NEW m \in 1..11
  PROVE  MonthNumber(year, m + 1) = MonthNumber(year, m) + DaysInMonth(year)[m]
  <1>1. CASE year % 4 = 0 BY <1>1 DEF MonthNumber, DaysBefore, DaysInMonth
  <1>2. CASE year % 4 # 0 BY <1>2 DEF MonthNumber, DaysBefore, DaysInMonth
  <1> QED BY <1>1, <1>2

LEMMA NextYear ==
  ASSUME NEW year \in 0..99
  PROVE  /\ (year + 1) % 100 \in 0..99
         /\ MonthNumber((year + 1) % 100, 1) = (MonthNumber(year, 12) + 31) % CenturyDays
  <1>1. CASE year = 99 BY <1>1 DEF MonthNumber, DaysBefore, CenturyDays
  <1>2. CASE year < 99
    <2>1. (year + 1) % 100 = year + 1 BY <1>2
    <2>2. MonthNumber(year + 1, 1) = MonthNumber(year, 12) + 31
      <3>1. CASE year % 4 = 0 BY <1>2, <3>1 DEF MonthNumber, DaysBefore
      <3>2. CASE year % 4 # 0 BY <1>2, <3>2 DEF MonthNumber, DaysBefore
      <3> QED BY <3>1, <3>2
    <2>3. /\ year + 1 \in 0..99 /\ 1 \in 1..12 /\ DaysInMonth(year + 1)[1] = 31
      BY <1>2 DEF DaysInMonth
    <2>4. /\ MonthNumber(year + 1, 1) \in Nat
          /\ MonthNumber(year + 1, 1) + 31 <= CenturyDays
      BY <2>3, MonthNumberRange
    <2>5. (MonthNumber(year, 12) + 31) % CenturyDays = MonthNumber(year, 12) + 31
      <3> DEFINE x == MonthNumber(year + 1, 1)
      <3>1. x \in Nat /\ x + 31 <= CenturyDays /\ MonthNumber(year, 12) + 31 = x
        BY <2>2, <2>4
      <3> HIDE DEF x
      <3> QED BY <3>1 DEF CenturyDays
    <2> QED BY <2>1, <2>2, <2>3, <2>5
  <1> QED BY <1>1, <1>2

LEMMA CenturyIsPositive == CenturyDays \in Nat \ {0} BY DEF CenturyDays

LEMMA DayOfMonth ==
  ASSUME NEW d \in Dates
  PROVE  DayNumber(d) = MonthNumber(d.Year, d.Month) + d.Date - 1
  BY DEF DayNumber, MonthNumber

LEMMA DayNumberRange ==
  ASSUME NEW d \in Dates PROVE DayNumber(d) \in 0..(CenturyDays - 1)
  <1> DEFINE y == d.Year
             m == d.Month
             x == MonthNumber(y, m)
             n == DaysInMonth(y)[m]
  <1>1. /\ y \in 0..99 /\ m \in 1..12 /\ d.Date \in 1..31 /\ d.Date <= n
    BY DateFields
  <1>2. DayNumber(d) = x + d.Date - 1 BY DayOfMonth
  <1> HIDE DEF y, m
  <1>3. x \in Nat /\ x + n <= CenturyDays /\ n \in 28..31
    BY <1>1, MonthNumberRange, MonthsEnd
  <1>4. ASSUME NEW a \in Nat, NEW b \in 1..31, NEW c \in 28..31, NEW e,
               NEW l \in Nat, e = a + b - 1, b <= c, a + c <= l
        PROVE  e \in 0..(l - 1)
    BY <1>4
  <1> HIDE DEF x, n
  <1> QED BY <1>1, <1>2, <1>3, <1>4, CenturyIsPositive, Zenon

\* Up to 27 days after a date is the same month or the next one.
LEMMA DaysLater ==
  ASSUME NEW d \in Dates, NEW k \in 0..27
  PROVE  LET n    == DaysInMonth(d.Year)[d.Month]
             date == IF d.Date + k > n THEN d.Date + k - n ELSE d.Date + k
             near == {d.Year, (d.Year + 1) % 100}
         IN  \E e \in [Year : near, Month : 1..12, Date : 1..31] :
               /\ e \in Dates /\ e.Date = date
               /\ DayNumber(e) = (DayNumber(d) + k) % CenturyDays
  <1> DEFINE y == d.Year
             m == d.Month
             n == DaysInMonth(y)[m]
             x == MonthNumber(y, m)
             D == d.Date
             near == {y, (y + 1) % 100}
             Later(date) == \E e \in [Year : near, Month : 1..12, Date : 1..31] :
                              /\ e \in Dates /\ e.Date = date
                              /\ DayNumber(e) = (DayNumber(d) + k) % CenturyDays
  <1>1. /\ y \in 0..99 /\ m \in 1..12 /\ D \in 1..31 /\ D <= n
    BY DateFields
  <1>2. DayNumber(d) = x + D - 1 BY DayOfMonth
  <1>3. x \in Nat /\ x + n <= CenturyDays /\ n \in 28..31
    <2> HIDE DEF y, m
    <2> QED BY <1>1, MonthNumberRange, MonthsEnd
  <1>4. (y + 1) % 100 \in 0..99 BY <1>1
  <1>5. ASSUME NEW yy \in near, NEW mm \in 1..12, NEW dd \in 1..31,
               dd <= DaysInMonth(yy)[mm],
               MonthNumber(yy, mm) + dd - 1 = (x + D - 1 + k) % CenturyDays
        PROVE  Later(dd)
    <2> DEFINE e == [Year |-> yy, Month |-> mm, Date |-> dd]
    <2>1. e \in [Year : near, Month : 1..12, Date : 1..31] /\ e.Date = dd OBVIOUS
    <2>2. yy \in 0..99 BY <1>1, <1>4
    <2>3. e \in Dates BY <1>5, <2>2 DEF Dates
    <2>4. DayNumber(e) = MonthNumber(yy, mm) + dd - 1 BY <2>3, DayOfMonth
    <2>5. DayNumber(e) = (DayNumber(d) + k) % CenturyDays BY <1>2, <1>5, <2>4
    <2> HIDE DEF e, near
    <2> QED BY <2>1, <2>3, <2>5
  <1> HIDE DEF Later
  <1>6. CASE D + k <= n
    <2>1. D + k \in 1..31 /\ y \in near BY <1>1, <1>3, <1>6
    <2>2. MonthNumber(y, m) + (D + k) - 1 = (x + D - 1 + k) % CenturyDays
      <3> HIDE DEF y, m, n, D, x
      <3>1. x + (D + k) - 1 = (x + D - 1 + k) % CenturyDays
        BY <1>1, <1>3, <1>6 DEF CenturyDays
      <3> QED BY <3>1 DEF x
    <2> HIDE DEF y, m, D, x, near
    <2>3. Later(D + k) BY <1>1, <1>5, <1>6, <2>1, <2>2 DEF n
    <2>4. ~(D + k > n) BY <1>1, <1>3, <1>6
    <2> QED BY <2>3, <2>4 DEF Later, y, m, D, near, n
  <1>7. CASE D + k > n
    <2> DEFINE c == D + k - n
    <2>1. c \in 1..28
      <3> HIDE DEF D, n
      <3> QED BY <1>1, <1>3, <1>7
    <2>2. CASE m < 12
      <3>1. MonthNumber(y, m + 1) = x + n
        <4>1. m \in 1..11 BY <1>1, <2>2
        <4> HIDE DEF y, m
        <4> QED BY <1>1, <4>1, NextMonth
      <3>2. m + 1 \in 1..12 /\ y \in near BY <1>1, <2>2
      <3>3. DaysInMonth(y)[m + 1] \in 28..31
        <4> DEFINE mm == m + 1
        <4> HIDE DEF y, m, mm
        <4> QED BY <1>1, <3>2, MonthsEnd DEF mm
      <3>5. x + n + c - 1 = (x + D - 1 + k) % CenturyDays
        <4>1. x + n + 28 <= CenturyDays
          <5> DEFINE mm == m + 1
                     z == MonthNumber(y, mm)
                     w == DaysInMonth(y)[mm]
          <5> HIDE DEF y, m, mm
          <5>1. z \in Nat /\ z + w <= CenturyDays BY <1>1, <3>2, MonthNumberRange DEF mm
          <5>2. z = x + n /\ w \in 28..31 BY <3>1, <3>3 DEF mm
          <5> HIDE DEF z, w, x, n
          <5> QED BY <1>3, <5>1, <5>2 DEF CenturyDays
        <4> HIDE DEF D, n, x
        <4> QED BY <1>1, <1>3, <2>1, <4>1 DEF CenturyDays
      <3>6. c \in 1..31 /\ c <= DaysInMonth(y)[m + 1] BY <2>1, <3>3
      <3> DEFINE mm == m + 1
      <3>7. MonthNumber(y, mm) + c - 1 = (x + D - 1 + k) % CenturyDays BY <3>1, <3>5
      <3>8. mm \in 1..12 /\ c <= DaysInMonth(y)[mm] BY <3>2, <3>6
      <3> HIDE DEF y, m, D, x, near, c, mm
      <3>9. Later(c) BY <1>5, <3>2, <3>6, <3>7, <3>8
      <3> QED BY <1>7, <3>9 DEF Later, c, y, m, D, near, n
    <2>3. CASE ~(m < 12)
      <3> DEFINE yy == (y + 1) % 100
      <3>1. m = 12 BY <1>1, <2>3
      <3>2. n = 31 BY <3>1 DEF DaysInMonth
      <3>3. yy \in 0..99 /\ MonthNumber(yy, 1) = (x + 31) % CenturyDays
        <4> HIDE DEF y
        <4> QED BY <1>1, <3>1, NextYear
      <3>4. DaysInMonth(yy)[1] = 31 BY DEF DaysInMonth
      <3>5. MonthNumber(yy, 1) + c - 1 = (x + D - 1 + k) % CenturyDays
        <4> DEFINE z == MonthNumber(yy, 1)
        <4>1. z + 31 <= CenturyDays /\ z \in Nat
          <5>1. 1 \in 1..12 OBVIOUS
          <5> HIDE DEF yy
          <5> QED BY <3>3, <3>4, <5>1, MonthNumberRange
        <4>2. z = (x + 31) % CenturyDays BY <3>3
        <4> HIDE DEF z, x, D, n, y
        <4>3. x + 31 <= CenturyDays BY <1>3, <3>2
        <4>4. z + c - 1 = (x + D - 1 + k) % CenturyDays
          BY <1>1, <1>3, <2>1, <3>2, <4>1, <4>2, <4>3 DEF CenturyDays
        <4> QED BY <4>4 DEF z
      <3>6. 1 \in 1..12 /\ yy \in near /\ c \in 1..31 /\ c <= DaysInMonth(yy)[1]
        BY <2>1, <3>4
      <3> HIDE DEF y, m, D, x, near, c, yy
      <3>7. Later(c) BY <1>5, <3>5, <3>6
      <3> QED BY <1>7, <3>7 DEF Later, c, y, m, D, near, n
    <2> QED BY <2>2, <2>3
  <1>8. D + k <= n \/ D + k > n BY <1>1, <1>3
  <1> QED BY <1>6, <1>7, <1>8 DEF Later

LEMMA DayAfterDay ==
  ASSUME NEW d \in Dates
  PROVE  DayNumber(NextDate(d)) = (DayNumber(d) + 1) % CenturyDays
  <1> DEFINE y == d.Year
             m == d.Month
             n == DaysInMonth(y)[m]
             x == MonthNumber(y, m)
             D == d.Date
             e == NextDate(d)
  <1>1. /\ y \in 0..99 /\ m \in 1..12 /\ D \in 1..31 /\ D <= n
        /\ d \in [Year : 0..99, Month : 1..12, Date : 1..31]
    BY DateFields
  <1>2. DayNumber(d) = x + D - 1 BY DayOfMonth
  <1>3. x \in Nat /\ x + n <= CenturyDays /\ n \in 28..31
    <2> HIDE DEF y, m
    <2> QED BY <1>1, MonthNumberRange, MonthsEnd
  <1>4. DayNumber(e) = MonthNumber(e.Year, e.Month) + e.Date - 1
    BY NextDateIn, DayOfMonth
  <1>5. CASE D < n
    <2>1. e.Year = y /\ e.Month = m /\ e.Date = D + 1 BY <1>1, <1>5 DEF NextDate
    <2>2. DayNumber(e) = x + (D + 1) - 1 BY <1>4, <2>1
    <2>3. ASSUME NEW a \in Nat, NEW b \in 1..31, NEW c \in 28..31, NEW u, NEW v,
                 NEW l \in Nat, u = a + (b + 1) - 1, v = a + b - 1, b < c, a + c <= l
          PROVE  u = (v + 1) % l
      BY <2>3
    <2> HIDE DEF x, D, n, e, y, m
    <2>4. DayNumber(e) = (DayNumber(d) + 1) % CenturyDays
      BY <1>1, <1>2, <1>3, <1>5, <2>2, <2>3, CenturyIsPositive, Zenon
    <2> QED BY <2>4 DEF e
  <1>6. CASE ~(D < n) /\ m < 12
    <2>1. e.Year = y /\ e.Month = m + 1 /\ e.Date = 1 BY <1>1, <1>6 DEF NextDate
    <2>2. MonthNumber(y, m + 1) = x + n
      <3>1. m \in 1..11 BY <1>1, <1>6
      <3> HIDE DEF y, m
      <3> QED BY <1>1, <3>1, NextMonth
    <2>3. DayNumber(e) = x + n + 1 - 1 BY <1>4, <2>1, <2>2
    <2>4. DayNumber(e) \in 0..(CenturyDays - 1) BY NextDateIn, DayNumberRange
    <2>5. ASSUME NEW a \in Nat, NEW b \in 1..31, NEW c \in 28..31, NEW u, NEW v,
                 NEW l \in Nat,
                 u = a + c + 1 - 1, v = a + b - 1, b <= c, ~(b < c), u \in 0..(l - 1)
          PROVE  u = (v + 1) % l
      BY <2>5
    <2> HIDE DEF x, D, n, e, y, m
    <2>6. DayNumber(e) = (DayNumber(d) + 1) % CenturyDays
      BY <1>1, <1>2, <1>3, <1>6, <2>3, <2>4, <2>5, CenturyIsPositive, Zenon
    <2> QED BY <2>6 DEF e
  <1>7. CASE ~(D < n) /\ ~(m < 12)
    <2>1. e.Year = (y + 1) % 100 /\ e.Month = 1 /\ e.Date = 1 BY <1>1, <1>7 DEF NextDate
    <2>2. m = 12 BY <1>1, <1>7
    <2>3. n = 31 BY <2>2 DEF DaysInMonth
    <2>4. MonthNumber((y + 1) % 100, 1) = (x + 31) % CenturyDays
      <3> HIDE DEF y
      <3> QED BY <1>1, <2>2, NextYear
    <2> DEFINE z == (x + 31) % CenturyDays
    <2>5. DayNumber(e) = z + 1 - 1 BY <1>4, <2>1, <2>4
    <2>6. D = 31
      <3> HIDE DEF D, n
      <3> QED BY <1>1, <1>7, <2>3
    <2> HIDE DEF x, D, n, e, y, m
    <2>7. DayNumber(d) + 1 = x + 31 BY <1>2, <1>3, <2>6
    <2>8. z \in Int BY <1>3 DEF CenturyDays
    <2>9. DayNumber(e) = z BY <2>5, <2>8
    <2> QED BY <2>7, <2>9 DEF e
  <1> QED BY <1>5, <1>6, <1>7

-----------------------------------------------------------------------------
(* The alarm, over the ends of the minute, the hour, the day and the month. *)

LEMMA TimeOfDayOf ==
  ASSUME NEW sum \in Nat
  PROVE  LET u == sum \div Sub
             v == u \div SecPerMin
             w == v \div MinPerHour
         IN  /\ TimeOf(sum % DayTicks) = [Hours   |-> w % HoursPerDay,
                                          Minutes |-> v % MinPerHour,
                                          Seconds |-> u % SecPerMin]
             /\ sum \div DayTicks = w \div HoursPerDay
             /\ sum % DayTicks \in Nat /\ sum % DayTicks < DayTicks
             /\ (sum % DayTicks) % Sub = sum % Sub
  <1> DEFINE u == sum \div Sub
             v == u \div SecPerMin
             w == v \div MinPerHour
             t == sum % DayTicks
             mh == MinPerHour * HoursPerDay
             smh == Sub * SecPerMin * MinPerHour
  <1>1. u \in Nat /\ v \in Nat /\ w \in Nat /\ sum \div smh = w BY FieldsOf
  <1>2. /\ mh \in Nat \ {0} /\ SecDay \in Nat \ {0} /\ DayTicks \in Nat \ {0}
        /\ DayTicks = Sub * SecDay /\ SecDay = SecPerMin * mh
        /\ smh \in Nat \ {0} /\ DayTicks = smh * HoursPerDay
    BY DayIs DEF DayTicks
  <1>20. mh \in Nat \ {0} /\ smh \in Nat \ {0} /\ SecDay \in Nat \ {0} BY <1>2
  <1>3. \A x \in Int, a, b \in Nat \ {0} :
          (x % (a * b)) \div a = (x \div a) % b /\ (x % (a * b)) % a = x % a
    BY ModDiv
  <1>4. \A x \in Int, a, b \in Nat \ {0} : x \div (a * b) = (x \div a) \div b BY DivDiv
  <1>5. /\ sum \in Int /\ u \in Int /\ v \in Int /\ w \in Int
        /\ Sub \in Nat \ {0} /\ SecPerMin \in Nat \ {0}
        /\ MinPerHour \in Nat \ {0} /\ HoursPerDay \in Nat \ {0}
    BY <1>1, UnitsArePositive
  <1>6. t \in 0..(DayTicks - 1) BY <1>2, <1>5, Division, Zenon
  <1>7. t \in Nat /\ t < DayTicks BY <1>2, <1>6
  <1> DEFINE st == t \div Sub
             mt == st \div SecPerMin
             ht == mt \div MinPerHour
  <1>8. TimeOf(t) = [Hours |-> ht, Minutes |-> mt % MinPerHour, Seconds |-> st % SecPerMin]
    <2> HIDE DEF t
    <2> QED BY <1>7, FieldsOf
  <1> HIDE DEF mh, smh
  <1>9. st = u % SecDay /\ t % Sub = sum % Sub
    <2>1. /\ (sum % (Sub * SecDay)) \div Sub = (sum \div Sub) % SecDay
          /\ (sum % (Sub * SecDay)) % Sub = sum % Sub
      BY <1>20, <1>3, <1>5, Zenon
    <2> QED BY <1>2, <2>1, Zenon
  <1> HIDE DEF st, u
  <1>10. mt = v % mh /\ st % SecPerMin = u % SecPerMin
    <2>1. /\ (u % (SecPerMin * mh)) \div SecPerMin = (u \div SecPerMin) % mh
          /\ (u % (SecPerMin * mh)) % SecPerMin = u % SecPerMin
      BY <1>20, <1>3, <1>5, Zenon
    <2> QED BY <1>2, <1>9, <2>1, Zenon
  <1> HIDE DEF mt, v
  <1>11. ht = w % HoursPerDay /\ mt % MinPerHour = v % MinPerHour
    <2>1. mt = v % (MinPerHour * HoursPerDay) BY <1>10 DEF mh
    <2> QED BY <1>3, <1>5, <2>1, Zenon
  <1> HIDE DEF ht
  <1>12. sum \div DayTicks = w \div HoursPerDay
    <2>1. sum \div (smh * HoursPerDay) = (sum \div smh) \div HoursPerDay
      BY <1>20, <1>4, <1>5, Zenon
    <2> QED BY <1>1, <1>2, <2>1, Zenon
  <1> QED BY <1>7, <1>8, <1>9, <1>10, <1>11, <1>12, Zenon DEF u, v, t

LEMMA AlarmAdds ==
  ASSUME NEW r, r.date \in RTC_DateTypeDef, r.time \in Times, r.sub \in 0..(Sub - 1),
         NEW timeout \in Nat
  PROVE  LET sum == TicksOfDay(r.time, r.sub) + timeout
         IN  /\ sum \in Nat
             /\ AlarmFor(r, timeout) =
                  [Date |-> AlarmDate(r.date, r.date.Date + (sum \div DayTicks)),
                   time |-> TimeOf(sum % DayTicks), sub |-> (Sub - 1) - (sum % Sub)]
  <1> DEFINE x == Sub - 1 - r.sub
             sec == r.time.Seconds
             min == r.time.Minutes
             hour == r.time.Hours
             mins == min + MinPerHour * hour
             T == sec + SecPerMin * mins
             secs == timeout \div Sub
             ss == x + (timeout % Sub)
             s == sec + (secs % SecPerMin) + ss \div Sub
             mi == min + ((secs \div SecPerMin) % MinPerHour) + s \div SecPerMin
             hours == (secs \div SecPerMin) \div MinPerHour
             h == hour + (hours % HoursPerDay) + mi \div MinPerHour
             sum == TicksOfDay(r.time, r.sub) + timeout
             u == sum \div Sub
             v == u \div SecPerMin
             w == v \div MinPerHour
  <1>1. sec \in Nat /\ min \in Nat /\ hour \in Nat /\ x \in Nat
    BY TimesAreClock, UnitsArePositive DEF Clock
  <1>2. T \in Nat /\ mins \in Nat
    <2>1. r.time \in Clock BY TimesAreClock
    <2>2. T \in Nat BY <2>1, SecondsAreNat
    <2>3. mins \in Nat
      <3>1. MinPerHour * hour \in Nat
        <4> HIDE DEF hour
        <4> QED BY <1>1, UnitsArePositive, Z3
      <3> QED BY <1>1, <3>1
    <2> QED BY <2>2, <2>3
  <1>3. /\ sum = Sub * T + x + timeout /\ sum \in Nat
    <2>1. TicksOfDay(r.time, r.sub) = Sub * T + x BY DEF TicksOfDay
    <2>2. Sub * T \in Nat
      <3> HIDE DEF T
      <3> QED BY <1>2, UnitsArePositive, Z3
    <2> HIDE DEF T, x
    <2> QED BY <1>1, <2>1, <2>2
  <1>4. /\ \A n \in Nat \ {0}, a \in Int : a \div n \in Int /\ a % n \in Int BY Division
  <1>5. /\ Sub \in Nat \ {0} /\ SecPerMin \in Nat \ {0}
        /\ MinPerHour \in Nat \ {0} /\ HoursPerDay \in Nat \ {0}
    BY UnitsArePositive
  <1>6. secs \in Int /\ ss \in Int
    <2>1. timeout \in Int OBVIOUS
    <2>2. secs \in Int /\ timeout % Sub \in Int BY <1>4, <1>5, <2>1
    <2> HIDE DEF x
    <2> QED BY <1>1, <2>2
  <1>7. /\ u = T + secs + ss \div Sub
        /\ sum % Sub = ss % Sub
    <2> DEFINE z == 0
    <2>1. x \in Int /\ T \in Int /\ timeout \in Int /\ z \in Int
      <3> HIDE DEF x, T
      <3> QED BY <1>1, <1>2
    <2>2. sum = x + Sub * T + timeout + z /\ ss = x + (timeout % Sub) + z
      <3>1. Sub * T \in Int
        <4> HIDE DEF T
        <4> QED BY <2>1, <1>5, Products
      <3>2. timeout % Sub \in Int BY <1>5, <2>1, Division
      <3> DEFINE p == Sub * T
                 q == timeout % Sub
      <3>3. sum = p + x + timeout /\ ss = x + q /\ z = 0 BY <1>3
      <3>4. p \in Int /\ q \in Int BY <3>1, <3>2
      <3> HIDE DEF p, q, x, sum, ss, z
      <3>5. sum = x + p + timeout + z /\ ss = x + q + z BY <2>1, <3>3, <3>4
      <3> QED BY <3>5 DEF p, q
    <2>3. Added(Sub, x, T, timeout, z, sum, ss) BY <2>2, Zenon DEF Added
    <2> HIDE DEF sum, ss, T, x, z
    <2>4. Carried(Sub, T, timeout, sum, ss) BY <1>5, <2>1, <2>3, CarryOver, Zenon
    <2> QED BY <2>4, Zenon DEF Carried
  <1>8. ss \div Sub \in Int /\ s \in Int
    <2>1. ss \div Sub \in Int /\ secs % SecPerMin \in Int BY <1>4, <1>5, <1>6
    <2> HIDE DEF ss, secs, sec
    <2> QED BY <1>1, <2>1
  <1>9. /\ v = mins + secs \div SecPerMin + s \div SecPerMin
        /\ u % SecPerMin = s % SecPerMin
    <2> DEFINE c == ss \div Sub
    <2>1. u = sec + SecPerMin * mins + secs + c BY <1>7
    <2>2. c \in Int BY <1>8
    <2>3. s = sec + (secs % SecPerMin) + c OBVIOUS
    <2>4. sec \in Int /\ mins \in Int
      <3> HIDE DEF sec, mins
      <3> QED BY <1>1, <1>2
    <2>5. secs \in Int BY <1>6
    <2> HIDE DEF c, s, u, secs, sec, mins
    <2>6. Added(SecPerMin, sec, mins, secs, c, u, s) BY <2>1, <2>3, Zenon DEF Added
    <2>7. Carried(SecPerMin, mins, secs, u, s)
      BY <1>5, <2>2, <2>4, <2>5, <2>6, CarryOver, Zenon
    <2> QED BY <2>7, Zenon DEF Carried
  <1>10. /\ secs \div SecPerMin \in Int /\ s \div SecPerMin \in Int /\ mi \in Int
    <2>1. /\ secs \div SecPerMin \in Int /\ s \div SecPerMin \in Int
      BY <1>4, <1>5, <1>6, <1>8
    <2>2. (secs \div SecPerMin) % MinPerHour \in Int BY <1>4, <1>5, <2>1
    <2> HIDE DEF s, secs, min
    <2> QED BY <1>1, <2>1, <2>2
  <1>11. /\ w = hour + hours + mi \div MinPerHour
         /\ v % MinPerHour = mi % MinPerHour
    <2> DEFINE c == s \div SecPerMin
               y == secs \div SecPerMin
    <2>1. v = min + MinPerHour * hour + y + c BY <1>9
    <2>2. c \in Int /\ y \in Int BY <1>10
    <2>3. mi = min + (y % MinPerHour) + c /\ hours = y \div MinPerHour OBVIOUS
    <2>4. min \in Int /\ hour \in Int
      <3> HIDE DEF min, hour
      <3> QED BY <1>1
    <2> HIDE DEF c, y, mi, v, hours, min, hour
    <2>5. Added(MinPerHour, min, hour, y, c, v, mi) BY <2>1, <2>3, Zenon DEF Added
    <2>6. Carried(MinPerHour, hour, y, v, mi) BY <1>5, <2>2, <2>4, <2>5, CarryOver, Zenon
    <2> QED BY <2>3, <2>6, Zenon DEF Carried
  <1>12. hours \in Int /\ mi \div MinPerHour \in Int BY <1>4, <1>5, <1>10
  <1>13. /\ w \div HoursPerDay = hours \div HoursPerDay + h \div HoursPerDay
         /\ w % HoursPerDay = h % HoursPerDay
    <2> DEFINE c == mi \div MinPerHour
               o == 0
    <2>1. c \in Int /\ o \in Int BY <1>12
    <2>2. h = hour + (hours % HoursPerDay) + c OBVIOUS
    <2>3. hour \in Int
      <3> HIDE DEF hour
      <3> QED BY <1>1
    <2>4. w = hour + HoursPerDay * o + hours + c
      <3> DEFINE z == HoursPerDay * o
      <3>1. z = 0 BY <1>5
      <3>2. w = hour + hours + c BY <1>11
      <3> HIDE DEF w, z, hour, hours, c
      <3>3. w = hour + z + hours + c BY <1>12, <2>1, <2>3, <3>1, <3>2
      <3> QED BY <3>3 DEF z
    <2> DEFINE p == hours \div HoursPerDay
               q == h \div HoursPerDay
    <2> HIDE DEF h, w, hour, hours, c
    <2>5. w % HoursPerDay = h % HoursPerDay /\ w \div HoursPerDay = o + p + q
      <3> HIDE DEF o
      <3>1. Added(HoursPerDay, hour, o, hours, c, w, h) BY <2>2, <2>4, Zenon DEF Added
      <3>2. Carried(HoursPerDay, o, hours, w, h)
        BY <1>5, <1>12, <2>1, <2>3, <3>1, CarryOver, Zenon
      <3> QED BY <3>2, Zenon DEF Carried
    <2>6. p \in Int BY <1>4, <1>5, <1>12
    <2>7. o + p = p
      <3> HIDE DEF p
      <3> QED BY <2>6
    <2> QED BY <2>5, <2>7
  <1>14. /\ secs \div (SecPerMin * MinPerHour) = hours
         /\ secs \div (SecPerMin * MinPerHour * HoursPerDay) = hours \div HoursPerDay
    <2>1. \A a \in Int, m, n \in Nat \ {0} : a \div (m * n) = (a \div m) \div n BY DivDiv
    <2> DEFINE sm == SecPerMin * MinPerHour
    <2>2. sm \in Nat \ {0} BY DayIs
    <2> HIDE DEF secs
    <2>3. secs \div sm = hours BY <1>5, <1>6, <2>1, Zenon
    <2> HIDE DEF sm, hours
    <2>4. secs \div (sm * HoursPerDay) = hours \div HoursPerDay
      BY <1>5, <1>6, <2>1, <2>2, <2>3, Zenon
    <2> QED BY <2>3, <2>4 DEF sm
  <1>15. /\ TimeOf(sum % DayTicks) = [Hours |-> w % HoursPerDay, Minutes |-> v % MinPerHour,
                                      Seconds |-> u % SecPerMin]
         /\ sum \div DayTicks = w \div HoursPerDay
    <2> HIDE DEF sum
    <2> QED BY <1>3, TimeOfDayOf
  <1> DEFINE d == r.date.Date + hours \div HoursPerDay + h \div HoursPerDay
  <1>16. AlarmFor(r, timeout) =
           [Date |-> AlarmDate(r.date, d),
            time |-> [Hours |-> h % HoursPerDay, Minutes |-> mi % MinPerHour,
                      Seconds |-> s % SecPerMin],
            sub  |-> (Sub - 1) - (ss % Sub)]
    BY <1>14, Zenon DEF AlarmFor
  <1>17. d = r.date.Date + (sum \div DayTicks)
    <2>1. hours \div HoursPerDay \in Int BY <1>4, <1>5, <1>12
    <2>2. h \in Int
      <3>1. hours % HoursPerDay \in Int BY <1>4, <1>5, <1>12
      <3> HIDE DEF hours, mi, hour
      <3> QED BY <1>1, <1>12, <3>1
    <2>3. h \div HoursPerDay \in Int BY <1>4, <1>5, <2>2
    <2>4. r.date.Date \in Int BY DEF RTC_DateTypeDef
    <2> DEFINE p == hours \div HoursPerDay
               q == h \div HoursPerDay
               k == sum \div DayTicks
    <2>5. k = p + q BY <1>13, <1>15
    <2> HIDE DEF p, q, k
    <2>6. d = r.date.Date + p + q BY DEF p, q
    <2>7. p \in Int /\ q \in Int BY <2>1, <2>3 DEF p, q
    <2> HIDE DEF d
    <2>8. d = r.date.Date + k BY <2>4, <2>5, <2>6, <2>7
    <2> QED BY <2>8 DEF k
  <1> HIDE DEF d, h, mi, s, ss, w, v, u
  <1> QED BY <1>3, <1>7, <1>9, <1>11, <1>13, <1>15, <1>16, <1>17, Zenon

-----------------------------------------------------------------------------
(* The ranges of the registers and of the program's variables.             *)

PCs == Reading \cup {"read"} \cup MainPCs

CalendarOK == DR \in Dates /\ TR \in Times /\ SSR \in 0..(Sub - 1)

AlarmOK == /\ ALRMAR \in [Date : 1..31, time : Times, sub : 0..(Sub - 1)]
           /\ ALRAE \in BOOLEAN /\ ALRAF \in BOOLEAN

BackupOK == BKP \in (0..(Wrap32 - 1)) \X (0..(Ms - 1))

ContextOK == RtcTimerContext \in Readings /\ copy \in Copies /\ seen \subseteq Readings

ProgramOK == /\ pc \in [Procs -> PCs]
             /\ rd \in [Procs -> [first : 0..(Sub - 1), reading : Readings]]
             /\ round \in [Procs -> 0..(Sub - 1)]

CallOK == /\ call \in {"RtcInit", "GetUTCTime", "SetUTCTime", "RtcStartAlarm"}
          /\ arg \in Nat /\ utc \in Nat /\ setTo \in Nat

CountOK == /\ elapsed \in 0..MaxTicks /\ at \in 0..MaxTicks /\ setAt \in 0..MaxTicks
           /\ calls \in 0..MaxCalls /\ starts \in 0..MaxStarts
           /\ half \in BOOLEAN

\* A start that is counted has been allowed for; the alarm is set with a timeout
\* RtcStartAlarm() was called with.
ArgumentOK == /\ pc["main"] = "RtcInit" => starts < MaxStarts
              /\ pc["main"] \in {"copy", "stop", "set_alarm"} => arg \in Timeouts

TypeInv == /\ CalendarOK /\ AlarmOK /\ BackupOK /\ ContextOK /\ ProgramOK
           /\ CallOK /\ CountOK /\ ArgumentOK

LEMMA TypeParts == TypeInv => TypeOK
  <1> SUFFICES ASSUME TypeInv PROVE TypeOK OBVIOUS
  <1>1. /\ DR \in Dates /\ TR \in Times /\ SSR \in 0..(Sub - 1)
        /\ ALRMAR \in [Date : 1..31, time : Times, sub : 0..(Sub - 1)]
    BY Zenon DEF TypeInv, CalendarOK, AlarmOK
  <1>2. {ALRAE, ALRAF, half} \subseteq BOOLEAN
    BY DEF TypeInv, AlarmOK, CountOK
  <1>3. BKP \in (0..(Wrap32 - 1)) \X (0..(Ms - 1)) BY Zenon DEF TypeInv, BackupOK
  <1>4. RtcTimerContext \in Readings /\ copy \in Copies /\ seen \subseteq Readings
    BY DEF TypeInv, ContextOK
  <1>5. /\ pc \in [Procs -> Reading \cup {"read"} \cup MainPCs]
        /\ rd \in [Procs -> [first : 0..(Sub - 1), reading : Readings]]
        /\ round \in [Procs -> 0..(Sub - 1)]
    BY Zenon DEF TypeInv, ProgramOK, PCs
  <1>6. /\ call \in {"RtcInit", "GetUTCTime", "SetUTCTime", "RtcStartAlarm"}
        /\ {arg, utc, setTo} \subseteq Nat
    BY DEF TypeInv, CallOK
  <1>7. /\ {elapsed, at, setAt} \subseteq 0..MaxTicks
        /\ calls \in 0..MaxCalls /\ starts \in 0..MaxStarts
    BY DEF TypeInv, CountOK
  <1> QED BY <1>1, <1>2, <1>3, <1>4, <1>5, <1>6, <1>7, Zenon DEF TypeOK

LEMMA EpochIn == Epoch \in Readings /\ Unread \in [first : 0..(Sub - 1), reading : Readings]
  <1>1. [Year |-> 0, Month |-> 1, Date |-> 1] \in Dates BY DEF Dates, DaysInMonth
  <1>2. 0 \in 0..(Sub - 1) BY UnitsArePositive
  <1>3. [Hours |-> 0, Minutes |-> 0, Seconds |-> 0] \in Times
    BY UnitsArePositive DEF Times
  <1>4. Epoch \in Readings BY <1>1, <1>2, <1>3 DEF Epoch, Readings
  <1> QED BY <1>2, <1>4 DEF Unread

LEMMA DatesAreCopied == Dates \subseteq RTC_DateTypeDef /\ Readings \subseteq Copies
  BY DEF Dates, RTC_DateTypeDef, Readings, Copies

LEMMA StepProgram ==
  ASSUME ProgramOK, NEW p \in Procs, NEW from, NEW to \in PCs, Goto(p, from, to)
  PROVE  /\ pc' \in [Procs -> PCs] /\ pc[p] = from /\ pc'[p] = to
         /\ \A q \in Procs \ {p} : pc'[q] = pc[q]
  BY DEF ProgramOK, Goto

\* Leaves the alarm's date in the month, whatever is carried into it; and leaves one
\* that the alarm can match even in a date that is no day.
LEMMA AlarmDateIs ==
  ASSUME NEW d \in RTC_DateTypeDef, NEW k \in 0..24
  PROVE  LET n == DaysInMonth(d.Year)[d.Month]
         IN  /\ AlarmDate(d, d.Date + k)
                  = IF d.Date + k > n THEN d.Date + k - n ELSE d.Date + k
             /\ AlarmDate(d, d.Date + k) \in 1..31
  <1> DEFINE n == DaysInMonth(d.Year)[d.Month]
             D == d.Date
  <1>1. n \in 28..31 /\ D \in 1..31
    BY DEF DaysInMonth, RTC_DateTypeDef
  <1>2. AlarmDate(d, D + k) = IF D + k > n THEN (D + k) % n ELSE D + k BY DEF AlarmDate
  <1> HIDE DEF n, D
  <1>3. D + k > n => (D + k) % n = D + k - n
    <2> SUFFICES ASSUME D + k > n PROVE (D + k) % n = D + k - n OBVIOUS
    <2>1. D + k - n \in 0..(n - 1) /\ D + k = n * 1 + (D + k - n) BY <1>1
    <2>2. D + k \in Int /\ n \in Nat \ {0} /\ 1 \in Int BY <1>1
    <2> QED BY <2>1, <2>2, DivisionUnique
  <1>4. (IF D + k > n THEN D + k - n ELSE D + k) \in 1..31 BY <1>1
  <1> QED BY <1>2, <1>3, <1>4 DEF n, D

\* The alarm's registers, and their date: that of a day of the calendar.
LEMMA AlarmForIs ==
  ASSUME NEW r \in Copies, NEW timeout \in Timeouts
  PROVE  LET sum  == TicksOfDay(r.time, r.sub) + timeout
             a    == AlarmFor(r, timeout)
             day  == (DayNumber(r.date) + sum \div DayTicks) % CenturyDays
             near == {r.date.Year, (r.date.Year + 1) % 100}
         IN  /\ a.time = TimeOf(sum % DayTicks) /\ a.sub = (Sub - 1) - (sum % Sub)
             /\ r.date \in Dates =>
                  \E d \in [Year : near, Month : 1..12, Date : 1..31] :
                    d \in Dates /\ DayNumber(d) = day /\ a.Date = d.Date
             /\ a \in [Date : 1..31, time : Times, sub : 0..(Sub - 1)]
  <1> DEFINE sum == TicksOfDay(r.time, r.sub) + timeout
             k == sum \div DayTicks
             a == AlarmFor(r, timeout)
             day == (DayNumber(r.date) + k) % CenturyDays
             near == {r.date.Year, (r.date.Year + 1) % 100}
             t == TicksOfDay(r.time, r.sub)
  <1>1. r.date \in RTC_DateTypeDef /\ r.time \in Times /\ r.sub \in 0..(Sub - 1)
    BY DEF Copies
  <1>2. timeout \in Nat /\ timeout < 24 * DayTicks
    BY RtcAssumption, TimeAssumption DEF RtcAssumption, TimeAssumption
  <1>3. /\ sum \in Nat
        /\ a = [Date |-> AlarmDate(r.date, r.date.Date + k),
                time |-> TimeOf(sum % DayTicks), sub |-> (Sub - 1) - (sum % Sub)]
    BY <1>1, <1>2, AlarmAdds
  <1>4. sum % DayTicks \in Nat /\ sum % DayTicks < DayTicks
    BY <1>3, TimeOfDayOf
  <1>5. t \in Nat /\ t < DayTicks BY <1>1, TimeInDay
  <1>6. k \in 0..24
    <2> DEFINE rest == sum % DayTicks
    <2>1. DayTicks \in Nat \ {0} /\ sum = t + timeout /\ sum \in Int BY <1>3, DayIs
    <2>2. k \in Int /\ rest \in 0..(DayTicks - 1) /\ sum = DayTicks * k + rest
      <3> HIDE DEF sum
      <3> QED BY <2>1, Division
    <2> HIDE DEF sum, k, t, rest
    <2>3. ~(k < 0)
      <3> SUFFICES ASSUME k < 0 PROVE FALSE OBVIOUS
      <3>1. DayTicks * k <= DayTicks * (-1) BY <2>1, <2>2, Z3
      <3>2. DayTicks * k \in Int BY <2>1, <2>2, Products
      <3> QED BY <1>2, <1>5, <2>1, <2>2, <3>1, <3>2
    <2>4. ~(k > 24)
      <3> SUFFICES ASSUME k > 24 PROVE FALSE OBVIOUS
      <3>1. DayTicks * k >= DayTicks * 25 BY <2>1, <2>2, Z3
      <3>2. DayTicks * k \in Int BY <2>1, <2>2, Products
      <3> QED BY <1>2, <1>5, <2>1, <2>2, <3>1, <3>2
    <2> QED BY <2>2, <2>3, <2>4
  <1>7. ASSUME r.date \in Dates
        PROVE  \E d \in [Year : near, Month : 1..12, Date : 1..31] :
                 /\ d \in Dates /\ DayNumber(d) = day
                 /\ AlarmDate(r.date, r.date.Date + k) = d.Date
    <2>0. k \in 0..27 BY <1>6
    <2> DEFINE date == AlarmDate(r.date, r.date.Date + k)
               d0 == r.date
               n == DaysInMonth(d0.Year)[d0.Month]
    <2>1. /\ date = IF d0.Date + k > n THEN d0.Date + k - n ELSE d0.Date + k
          /\ \E e \in [Year : near, Month : 1..12, Date : 1..31] :
               /\ e \in Dates
               /\ e.Date = IF d0.Date + k > n THEN d0.Date + k - n ELSE d0.Date + k
               /\ DayNumber(e) = (DayNumber(d0) + k) % CenturyDays
      <3> HIDE DEF k
      <3> QED BY <1>1, <1>6, <1>7, <2>0, AlarmDateIs, DaysLater, Zenon
    <2> DEFINE v == IF d0.Date + k > n THEN d0.Date + k - n ELSE d0.Date + k
    <2> HIDE DEF date, k, n, v, near, day
    <2>2. PICK e \in [Year : near, Month : 1..12, Date : 1..31] :
            e \in Dates /\ e.Date = v /\ DayNumber(e) = (DayNumber(d0) + k) % CenturyDays
      BY <2>1 DEF v
    <2>3. date = v BY <2>1 DEF v
    <2>4. DayNumber(e) = day /\ date = e.Date BY <2>2, <2>3 DEF day
    <2> QED BY <2>2, <2>4 DEF date
  <1>8. a.time = TimeOf(sum % DayTicks) /\ a.sub = (Sub - 1) - (sum % Sub)
        /\ a.Date = AlarmDate(r.date, r.date.Date + k)
    BY <1>3
  <1>9. AlarmDate(r.date, r.date.Date + k) \in 1..31
    <2> HIDE DEF k
    <2> QED BY <1>1, <1>6, AlarmDateIs
  <1>10. TimeOf(sum % DayTicks) \in Times BY <1>4, TimeOfIn
  <1>11. (Sub - 1) - (sum % Sub) \in 0..(Sub - 1)
    <2> HIDE DEF sum
    <2>1. sum \in Int BY <1>3
    <2>2. sum % Sub \in 0..(Sub - 1) BY <2>1, UnitsArePositive, Division
    <2> QED BY <2>2, UnitsArePositive
  <1>12. a \in [Date : 1..31, time : Times, sub : 0..(Sub - 1)]
    BY <1>3, <1>9, <1>10, <1>11
  <1>13. r.date \in Dates =>
           \E d \in [Year : near, Month : 1..12, Date : 1..31] :
             d \in Dates /\ DayNumber(d) = day /\ a.Date = d.Date
    <2> HIDE DEF a, near, day, k
    <2> QED BY <1>7, <1>8
  <1> QED BY <1>8, <1>12, <1>13, Zenon

LEMMA ValueIsInt ==
  ASSUME NEW r \in Readings PROVE CalendarValue(r) \in Int
  <1>1. r.date \in Dates /\ r.time \in Clock /\ r.sub \in 0..(Sub - 1)
    BY TimesAreClock DEF Readings
  <1>2. CalendarDays(r.date) \in Int
    BY <1>1, DaysAreRight, DayNumberRange, CenturyIsPositive
  <1> DEFINE days == CalendarDays(r.date)
             a == days * SecPerMin * MinPerHour * HoursPerDay
             b == SecPerMin * (r.time.Minutes + MinPerHour * r.time.Hours)
             s == r.time.Seconds
             rest == Sub - 1 - r.sub
  <1>3. a \in Int
    <2> HIDE DEF days
    <2>1. days \in Int BY <1>2 DEF days
    <2> QED BY <2>1, UnitsArePositive, Z3
  <1>4. b \in Int /\ s \in Int
    <2>1. r.time.Hours \in Nat /\ r.time.Minutes \in Nat /\ s \in Nat
      BY <1>1 DEF Clock
    <2> QED BY <2>1, UnitsArePositive
  <1>5. rest \in Int BY <1>1, UnitsArePositive
  <1>6. CalendarValue(r) = Sub * (a + s + b) + rest BY DEF CalendarValue
  <1> HIDE DEF a, b, s, rest
  <1> QED BY <1>3, <1>4, <1>5, <1>6, UnitsArePositive, Products

\* What the firmware's arithmetic on times of day gives.
LEMMA DeltaIs ==
  ASSUME NEW ms \in Nat, NEW r \in Readings
  PROVE  /\ CalendarTime(r).SubSeconds \in 0..(Ms - 1)
         /\ CalendarTime(r).Seconds \in 0..(Wrap32 - 1)
         /\ FromMs(ms) = [Seconds |-> (ms \div Ms) % Wrap32, SubSeconds |-> ms % Ms]
         /\ SysTimeSub(FromMs(ms), CalendarTime(r)).Seconds \in 0..(Wrap32 - 1)
         /\ SysTimeSub(FromMs(ms), CalendarTime(r)).SubSeconds \in 0..(Ms - 1)
  <1> DEFINE v == CalendarValue(r)
             c == CalendarTime(r)
             f == FromMs(ms)
             d == SysTimeSub(f, c)
  <1>1. /\ Sub \in Nat \ {0} /\ Ms \in Nat \ {0} /\ Wrap32 \in Nat \ {0}
        /\ Wrap16 \in Nat \ {0} /\ Wrap32 % Wrap16 = 0 /\ 2 * Ms <= Wrap16
    BY RtcAssumption DEF RtcAssumption
  <1>2. v \in Int BY ValueIsInt
  <1>3. c.SubSeconds \in 0..(Ms - 1)
    <2> DEFINE x == v % Sub
               y == x * Ms
               z == y \div Sub
               q == y % Sub
    <2>1. x \in 0..(Sub - 1)
      <3> HIDE DEF v
      <3> QED BY <1>1, <1>2, Division
    <2>2. y \in Int
      <3> HIDE DEF x
      <3> QED BY <1>1, <2>1, Products
    <2>3. z \in Int /\ q \in 0..(Sub - 1) /\ y = Sub * z + q
      <3> HIDE DEF y
      <3> QED BY <1>1, <2>2, Division
    <2>4. y >= 0 /\ y <= (Sub - 1) * Ms
      <3> HIDE DEF x
      <3> QED BY <1>1, <2>1, Z3
    <2>5. (Sub - 1) * Ms = Sub * Ms - Ms /\ Sub * Ms \in Int BY <1>1, Z3
    <2>6. c.SubSeconds = z BY DEF CalendarTime
    <2> HIDE DEF x, y, z, q
    <2>7. ~(z < 0)
      <3> SUFFICES ASSUME z < 0 PROVE FALSE OBVIOUS
      <3>1. Sub * z <= Sub * (-1) /\ Sub * z \in Int BY <1>1, <2>3, Z3
      <3> QED BY <1>1, <2>3, <2>4, <3>1
    <2>8. ~(z >= Ms)
      <3> SUFFICES ASSUME z >= Ms PROVE FALSE OBVIOUS
      <3>1. Sub * z >= Sub * Ms /\ Sub * z \in Int BY <1>1, <2>3, Z3
      <3> QED BY <1>1, <2>3, <2>4, <2>5, <3>1
    <2> QED BY <1>1, <2>3, <2>6, <2>7, <2>8
  <1>4. c.Seconds \in 0..(Wrap32 - 1)
    <2>1. c.Seconds = (v \div Sub) % Wrap32 BY DEF CalendarTime
    <2> HIDE DEF v, c
    <2>2. v \div Sub \in Int BY <1>1, <1>2, Division
    <2> QED BY <1>1, <2>1, <2>2, Division
  <1>5. FromMs(ms) = [Seconds |-> (ms \div Ms) % Wrap32, SubSeconds |-> ms % Ms]
    <2> DEFINE q == ms \div Ms
               s == q % Wrap32
               p == s * Ms
               w == p % Wrap32
               x == ms - w
               rest == ms % Ms
    <2>1. q \in Int /\ rest \in 0..(Ms - 1) /\ ms = Ms * q + rest BY <1>1, Division
    <2>2. q \div Wrap32 \in Int /\ s \in Int /\ q = Wrap32 * (q \div Wrap32) + s
      <3> HIDE DEF q
      <3> QED BY <1>1, <2>1, Division
    <2>3. p \div Wrap32 \in Int /\ w \in Int /\ p = Wrap32 * (p \div Wrap32) + w
      <3>1. p \in Int
        <4> HIDE DEF s
        <4> QED BY <1>1, <2>2, Products
      <3> HIDE DEF p
      <3> QED BY <1>1, <3>1, Division
    <2> DEFINE m == Wrap32 \div Wrap16
               a == q \div Wrap32
               b == p \div Wrap32
               k == (m * (Ms * a + b))
    <2>4. m \in Int /\ Wrap32 = Wrap16 * m
      <3>1. Wrap32 = Wrap16 * m + (Wrap32 % Wrap16) /\ m \in Int BY <1>1, Division
      <3>2. Wrap16 * m \in Int
        <4> HIDE DEF m
        <4> QED BY <1>1, <3>1, Products
      <3> DEFINE z == Wrap16 * m
      <3> HIDE DEF z
      <3>3. z = Wrap32 BY <1>1, <3>1, <3>2 DEF z
      <3> QED BY <3>1, <3>3 DEF z
    <2>5. x = rest + k * Wrap16
      <3>1. /\ ms = Ms * q + rest /\ q = Wrap32 * a + s /\ p = Wrap32 * b + w /\ p = s * Ms
            /\ a \in Int /\ b \in Int
        BY <2>1, <2>2, <2>3
      <3>2. x = ms - w OBVIOUS
      <3>3. k = m * (Ms * a + b) OBVIOUS
      <3>4. q \in Int /\ s \in Int /\ w \in Int /\ rest \in Int /\ m \in Int
            /\ Wrap32 = Wrap16 * m
        BY <2>1, <2>2, <2>3, <2>4
      <3> HIDE DEF x, rest, q, s, p, w, m, a, b, k
      <3>5. Ms * q = Ms * Wrap32 * a + s * Ms BY <1>1, <3>1, <3>4, Z3
      <3>6. x = Wrap32 * (Ms * a + b) + rest
        BY <1>1, <3>1, <3>2, <3>4, <3>5, Z3
      <3>7. Wrap32 * (Ms * a + b) = k * Wrap16 BY <1>1, <3>1, <3>3, <3>4, Z3
      <3>8. k * Wrap16 \in Int BY <1>1, <3>1, <3>3, <3>4, Z3
      <3> QED BY <3>4, <3>6, <3>7, <3>8
    <2>6. x % Wrap16 = rest
      <3>1. k \in Int
        <4>1. a \in Int /\ b \in Int /\ m \in Int BY <2>2, <2>3, <2>4
        <4>2. k = m * (Ms * a + b) OBVIOUS
        <4> HIDE DEF a, b, m, k
        <4> QED BY <1>1, <4>1, <4>2, Z3
      <3>2. (rest + k * Wrap16) % Wrap16 = rest % Wrap16
        <4>1. rest \in Int BY <2>1
        <4> HIDE DEF rest, k
        <4> QED BY <1>1, <3>1, <4>1, ModPlus
      <3>3. rest % Wrap16 = rest
        <4> HIDE DEF rest
        <4> QED BY <1>1, <2>1
      <3> HIDE DEF x, rest, k
      <3> QED BY <2>5, <3>2, <3>3
    <2>7. Int16(x) = rest
      <3>1. rest < Wrap16 \div 2
        <4> HIDE DEF rest
        <4> QED BY <1>1, <2>1
      <3> HIDE DEF x, rest
      <3> QED BY <2>6, <3>1 DEF Int16
    <2> QED BY <2>7, Zenon DEF FromMs
  <1>6. f.SubSeconds \in 0..(Ms - 1) /\ f.Seconds \in 0..(Wrap32 - 1)
    <2>1. f.Seconds = (ms \div Ms) % Wrap32 /\ f.SubSeconds = ms % Ms BY <1>5
    <2>2. ms \div Ms \in Int /\ ms % Ms \in 0..(Ms - 1) BY <1>1, Division
    <2>3. (ms \div Ms) % Wrap32 \in 0..(Wrap32 - 1) BY <1>1, <2>2, Division
    <2> QED BY <2>1, <2>2, <2>3, Zenon
  <1> DEFINE borrow == IF f.SubSeconds < c.SubSeconds THEN 1 ELSE 0
  <1>7. d.SubSeconds = f.SubSeconds - c.SubSeconds + borrow * Ms
        /\ d.Seconds = (f.Seconds - c.Seconds - borrow) % Wrap32
    BY DEF SysTimeSub
  <1> HIDE DEF f, c, d
  <1>8. d.SubSeconds \in 0..(Ms - 1) BY <1>1, <1>3, <1>6, <1>7
  <1>9. d.Seconds \in 0..(Wrap32 - 1)
    <2>1. f.Seconds - c.Seconds - borrow \in Int BY <1>4, <1>6
    <2> HIDE DEF borrow
    <2> QED BY <1>1, <1>7, <2>1, Division
  <1> QED BY <1>3, <1>4, <1>5, <1>8, <1>9 DEF f, c, d

\* Who changes what.
LEMMA OnlyTheseTurnTheCalendar ==
  ASSUME [Next]_vars PROVE Tick \/ RtcInit \/ calendar' = calendar
  <1>1. ASSUME NEW p \in Procs, Read(p) \/ RtcSetTimerContext(p)
        PROVE  calendar' = calendar
    BY <1>1 DEF Read, ReadFirst, ReadDate, ReadSub, ReadTime, ReadAgain,
                RtcSetTimerContext, Step, Goto, calendar
  <1>2. CASE Main
    BY <1>2 DEF Main, RtcInitAlarm, GetUTCTime, SysTimeGet, SetUTCTime, RtcBkupWrite0,
                RtcBkupWrite1, CopyContext, Copied, RtcStopAlarm, SetAlarm, Call, Step,
                Goto, calendar
  <1>3. CASE Reset \/ RTC_Alarm_IRQHandler \/ UNCHANGED vars
    BY <1>3 DEF Reset, RTC_Alarm_IRQHandler, vars, Step, Goto, calendar
  <1> QED BY <1>1, <1>2, <1>3 DEF Next

LEMMA OnlyTheseTouchTheAlarm ==
  ASSUME [Next]_vars
  PROVE  \/ Tick \/ RTC_Alarm_IRQHandler \/ RtcInitAlarm \/ RtcStopAlarm \/ SetAlarm
         \/ alarm' = alarm
  <1>1. ASSUME NEW p \in Procs, Read(p) \/ RtcSetTimerContext(p)
        PROVE  alarm' = alarm
    BY <1>1 DEF Read, ReadFirst, ReadDate, ReadSub, ReadTime, ReadAgain, Reads,
                RtcSetTimerContext, alarm
  <1>2. CASE Main
    BY <1>2 DEF Main, RtcInit, GetUTCTime, SysTimeGet, SetUTCTime, RtcBkupWrite0,
                RtcBkupWrite1, CopyContext, Copied, Call, alarm
  <1>3. CASE Reset \/ UNCHANGED vars BY <1>3 DEF Reset, vars, alarm
  <1> QED BY <1>1, <1>2, <1>3 DEF Next

LEMMA OnlyTheseStore ==
  ASSUME [Next]_vars PROVE RtcBkupWrite0 \/ RtcBkupWrite1 \/ BKP' = BKP
  <1>1. ASSUME NEW p \in Procs, Read(p) \/ RtcSetTimerContext(p) PROVE BKP' = BKP
    BY <1>1 DEF Read, ReadFirst, ReadDate, ReadSub, ReadTime, ReadAgain, Reads,
                RtcSetTimerContext
  <1>2. CASE Main
    BY <1>2 DEF Main, RtcInit, RtcInitAlarm, GetUTCTime, SysTimeGet, SetUTCTime, CopyContext,
                Copied, RtcStopAlarm, SetAlarm, Call
  <1>3. CASE Tick \/ Reset \/ RTC_Alarm_IRQHandler \/ UNCHANGED vars
    BY <1>3 DEF Tick, Reset, RTC_Alarm_IRQHandler, vars
  <1> QED BY <1>1, <1>2, <1>3 DEF Next

LEMMA CalendarStays == ASSUME TypeInv, [Next]_vars PROVE CalendarOK'
  <1>1. CASE Tick
    <2> DEFINE t == TicksOfDay(TR, SSR) + 1
    <2>1. TR \in Times /\ SSR \in 0..(Sub - 1) /\ DR \in Dates
      BY DEF TypeInv, CalendarOK
    <2>2. t \in Nat
      <3>1. TicksOfDay(TR, SSR) \in Nat BY <2>1, TimeInDay
      <3> QED BY <3>1
    <2>3. t % DayTicks \in 0..(DayTicks - 1)
      <3> HIDE DEF t
      <3>1. t \in Int BY <2>2
      <3> QED BY <3>1, DayIs, Division
    <2>4. t % DayTicks \in Nat /\ t % DayTicks < DayTicks BY <2>3, DayIs
    <2>5. TR' = TimeOf(t % DayTicks)
          /\ DR' = (IF t = DayTicks THEN NextDate(DR) ELSE DR)
          /\ SSR' = (IF SSR = 0 THEN Sub - 1 ELSE SSR - 1)
      BY <1>1 DEF Tick
    <2> HIDE DEF t
    <2>6. TR' \in Times BY <2>4, <2>5, TimeOfIn
    <2>7. DR' \in Dates BY <2>1, <2>5, NextDateIn
    <2>8. SSR' \in 0..(Sub - 1) BY <2>1, <2>5, UnitsArePositive
    <2> QED BY <2>6, <2>7, <2>8 DEF CalendarOK
  <1>2. CASE RtcInit
    BY <1>2, UnitsArePositive DEF RtcInit, TypeInv, CalendarOK
  <1>3. CASE calendar' = calendar
    BY <1>3 DEF calendar, TypeInv, CalendarOK
  <1> QED BY <1>1, <1>2, <1>3, OnlyTheseTurnTheCalendar

LEMMA AlarmStays == ASSUME TypeInv, [Next]_vars PROVE AlarmOK'
  <1> USE DEF TypeInv, AlarmOK
  <1>1. CASE Tick
    <2>1. ALRMAR' = ALRMAR /\ ALRAE' = ALRAE BY <1>1 DEF Tick
    <2>2. ALRAF' \in BOOLEAN BY <1>1 DEF Tick
    <2> QED BY <2>1, <2>2
  <1>2. CASE RTC_Alarm_IRQHandler BY <1>2 DEF RTC_Alarm_IRQHandler
  <1>3. CASE RtcInitAlarm BY <1>3 DEF RtcInitAlarm, Deactivate
  <1>4. CASE RtcStopAlarm BY <1>4 DEF RtcStopAlarm, Deactivate
  <1>5. CASE SetAlarm
    <2>1. ALRMAR' = AlarmFor(copy, arg) /\ ALRAE' = TRUE /\ ALRAF' = FALSE
      BY <1>5 DEF SetAlarm
    <2>2. copy \in Copies /\ arg \in Timeouts
      BY <1>5 DEF ContextOK, ArgumentOK, SetAlarm, Step, Goto
    <2>3. AlarmFor(copy, arg) \in [Date : 1..31, time : Times, sub : 0..(Sub - 1)]
      BY <2>2, AlarmForIs
    <2> QED BY <2>1, <2>3
  <1>6. CASE alarm' = alarm BY <1>6 DEF alarm
  <1> QED BY <1>1, <1>2, <1>3, <1>4, <1>5, <1>6, OnlyTheseTouchTheAlarm

LEMMA BackupStays == ASSUME TypeInv, [Next]_vars PROVE BackupOK'
  <1> USE DEF TypeInv, BackupOK
  <1>1. BKP = <<BKP[1], BKP[2]>> /\ BKP[1] \in 0..(Wrap32 - 1) /\ BKP[2] \in 0..(Ms - 1)
    OBVIOUS
  <1>2. rd["main"].reading \in Readings /\ arg \in Nat
    BY DEF ProgramOK, CallOK, Procs
  <1>3. Delta.Seconds \in 0..(Wrap32 - 1) /\ Delta.SubSeconds \in 0..(Ms - 1)
    BY <1>2, DeltaIs DEF Delta
  <1>4. CASE RtcBkupWrite0
    <2>1. BKP' = [BKP EXCEPT ![1] = Delta.Seconds] BY <1>4 DEF RtcBkupWrite0
    <2>2. BKP' = <<Delta.Seconds, BKP[2]>> BY <1>1, <2>1
    <2> QED BY <1>1, <1>3, <2>2
  <1>5. CASE RtcBkupWrite1
    <2>1. BKP' = [BKP EXCEPT ![2] = Delta.SubSeconds] BY <1>5 DEF RtcBkupWrite1
    <2>2. BKP' = <<BKP[1], Delta.SubSeconds>> BY <1>1, <2>1
    <2> QED BY <1>1, <1>3, <2>2
  <1>6. CASE BKP' = BKP BY <1>6
  <1> QED BY <1>4, <1>5, <1>6, OnlyTheseStore

LEMMA InstantIsNat ==
  ASSUME DR \in Dates, TR \in Times, SSR \in 0..(Sub - 1)
  PROVE  Instant \in Nat
  <1>1. DayNumber(DR) \in Nat BY DayNumberRange, CenturyIsPositive
  <1>2. TicksOfDay(TR, SSR) \in Nat BY TimeInDay
  <1> DEFINE n == DayNumber(DR)
             t == TicksOfDay(TR, SSR)
  <1>3. n \in Nat /\ t \in Nat /\ DayTicks \in Nat BY <1>1, <1>2, DayIs
  <1>4. Instant = n * DayTicks + t BY DEF Instant
  <1> HIDE DEF n, t
  <1>5. n * DayTicks \in Nat BY <1>3, Z3
  <1> QED BY <1>3, <1>4, <1>5

LEMMA SmallInt16 == ASSUME NEW x \in 0..(Ms - 1) PROVE Int16(x) = x
  <1>1. /\ Ms \in Nat \ {0} /\ Wrap16 \in Nat \ {0} /\ 2 * Ms <= Wrap16
    BY RtcAssumption DEF RtcAssumption
  <1>2. x % Wrap16 = x /\ x < Wrap16 \div 2 BY <1>1
  <1> QED BY <1>2 DEF Int16

\* A copy is of the contexts there were since it began, of one if there was one.
LEMMA CopyIsOfThese ==
  ASSUME seen \subseteq Readings, Copied
  PROVE  copy' \in Copies /\ ((\A r1, r2 \in seen : r1 = r2) => copy' \in seen)
  <1>1. PICK y, m, d, h, mi, s, ss \in seen :
          copy' = [date |-> [Year |-> y.date.Year, Month |-> m.date.Month,
                             Date |-> d.date.Date],
                   time |-> [Hours |-> h.time.Hours, Minutes |-> mi.time.Minutes,
                             Seconds |-> s.time.Seconds],
                   sub  |-> ss.sub]
    BY DEF Copied
  <1>2. \A r \in seen : /\ r \in [date : Dates, time : Times, sub : 0..(Sub - 1)]
                        /\ r.date \in RTC_DateTypeDef /\ r.time \in Times
                        /\ r.sub \in 0..(Sub - 1)
    BY DatesAreCopied DEF Readings
  <1>3. [Year |-> y.date.Year, Month |-> m.date.Month, Date |-> d.date.Date]
          \in RTC_DateTypeDef
    BY <1>2 DEF RTC_DateTypeDef
  <1>4. [Hours |-> h.time.Hours, Minutes |-> mi.time.Minutes, Seconds |-> s.time.Seconds]
          \in Times
    BY <1>2 DEF Times
  <1>5. copy' \in Copies BY <1>1, <1>2, <1>3, <1>4 DEF Copies
  <1>6. ASSUME \A r1, r2 \in seen : r1 = r2 PROVE copy' = y
    <2>1. y = m /\ y = d /\ y = h /\ y = mi /\ y = s /\ y = ss BY <1>6
    <2>2. y.date = [Year |-> y.date.Year, Month |-> y.date.Month, Date |-> y.date.Date]
      BY <1>2 DEF RTC_DateTypeDef
    <2>3. y.time = [Hours |-> y.time.Hours, Minutes |-> y.time.Minutes,
                    Seconds |-> y.time.Seconds]
      BY <1>2 DEF Times
    <2>4. y = [date |-> y.date, time |-> y.time, sub |-> y.sub] BY <1>2
    <2> QED BY <1>1, <2>1, <2>2, <2>3, <2>4, Zenon
  <1> QED BY <1>5, <1>6

LEMMA ContextStays == ASSUME TypeInv, [Next]_vars PROVE ContextOK'
  <1> USE DEF TypeInv, ContextOK
  <1>1. ASSUME NEW p \in Procs, RtcSetTimerContext(p) PROVE ContextOK'
    <2>1. /\ RtcTimerContext' = rd[p].reading /\ copy' = copy
          /\ seen' \subseteq seen \cup {rd[p].reading}
      BY <1>1 DEF RtcSetTimerContext
    <2>2. rd[p].reading \in Readings BY DEF ProgramOK
    <2> QED BY <2>1, <2>2
  <1>2. ASSUME NEW t \in Timeouts, CopyContext(t) PROVE ContextOK'
    BY <1>2 DEF CopyContext, Call
  <1>3. CASE Copied
    <2>1. copy' \in Copies BY <1>3, CopyIsOfThese
    <2> QED BY <1>3, <2>1 DEF Copied, history
  <1>4. CASE SetAlarm BY <1>4, EpochIn, DatesAreCopied DEF SetAlarm
  <1>5. CASE Reset BY <1>5, EpochIn, DatesAreCopied DEF Reset
  <1>6. ASSUME NEW p \in Procs, Read(p) PROVE ContextOK'
    BY <1>6 DEF Read, ReadFirst, ReadDate, ReadSub, ReadTime, ReadAgain, Reads, history
  <1>7. CASE RtcInit \/ RtcInitAlarm \/ GetUTCTime \/ SysTimeGet
             \/ (\E ms \in Utcs : SetUTCTime(ms)) \/ RtcBkupWrite0 \/ RtcBkupWrite1
             \/ RtcStopAlarm
    BY <1>7 DEF RtcInit, RtcInitAlarm, GetUTCTime, SysTimeGet, SetUTCTime, RtcBkupWrite0,
                RtcBkupWrite1, RtcStopAlarm, Call, history
  <1>8. CASE Tick \/ RTC_Alarm_IRQHandler \/ UNCHANGED vars
    BY <1>8 DEF Tick, RTC_Alarm_IRQHandler, vars, program, history
  <1> QED BY <1>1, <1>2, <1>3, <1>4, <1>5, <1>6, <1>7, <1>8 DEF Next, Main

LEMMA ProgramStays == ASSUME TypeInv, [Next]_vars PROVE ProgramOK'
  <1> USE DEF TypeInv
  <1>1. CASE Tick
    <2>1. pc' = pc /\ rd' = rd BY <1>1 DEF Tick, program
    <2>2. round' \in [Procs -> 0..(Sub - 1)]
      <3>1. ASSUME NEW p \in Procs
            PROVE  (IF pc[p] \in Reading \ {"ssr"} THEN round[p] + 1 ELSE 0)
                     \in 0..(Sub - 1)
        <4>1. round[p] \in 0..(Sub - 1) BY DEF ProgramOK
        <4>2. pc[p] \in Reading \ {"ssr"} => round[p] < Sub - 1 BY <1>1 DEF Tick
        <4> QED BY <4>1, <4>2, UnitsArePositive
      <3>2. round' = [p \in Procs |-> IF pc[p] \in Reading \ {"ssr"} THEN round[p] + 1
                                      ELSE 0]
        BY <1>1 DEF Tick
      <3> QED BY <3>1, <3>2
    <2> QED BY <2>1, <2>2 DEF ProgramOK
  <1>2. CASE Reset
    <2>1. pc' = [main |-> "RtcInit", irq |-> "idle"] /\ rd' = [p \in Procs |-> Unread]
          /\ round' = [p \in Procs |-> 0]
      BY <1>2 DEF Reset
    <2>2. pc' \in [Procs -> PCs] BY <2>1 DEF Procs, PCs, MainPCs
    <2> QED BY <2>1, <2>2, EpochIn, UnitsArePositive DEF ProgramOK
  <1>3. ASSUME NEW p \in Procs, Read(p) PROVE ProgramOK'
    <2>0. DR \in Dates /\ TR \in Times /\ SSR \in 0..(Sub - 1) BY DEF CalendarOK
    <2>1. PICK from, to \in PCs : Goto(p, from, to)
      BY <1>3 DEF Read, ReadFirst, ReadDate, ReadSub, ReadTime, ReadAgain, Step, PCs,
                  Reading
    <2>2. pc' \in [Procs -> PCs] BY <2>1, StepProgram
    <2>3. round' \in [Procs -> 0..(Sub - 1)]
      BY <1>3, UnitsArePositive DEF ProgramOK, Read, ReadFirst, ReadDate, ReadSub,
                                    ReadTime, ReadAgain
    <2>4. rd' \in [Procs -> [first : 0..(Sub - 1), reading : Readings]]
      <3>1. CASE ReadFirst(p) BY <2>0, <3>1 DEF ReadFirst, ProgramOK
      <3>2. CASE ReadDate(p) BY <2>0, <3>2 DEF ReadDate, ProgramOK, Readings
      <3>3. CASE ReadSub(p) BY <2>0, <3>3 DEF ReadSub, ProgramOK, Readings
      <3>4. CASE ReadTime(p) BY <2>0, <3>4 DEF ReadTime, ProgramOK, Readings
      <3>5. CASE ReadAgain(p) BY <3>5 DEF ReadAgain, ProgramOK
      <3> QED BY <1>3, <3>1, <3>2, <3>3, <3>4, <3>5 DEF Read
    <2> QED BY <2>2, <2>3, <2>4 DEF ProgramOK
  <1>4. CASE RtcInit
    BY <1>4 DEF RtcInit, ProgramOK, Procs, PCs, MainPCs
  <1>5. CASE RtcInitAlarm \/ GetUTCTime \/ SysTimeGet \/ (\E ms \in Utcs : SetUTCTime(ms))
             \/ RtcBkupWrite0 \/ RtcBkupWrite1 \/ (\E t \in Timeouts : CopyContext(t))
             \/ Copied \/ RtcStopAlarm \/ SetAlarm
    <2>1. PICK from, to \in PCs : Goto("main", from, to)
      BY <1>5 DEF RtcInitAlarm, GetUTCTime, SysTimeGet, SetUTCTime, RtcBkupWrite0,
                  RtcBkupWrite1, CopyContext, Copied, RtcStopAlarm, SetAlarm, Call, Step,
                  PCs, MainPCs, Reading
    <2>2. pc' \in [Procs -> PCs] BY <2>1, StepProgram DEF Procs
    <2>3. round' = round /\ (rd' = rd \/ rd' = [rd EXCEPT !["main"] = Unread])
      BY <1>5 DEF RtcInitAlarm, GetUTCTime, SysTimeGet, SetUTCTime, RtcBkupWrite0,
                  RtcBkupWrite1, CopyContext, Copied, RtcStopAlarm, SetAlarm, Call
    <2> QED BY <2>2, <2>3, EpochIn DEF ProgramOK
  <1>6. CASE RTC_Alarm_IRQHandler
    <2>1. pc' \in [Procs -> PCs]
      BY <1>6, StepProgram DEF RTC_Alarm_IRQHandler, Step, Procs, PCs, Reading
    <2> QED BY <1>6, <2>1 DEF RTC_Alarm_IRQHandler, ProgramOK
  <1>7. ASSUME NEW p \in Procs, RtcSetTimerContext(p) PROVE ProgramOK'
    <2>1. pc' \in [Procs -> PCs]
      BY <1>7, StepProgram DEF RtcSetTimerContext, Step, PCs, MainPCs
    <2> QED BY <1>7, <2>1, EpochIn DEF RtcSetTimerContext, ProgramOK
  <1>8. CASE UNCHANGED vars BY <1>8 DEF vars, program, ProgramOK
  <1> QED BY <1>1, <1>2, <1>3, <1>4, <1>5, <1>6, <1>7, <1>8 DEF Next, Main

LEMMA CallStays == ASSUME TypeInv, [Next]_vars PROVE CallOK'
  <1> USE DEF TypeInv, CallOK
  <1>1. CASE SysTimeGet
    <2> DEFINE r == rd["main"].reading
               c == CalendarTime(r)
               b == [Seconds |-> BKP[1], SubSeconds |-> Int16(BKP[2])]
               sum == SysTimeAdd(b, c)
    <2>1. r \in Readings BY DEF ProgramOK, Procs
    <2>2. c.SubSeconds \in 0..(Ms - 1) /\ c.Seconds \in 0..(Wrap32 - 1)
      <3>1. 0 \in Nat OBVIOUS
      <3> HIDE DEF r
      <3> QED BY <2>1, <3>1, DeltaIs
    <2>3. b.Seconds \in 0..(Wrap32 - 1) /\ b.SubSeconds \in 0..(Ms - 1)
      <3>1. BKP[1] \in 0..(Wrap32 - 1) /\ BKP[2] \in 0..(Ms - 1) BY DEF BackupOK
      <3>2. Int16(BKP[2]) = BKP[2] BY <3>1, SmallInt16
      <3> QED BY <3>1, <3>2
    <2>4. sum.Seconds \in Nat /\ sum.SubSeconds \in Nat
      <3> DEFINE carry == IF b.SubSeconds + c.SubSeconds >= Ms THEN 1 ELSE 0
      <3>1. /\ sum.Seconds = (b.Seconds + c.Seconds + carry) % Wrap32
            /\ sum.SubSeconds = b.SubSeconds + c.SubSeconds - carry * Ms
        BY DEF SysTimeAdd
      <3>2. Ms \in Nat \ {0} /\ Wrap32 \in Nat \ {0}
        BY RtcAssumption DEF RtcAssumption
      <3> HIDE DEF sum, b, c
      <3>3. sum.SubSeconds \in Nat BY <2>2, <2>3, <3>1, <3>2
      <3>4. b.Seconds + c.Seconds + carry \in Nat BY <2>2, <2>3
      <3> HIDE DEF carry
      <3>5. sum.Seconds \in Nat BY <3>1, <3>2, <3>4, DivModNat
      <3> QED BY <3>3, <3>5
    <2>5. ToMs(sum) \in Nat
      <3>1. Ms \in Nat BY RtcAssumption DEF RtcAssumption
      <3> HIDE DEF sum
      <3>2. sum.Seconds * Ms \in Nat BY <2>4, <3>1, Z3
      <3> QED BY <2>4, <3>2 DEF ToMs
    <2>6. utc' = ToMs(sum) /\ call' = call /\ arg' = arg /\ setTo' = setTo
      BY <1>1 DEF SysTimeGet
    <2> HIDE DEF sum
    <2> QED BY <2>5, <2>6
  <1>2. ASSUME NEW f \in {"GetUTCTime", "SetUTCTime", "RtcStartAlarm"}, NEW x \in Nat,
               NEW to, Call(f, x, to)
        PROVE  CallOK'
    BY <1>2 DEF Call
  <1>3. CASE GetUTCTime \/ (\E ms \in Utcs : SetUTCTime(ms))
             \/ (\E t \in Timeouts : CopyContext(t))
    BY <1>2, <1>3, RtcAssumption DEF GetUTCTime, SetUTCTime, CopyContext, RtcAssumption
  <1>4. CASE RtcBkupWrite0 \/ RtcBkupWrite1 \/ SetAlarm
    BY <1>4 DEF RtcBkupWrite0, RtcBkupWrite1, SetAlarm
  <1>5. CASE Reset BY <1>5 DEF Reset
  <1>6. CASE RtcInit \/ RtcInitAlarm \/ Copied \/ RtcStopAlarm
    BY <1>6 DEF RtcInit, RtcInitAlarm, Copied, RtcStopAlarm, history
  <1>7. ASSUME NEW p \in Procs, Read(p) \/ RtcSetTimerContext(p) PROVE CallOK'
    BY <1>7 DEF Read, ReadFirst, ReadDate, ReadSub, ReadTime, ReadAgain, Reads, history,
                RtcSetTimerContext
  <1>8. CASE Tick \/ RTC_Alarm_IRQHandler \/ UNCHANGED vars
    BY <1>8 DEF Tick, RTC_Alarm_IRQHandler, vars, program, history
  <1> QED BY <1>1, <1>3, <1>4, <1>5, <1>6, <1>7, <1>8 DEF Next, Main

LEMMA CountStays == ASSUME TypeInv, [Next]_vars PROVE CountOK'
  <1> USE DEF TypeInv, CountOK
  <1>00. MaxTicks \in Nat /\ MaxStarts \in Nat /\ MaxCalls \in Nat
    BY RtcAssumption DEF RtcAssumption
  <1>0. 0 \in 0..MaxTicks /\ 0 \in 0..MaxStarts BY <1>00
  <1>1. CASE Tick BY <1>00, <1>1 DEF Tick, history
  <1>2. CASE Reset BY <1>0, <1>2 DEF Reset
  <1>3. CASE RtcInit
    <2>1. starts' = starts + 1 /\ starts < MaxStarts BY <1>3 DEF RtcInit, ArgumentOK
    <2>2. starts' \in 0..MaxStarts BY <1>00, <2>1
    <2> QED BY <1>3, <2>2 DEF RtcInit
  <1>4. ASSUME NEW f, NEW x, NEW to, Call(f, x, to) PROVE calls' \in 0..MaxCalls
    BY <1>00, <1>4 DEF Call
  <1>5. CASE GetUTCTime \/ (\E ms \in Utcs : SetUTCTime(ms))
             \/ (\E t \in Timeouts : CopyContext(t))
    <2>1. calls' \in 0..MaxCalls BY <1>4, <1>5 DEF GetUTCTime, SetUTCTime, CopyContext
    <2>2. /\ elapsed' = elapsed /\ at' = at /\ setAt' = setAt /\ starts' = starts
          /\ half' = half
      BY <1>5 DEF GetUTCTime, SetUTCTime, CopyContext, Call, Goto
    <2> QED BY <2>1, <2>2
  <1>6. CASE SysTimeGet \/ RtcBkupWrite0 \/ RtcBkupWrite1 \/ SetAlarm
    BY <1>0, <1>6 DEF SysTimeGet, RtcBkupWrite0, RtcBkupWrite1, SetAlarm, Step, Goto
  <1>7. CASE RtcInitAlarm \/ Copied \/ RtcStopAlarm
    BY <1>7 DEF RtcInitAlarm, Copied, RtcStopAlarm, history, Step, Goto
  <1>8. ASSUME NEW p \in Procs, Read(p) PROVE CountOK'
    BY <1>8 DEF Read, ReadFirst, ReadDate, ReadSub, ReadTime, ReadAgain, Reads, history,
                Step, Goto
  <1>9. ASSUME NEW p \in Procs, RtcSetTimerContext(p) PROVE CountOK'
    BY <1>0, <1>9 DEF RtcSetTimerContext, Step, Goto
  <1>10. CASE RTC_Alarm_IRQHandler \/ UNCHANGED vars
    BY <1>10 DEF RTC_Alarm_IRQHandler, vars, history, Step, Goto
  <1> QED BY <1>1, <1>2, <1>3, <1>5, <1>6, <1>7, <1>8, <1>9, <1>10 DEF Next, Main

LEMMA ArgumentStays == ASSUME TypeInv, [Next]_vars PROVE ArgumentOK'
  <1> USE DEF TypeInv, ArgumentOK
  <1> DEFINE Sets == {"copy", "stop", "set_alarm"}
  <1>0. pc \in [Procs -> PCs] BY DEF ProgramOK
  <1>1. CASE Reset BY <1>1 DEF Reset
  <1>2. CASE RtcInit BY <1>0, <1>2 DEF RtcInit, Procs
  <1>3. ASSUME NEW p \in Procs, NEW from, NEW to \in PCs, Goto(p, from, to),
               to \notin Sets \cup {"RtcInit"}, arg' = arg \/ p = "main",
               starts' = starts \/ p = "main"
        PROVE  ArgumentOK'
    <2>1. pc'[p] = to /\ \A q \in Procs \ {p} : pc'[q] = pc[q]
      BY <1>0, <1>3 DEF Goto
    <2>2. CASE p = "main" BY <1>3, <2>1, <2>2
    <2>3. CASE p # "main"
      <3>1. pc'["main"] = pc["main"] BY <2>1, <2>3 DEF Procs
      <3> QED BY <1>3, <2>3, <3>1
    <2> QED BY <2>2, <2>3
  <1>4. CASE RtcInitAlarm \/ GetUTCTime \/ SysTimeGet \/ (\E ms \in Utcs : SetUTCTime(ms))
             \/ RtcBkupWrite0 \/ RtcBkupWrite1 \/ SetAlarm
    <2>1. PICK from, to \in PCs : Goto("main", from, to) /\ to \notin Sets \cup {"RtcInit"}
      BY <1>4 DEF RtcInitAlarm, GetUTCTime, SysTimeGet, SetUTCTime, RtcBkupWrite0,
                  RtcBkupWrite1, SetAlarm, Call, Step, PCs, MainPCs, Reading
    <2> QED BY <1>3, <2>1 DEF Procs
  <1>5. ASSUME NEW t \in Timeouts, CopyContext(t) PROVE ArgumentOK'
    BY <1>0, <1>5 DEF CopyContext, Call, Goto, Procs
  <1>6. CASE Copied \/ RtcStopAlarm
    BY <1>0, <1>6 DEF Copied, RtcStopAlarm, Step, Goto, Procs, history
  <1>7. ASSUME NEW p \in Procs, Read(p) \/ RtcSetTimerContext(p) PROVE ArgumentOK'
    <2>1. PICK from, to \in PCs : Goto(p, from, to) /\ to \notin Sets \cup {"RtcInit"}
      BY <1>7 DEF Read, ReadFirst, ReadDate, ReadSub, ReadTime, ReadAgain,
                  RtcSetTimerContext, Step, PCs, MainPCs, Reading
    <2>2. arg' = arg /\ starts' = starts
      BY <1>7 DEF Read, ReadFirst, ReadDate, ReadSub, ReadTime, ReadAgain,
                  RtcSetTimerContext, Reads, history
    <2> QED BY <1>3, <2>1, <2>2
  <1>8. CASE RTC_Alarm_IRQHandler
    <2>1. Goto("irq", "idle", "ssr") /\ arg' = arg /\ starts' = starts
      BY <1>8 DEF RTC_Alarm_IRQHandler, Step, history
    <2> QED BY <1>3, <2>1 DEF Procs, PCs, Reading
  <1>9. CASE Tick \/ UNCHANGED vars BY <1>9 DEF Tick, vars, program, history
  <1> QED BY <1>1, <1>2, <1>4, <1>5, <1>6, <1>7, <1>8, <1>9 DEF Next, Main

LEMMA InitTypes == Init => TypeInv
  <1> SUFFICES ASSUME Init PROVE TypeInv OBVIOUS
  <1>1. 0 \in 0..(Sub - 1) /\ Sub - 1 \in 0..(Sub - 1) BY UnitsArePositive
  <1>2. /\ Ms \in Nat \ {0} /\ Wrap32 \in Nat \ {0} /\ MaxTicks \in Nat
        /\ MaxCalls \in Nat /\ MaxStarts \in Nat
    BY RtcAssumption DEF RtcAssumption
  <1>3. CalendarOK
    <2>1. DR \in Dates BY RtcAssumption DEF Init, RtcAssumption
    <2>2. DayTicks - 1 \in Nat /\ DayTicks - 1 < DayTicks BY DayIs
    <2>3. TR \in Times BY <2>2, TimeOfIn DEF Init
    <2> QED BY <1>1, <2>1, <2>3 DEF Init, CalendarOK
  <1>4. AlarmOK
    <2>1. Epoch.time \in Times BY EpochIn DEF Readings
    <2>2. ALRMAR = [Date |-> 1, time |-> Epoch.time, sub |-> 0] BY DEF Init
    <2> DEFINE t == Epoch.time
    <2> HIDE DEF t
    <2>3. [Date |-> 1, time |-> t, sub |-> 0] \in [Date : 1..31, time : Times,
                                                 sub : 0..(Sub - 1)]
      BY <1>1, <2>1 DEF t
    <2>4. ALRAE = FALSE /\ ALRAF = FALSE BY DEF Init
    <2> QED BY <2>2, <2>3, <2>4 DEF AlarmOK, t
  <1>5. BackupOK BY <1>2 DEF Init, BackupOK
  <1>6. ContextOK
    <2>1. [date |-> DR, time |-> TR, sub |-> SSR] \in Readings
      BY <1>3 DEF CalendarOK, Readings
    <2> QED BY <2>1, EpochIn, DatesAreCopied DEF Init, ContextOK
  <1>7. ProgramOK BY <1>1, EpochIn DEF Init, ProgramOK, PCs, MainPCs
  <1>8. CallOK
    <2> DEFINE s == (Instant \div Sub) % Wrap32
               f == ((Instant % Sub) * Ms) \div Sub
    <2>1. Instant \in Nat BY <1>3, InstantIsNat DEF CalendarOK
    <2>2. s \in Nat
      <3>1. Instant \div Sub \in Nat BY <2>1, UnitsArePositive, DivModNat
      <3> QED BY <1>2, <3>1, DivModNat
    <2>3. f \in Nat
      <3>1. Instant % Sub \in Nat BY <2>1, UnitsArePositive, DivModNat
      <3> DEFINE x == Instant % Sub
      <3> HIDE DEF x
      <3>2. x * Ms \in Nat BY <1>2, <3>1, Z3 DEF x
      <3> QED BY <3>2, UnitsArePositive, DivModNat DEF x
    <2>4. setTo = s * Ms + f BY DEF Init
    <2> HIDE DEF s, f
    <2>5. s * Ms \in Nat BY <1>2, <2>2, Z3
    <2>6. setTo \in Nat BY <2>3, <2>4, <2>5
    <2> QED BY <2>6 DEF Init, CallOK
  <1>9. CountOK
    <2>1. /\ elapsed = 0 /\ at = 0 /\ setAt = 0 /\ calls = 0 /\ starts = 0
          /\ half = FALSE
      BY DEF Init
    <2>2. half \in BOOLEAN BY <2>1
    <2>3. 0 \in 0..MaxTicks /\ 0 \in 0..MaxCalls /\ 0 \in 0..MaxStarts BY <1>2
    <2> QED BY <2>1, <2>2, <2>3 DEF CountOK
  <1>10. ArgumentOK BY DEF Init, ArgumentOK, Procs
  <1> QED BY <1>3, <1>4, <1>5, <1>6, <1>7, <1>8, <1>9, <1>10 DEF TypeInv

LEMMA TypesStay == ASSUME TypeInv, [Next]_vars PROVE TypeInv'
  BY CalendarStays, AlarmStays, BackupStays, ContextStays, ProgramStays, CallStays,
     CountStays, ArgumentStays
  DEF TypeInv

\* The registers and the variables stay in their ranges: the calendar's date is a
\* day that exists, the alarm's date and time are such as the alarm can match, and
\* the backup registers hold a difference normalised to less than a second, as
\* SysTimeGet() expects it, which a lost borrow would not.
THEOREM RangesAreKept == Spec => []TypeOK
  <1>1. TypeInv => TypeOK BY TypeParts
  <1> QED BY <1>1, InitTypes, TypesStay, PTL DEF Spec

-----------------------------------------------------------------------------
(* RtcStartAlarm().                                                        *)

Copying == {"copy", "stop", "set_alarm"}

\* The copy is a context, unless the interrupt has set another since it began.
CopyInv == pc["main"] \in {"stop", "set_alarm"} =>
             ((\A r1, r2 \in seen : r1 = r2) => copy \in seen)

LEMMA CopyHolds == Init => CopyInv
  BY DEF Init, CopyInv, Procs

LEMMA CopyStays == ASSUME TypeInv, CopyInv, [Next]_vars PROVE CopyInv'
  <1>0. pc \in [Procs -> PCs] /\ pc' \in [Procs -> PCs] /\ "main" \in Procs
    BY ProgramStays DEF TypeInv, ProgramOK, Procs
  <1>1. CASE pc'["main"] \notin Copying BY <1>1 DEF CopyInv, Copying
  <1>2. ASSUME NEW t \in Timeouts, CopyContext(t) PROVE CopyInv'
    BY <1>0, <1>2 DEF CopyContext, Call, Goto, CopyInv
  <1>3. CASE Copied
    <2>1. (\A r1, r2 \in seen : r1 = r2) => copy' \in seen
      BY <1>3, CopyIsOfThese DEF TypeInv, ContextOK
    <2> QED BY <1>3, <2>1 DEF Copied, history, CopyInv
  <1>4. CASE RtcStopAlarm
    BY <1>0, <1>4 DEF RtcStopAlarm, Step, Goto, history, CopyInv
  <1>5. ASSUME NEW p \in Procs, Read(p) \/ RtcSetTimerContext(p), pc'["main"] \in Copying
        PROVE  CopyInv'
    <2>1. p # "main"
      BY <1>0, <1>5 DEF Read, ReadFirst, ReadDate, ReadSub, ReadTime, ReadAgain,
                        RtcSetTimerContext, Step, Goto, Copying
    <2>2. pc'["main"] = pc["main"]
      BY <1>0, <1>5, <2>1 DEF Read, ReadFirst, ReadDate, ReadSub, ReadTime, ReadAgain,
                              RtcSetTimerContext, Step, Goto
    <2>3. copy' = copy
      BY <1>5 DEF Read, ReadFirst, ReadDate, ReadSub, ReadTime, ReadAgain, Reads,
                  RtcSetTimerContext
    <2>4. seen' = seen \/ pc["main"] = "copy"
      BY <1>5 DEF Read, ReadFirst, ReadDate, ReadSub, ReadTime, ReadAgain, Reads, history,
                  RtcSetTimerContext
    <2> QED BY <2>2, <2>3, <2>4 DEF CopyInv
  <1>6. CASE RtcInit \/ RtcInitAlarm \/ GetUTCTime \/ SysTimeGet
             \/ (\E ms \in Utcs : SetUTCTime(ms)) \/ RtcBkupWrite0 \/ RtcBkupWrite1
             \/ SetAlarm
    BY <1>0, <1>1, <1>6
    DEF RtcInit, RtcInitAlarm, GetUTCTime, SysTimeGet, SetUTCTime, RtcBkupWrite0,
        RtcBkupWrite1, SetAlarm, Call, Step, Goto, Copying
  <1>7. CASE Reset BY <1>1, <1>7 DEF Reset, Copying
  <1>8. CASE Tick \/ RTC_Alarm_IRQHandler \/ UNCHANGED vars
    <2>1. pc'["main"] = pc["main"] /\ copy' = copy /\ seen' = seen
      BY <1>0, <1>8 DEF Tick, RTC_Alarm_IRQHandler, Step, Goto, vars, program, history
    <2> QED BY <2>1 DEF CopyInv
  <1> QED BY <1>1, <1>2, <1>3, <1>4, <1>5, <1>6, <1>7, <1>8 DEF Next, Main

LEMMA OnlySetAlarmEnds ==
  ASSUME TypeInv, Next, pc["main"] = "set_alarm", pc'["main"] = "idle"
  PROVE  SetAlarm
  <1>0. pc \in [Procs -> PCs] /\ "main" \in Procs BY DEF TypeInv, ProgramOK, Procs
  <1>1. ~Tick BY DEF Tick, program
  <1>2. ~Reset BY DEF Reset, Procs
  <1>3. ASSUME NEW p \in Procs, Read(p) \/ RtcSetTimerContext(p) PROVE FALSE
    BY <1>0, <1>3 DEF Read, ReadFirst, ReadDate, ReadSub, ReadTime, ReadAgain,
                      RtcSetTimerContext, Step, Goto
  <1>4. ~RTC_Alarm_IRQHandler BY <1>0 DEF RTC_Alarm_IRQHandler, Step, Goto
  <1>5. ~(RtcInit \/ RtcInitAlarm \/ GetUTCTime \/ SysTimeGet
          \/ (\E ms \in Utcs : SetUTCTime(ms)) \/ RtcBkupWrite0 \/ RtcBkupWrite1
          \/ (\E t \in Timeouts : CopyContext(t)) \/ Copied \/ RtcStopAlarm)
    BY <1>0 DEF RtcInit, RtcInitAlarm, GetUTCTime, SysTimeGet, SetUTCTime, RtcBkupWrite0,
                RtcBkupWrite1, CopyContext, Copied, RtcStopAlarm, Call, Step, Goto
  <1> QED BY <1>1, <1>2, <1>3, <1>4, <1>5 DEF Next, Main

LEMMA AlarmIsRight ==
  ASSUME TypeInv, CopyInv, Next, pc["main"] = "set_alarm", pc'["main"] = "idle"
  PROVE  LET sum  == TicksOfDay(copy.time, copy.sub) + arg
             day  == (DayNumber(copy.date) + sum \div DayTicks) % CenturyDays
             near == {copy.date.Year, (copy.date.Year + 1) % 100}
         IN  /\ ALRMAR'.time = TimeOf(sum % DayTicks)
             /\ ALRMAR'.sub = (Sub - 1) - (sum % Sub)
             /\ copy.date \in Dates =>
                  \E d \in [Year : near, Month : 1..12, Date : 1..31] :
                    d \in Dates /\ DayNumber(d) = day /\ ALRMAR'.Date = d.Date
             /\ (\A r1, r2 \in seen : r1 = r2) => copy \in seen
  <1>1. ALRMAR' = AlarmFor(copy, arg) BY OnlySetAlarmEnds DEF SetAlarm
  <1>2. copy \in Copies /\ arg \in Timeouts BY DEF TypeInv, ContextOK, ArgumentOK
  <1>3. (\A r1, r2 \in seen : r1 = r2) => copy \in seen BY DEF CopyInv
  <1> DEFINE a == AlarmFor(copy, arg)
  <1> HIDE DEF a
  <1>4. ALRMAR' = a BY <1>1 DEF a
  <1> QED BY <1>2, <1>3, <1>4, AlarmForIs, Zenon DEF a

\* Whenever RtcStartAlarm() enables the alarm it is for its copy of the context plus
\* the timeout, with every carry from the subseconds into the date, in each month of
\* the hundred years; and the copy is a context of one instant, in all of its fields,
\* unless the interrupt of the alarm of before has come in the middle of the copying.
THEOREM AlarmIsSetRight == Spec => AlarmIsContextPlusTimeout
  <1> DEFINE Right == pc["main"] = "set_alarm" /\ pc'["main"] = "idle" =>
       LET sum  == TicksOfDay(copy.time, copy.sub) + arg
           day  == (DayNumber(copy.date) + sum \div DayTicks) % CenturyDays
           near == {copy.date.Year, (copy.date.Year + 1) % 100}
       IN  /\ ALRMAR'.time = TimeOf(sum % DayTicks)
           /\ ALRMAR'.sub = (Sub - 1) - (sum % Sub)
           /\ copy.date \in Dates =>
                \E d \in [Year : near, Month : 1..12, Date : 1..31] :
                  d \in Dates /\ DayNumber(d) = day /\ ALRMAR'.Date = d.Date
           /\ (\A r1, r2 \in seen : r1 = r2) => copy \in seen
  <1>1. TypeInv /\ CopyInv /\ Next => Right BY AlarmIsRight, Zenon
  <1>2. AlarmIsContextPlusTimeout <=> [][Right]_vars BY Zenon DEF AlarmIsContextPlusTimeout
  <1> HIDE DEF Right
  <1>3. TypeInv /\ CopyInv /\ [Next]_vars => [Right]_vars BY <1>1
  <1> QED BY <1>2, <1>3, InitTypes, TypesStay, CopyHolds, CopyStays, PTL DEF Spec

-----------------------------------------------------------------------------
(* Numbers that differ by a multiple: the seconds are kept in 32 bits.     *)

Congruent(a, b, n) == \E k \in Int : a = b + k * n

LEMMA CongruentSame ==
  ASSUME NEW a \in Int, NEW n \in Int PROVE Congruent(a, a, n)
  <1>1. 0 * n = 0 BY Z3
  <1>2. a = a + 0 * n BY <1>1
  <1> QED BY <1>2 DEF Congruent

LEMMA CongruentNext ==
  ASSUME NEW a \in Int, NEW b \in Int, NEW c \in Int, NEW n \in Int,
         Congruent(a, b, n), Congruent(b, c, n)
  PROVE  Congruent(a, c, n)
  <1>1. PICK k \in Int : a = b + k * n BY DEF Congruent
  <1>2. PICK l \in Int : b = c + l * n BY DEF Congruent
  <1>3. (k + l) * n = k * n + l * n /\ k * n \in Int /\ l * n \in Int BY Z3
  <1>4. a = c + (k + l) * n BY <1>1, <1>2, <1>3
  <1>5. k + l \in Int OBVIOUS
  <1> QED BY <1>4, <1>5, Zenon DEF Congruent

LEMMA CongruentSum ==
  ASSUME NEW a \in Int, NEW b \in Int, NEW c \in Int, NEW d \in Int, NEW n \in Int,
         Congruent(a, b, n), Congruent(c, d, n)
  PROVE  Congruent(a + c, b + d, n) /\ Congruent(a - c, b - d, n)
  <1>1. PICK k \in Int : a = b + k * n BY DEF Congruent
  <1>2. PICK l \in Int : c = d + l * n BY DEF Congruent
  <1>3. /\ (k + l) * n = k * n + l * n /\ (k - l) * n = k * n - l * n
        /\ k * n \in Int /\ l * n \in Int
    BY Z3
  <1>4. a + c = (b + d) + (k + l) * n BY <1>1, <1>2, <1>3
  <1>5. a - c = (b - d) + (k - l) * n BY <1>1, <1>2, <1>3
  <1>6. k + l \in Int /\ k - l \in Int OBVIOUS
  <1> QED BY <1>4, <1>5, <1>6, Zenon DEF Congruent

LEMMA CongruentTimes ==
  ASSUME NEW a \in Int, NEW b \in Int, NEW n \in Int, NEW s \in Int, Congruent(a, b, n)
  PROVE  Congruent(s * a, s * b, s * n)
  <1>1. PICK k \in Int : a = b + k * n BY DEF Congruent
  <1>2. s * (b + k * n) = s * b + k * (s * n) BY Z3
  <1> QED BY <1>1, <1>2 DEF Congruent

LEMMA CongruentMod ==
  ASSUME NEW a \in Int, NEW n \in Nat \ {0} PROVE Congruent(a % n, a, n)
  <1> DEFINE q == a \div n
             r == a % n
  <1>1. q \in Int /\ r \in Int /\ a = n * q + r BY Division
  <1> HIDE DEF q, r
  <1>2. (-q) * n = -(n * q) /\ n * q \in Int BY <1>1, Z3
  <1>3. r = a + (-q) * n BY <1>1, <1>2
  <1>4. -q \in Int BY <1>1
  <1> QED BY <1>3, <1>4 DEF Congruent, r

\* In milliseconds, and in ticks times 1000, the seconds start over after:
MsPeriod == Wrap32 * Ms
Period == Sub * MsPeriod

LEMMA Periods ==
  /\ Sub \in Nat \ {0} /\ Ms \in Nat \ {0} /\ Wrap32 \in Nat \ {0}
  /\ MsPeriod \in Nat \ {0} /\ Period \in Nat \ {0} /\ Sub * Ms \in Nat \ {0}
  /\ Period = (Sub * Ms) * Wrap32
  <1>1. Sub \in Nat \ {0} /\ Ms \in Nat \ {0} /\ Wrap32 \in Nat \ {0}
    BY RtcAssumption DEF RtcAssumption
  <1>2. MsPeriod \in Nat \ {0} BY <1>1, ProductsArePositive DEF MsPeriod
  <1>3. Period \in Nat \ {0} /\ Sub * Ms \in Nat \ {0}
    BY <1>1, <1>2, ProductsArePositive DEF Period
  <1>4. Sub * (Wrap32 * Ms) = (Sub * Ms) * Wrap32 BY <1>1, Z3
  <1> QED BY <1>1, <1>2, <1>3, <1>4 DEF Period, MsPeriod

\* Seconds in 32 bits, times 1000.
LEMMA SecondsWrap ==
  ASSUME NEW s \in Int PROVE Congruent((s % Wrap32) * Ms, s * Ms, MsPeriod)
  <1> DEFINE w == s % Wrap32
  <1>1. Congruent(w, s, Wrap32) /\ w \in Int
    <2>1. Congruent(s % Wrap32, s, Wrap32) BY Periods, CongruentMod
    <2>2. s % Wrap32 \in Int BY Periods, Division
    <2> QED BY <2>1, <2>2
  <1> HIDE DEF w
  <1>2. PICK k \in Int : w = s + k * Wrap32 BY <1>1 DEF Congruent
  <1>3. (s + k * Wrap32) * Ms = s * Ms + k * (Wrap32 * Ms) BY Periods, Z3
  <1>4. w * Ms = s * Ms + k * MsPeriod BY <1>2, <1>3 DEF MsPeriod
  <1> QED BY <1>4 DEF Congruent, w

\* The time of day at an instant: its ticks in milliseconds, rounded down.
LEMMA TicksInMs ==
  ASSUME NEW v \in Int
  PROVE  LET ms == ((v \div Sub) % Wrap32) * Ms + ((v % Sub) * Ms) \div Sub
         IN  /\ ms \in Int
             /\ \E r \in 0..(Sub - 1) : Congruent(Sub * ms, Ms * v - r, Period)
  <1> DEFINE q == v \div Sub
             f == v % Sub
             y == f * Ms
             z == y \div Sub
             r == y % Sub
             w == (q % Wrap32) * Ms
  <1>1. q \in Int /\ f \in 0..(Sub - 1) /\ v = Sub * q + f BY Periods, Division
  <1>2. y \in Int
    <2> HIDE DEF f
    <2> QED BY <1>1, Periods, Products
  <1>3. z \in Int /\ r \in 0..(Sub - 1) /\ y = Sub * z + r
    <2> HIDE DEF y
    <2> QED BY <1>2, Periods, Division
  <1>4. Congruent(w, q * Ms, MsPeriod) /\ w \in Int /\ q * Ms \in Int
    <2> HIDE DEF q
    <2>1. q % Wrap32 \in Int BY <1>1, Periods, Division
    <2> DEFINE u == q % Wrap32
    <2>2. u * Ms \in Int
      <3> HIDE DEF u
      <3> QED BY <2>1, Periods, Products DEF u
    <2>3. Congruent((q % Wrap32) * Ms, q * Ms, MsPeriod) BY <1>1, SecondsWrap
    <2>4. q * Ms \in Int BY <1>1, Periods, Products
    <2> QED BY <2>2, <2>3, <2>4
  <1>5. y = f * Ms OBVIOUS
  <1> HIDE DEF q, f, y, z, r, w
  <1>6. Congruent(w + z, q * Ms + z, MsPeriod)
    BY <1>3, <1>4, Periods, CongruentSame, CongruentSum
  <1>7. Congruent(Sub * (w + z), Sub * (q * Ms + z), Period)
    <2> DEFINE a == w + z
               b == q * Ms + z
    <2>1. a \in Int /\ b \in Int BY <1>3, <1>4
    <2>2. Congruent(a, b, MsPeriod) BY <1>6
    <2> HIDE DEF a, b
    <2>3. Congruent(Sub * a, Sub * b, Sub * MsPeriod)
      BY <2>1, <2>2, Periods, CongruentTimes
    <2> QED BY <2>3 DEF a, b, Period
  <1>8. Sub * (q * Ms + z) = Ms * v - r
    <2>1. Sub * (q * Ms + z) = Ms * (Sub * q) + Sub * z BY <1>1, <1>3, Periods, Z3
    <2>2. Ms * (Sub * q + f) = Ms * (Sub * q) + f * Ms BY <1>1, Periods, Z3
    <2>3. Ms * (Sub * q) \in Int /\ f * Ms \in Int /\ Sub * z \in Int
      BY <1>1, <1>3, Periods, Z3
    <2>4. Ms * v = Ms * (Sub * q) + (Sub * z + r) BY <1>1, <1>3, <1>5, <2>2
    <2> DEFINE a == Ms * (Sub * q)
               b == Sub * z
               c == Ms * v
    <2>5. a \in Int /\ b \in Int /\ c = a + (b + r) BY <2>3, <2>4
    <2> HIDE DEF a, b, c
    <2>6. a + b = c - r BY <1>3, <2>5
    <2> QED BY <2>1, <2>6 DEF a, b, c
  <1>9. w + z \in Int BY <1>3, <1>4
  <1> QED BY <1>3, <1>7, <1>8, <1>9 DEF w, z, q, f, y

LEMMA TimesThree ==
  ASSUME NEW x \in Int, NEW y \in Int, NEW z \in Int, NEW n \in Int
  PROVE  /\ (x - y - z) * n = x * n - y * n - z * n
         /\ (x + y + z) * n = x * n + y * n + z * n
  <1>1. (x - y - z) * n = x * n - y * n - z * n BY Z3
  <1>2. (x + y + z) * n = x * n + y * n + z * n BY Z3
  <1> QED BY <1>1, <1>2, Zenon

\* SysTimeSub() and SysTimeAdd(), whatever is borrowed and carried.
LEMMA SubIsDifference ==
  ASSUME NEW a, NEW b, a.Seconds \in Int, a.SubSeconds \in Int,
         b.Seconds \in Int, b.SubSeconds \in Int
  PROVE  /\ ToMs(SysTimeSub(a, b)) \in Int
         /\ Congruent(ToMs(SysTimeSub(a, b)), ToMs(a) - ToMs(b), MsPeriod)
  <1> DEFINE c == IF a.SubSeconds < b.SubSeconds THEN 1 ELSE 0
             x1 == a.Seconds
             x2 == b.Seconds
             m1 == a.SubSeconds
             m2 == b.SubSeconds
             s == x1 - x2 - c
             m == m1 - m2 + c * Ms
             w == (s % Wrap32) * Ms
  <1>1. SysTimeSub(a, b).Seconds = s % Wrap32 /\ SysTimeSub(a, b).SubSeconds = m
    BY DEF SysTimeSub
  <1>2. ToMs(SysTimeSub(a, b)) = w + m BY <1>1 DEF ToMs
  <1>3. /\ x1 \in Int /\ x2 \in Int /\ m1 \in Int /\ m2 \in Int /\ c \in Int OBVIOUS
  <1> HIDE DEF x1, x2, m1, m2, c
  <1>4. c * Ms \in Int BY <1>3, Periods, Products
  <1>5. s \in Int /\ m \in Int BY <1>3, <1>4
  <1>6. Congruent(w, s * Ms, MsPeriod) /\ w \in Int /\ s * Ms \in Int
    <2> HIDE DEF s
    <2>1. Congruent((s % Wrap32) * Ms, s * Ms, MsPeriod) BY <1>5, SecondsWrap
    <2>2. s % Wrap32 \in Int BY <1>5, Periods, Division
    <2> DEFINE u == s % Wrap32
    <2>3. u * Ms \in Int
      <3> HIDE DEF u
      <3> QED BY <2>2, Periods, Products DEF u
    <2>4. s * Ms \in Int BY <1>5, Periods, Products
    <2> QED BY <2>1, <2>3, <2>4
  <1>7. s * Ms = x1 * Ms - x2 * Ms - c * Ms /\ x1 * Ms \in Int /\ x2 * Ms \in Int
    <2>2. Ms \in Int BY Periods
    <2>3. (x1 - x2 - c) * Ms = x1 * Ms - x2 * Ms - c * Ms
      <3> HIDE DEF s, m, w
      <3>1. /\ x1 \in Int /\ x2 \in Int /\ c \in Int /\ Ms \in Int BY <1>3, <2>2, Zenon
      <3> QED BY <3>1, TimesThree
    <2>4. x1 * Ms \in Int /\ x2 * Ms \in Int BY <1>3, <2>2, Products
    <2> QED BY <2>3, <2>4, Zenon
  <1>8. s * Ms + m = ToMs(a) - ToMs(b)
    <2>1. ToMs(a) = x1 * Ms + m1 /\ ToMs(b) = x2 * Ms + m2 BY DEF ToMs, x1, x2, m1, m2
    <2>2. m = m1 - m2 + c * Ms OBVIOUS
    <2> DEFINE x == x1 * Ms
               y == x2 * Ms
               z == c * Ms
               t == s * Ms
    <2>3. t = x - y - z /\ x \in Int /\ y \in Int /\ z \in Int BY <1>4, <1>7
    <2> HIDE DEF x, y, z, t, m
    <2>4. m = m1 - m2 + z BY <2>2 DEF z
    <2>5. t + m = (x + m1) - (y + m2) BY <1>3, <2>3, <2>4
    <2> QED BY <2>1, <2>5 DEF x, y, t
  <1> HIDE DEF s, m, w
  <1>9. Congruent(w + m, s * Ms + m, MsPeriod)
    BY <1>5, <1>6, Periods, CongruentSame, CongruentSum
  <1>10. w + m \in Int BY <1>5, <1>6
  <1> QED BY <1>2, <1>8, <1>9, <1>10

LEMMA AddIsSum ==
  ASSUME NEW a, NEW b, a.Seconds \in Int, a.SubSeconds \in Int,
         b.Seconds \in Int, b.SubSeconds \in Int
  PROVE  /\ ToMs(SysTimeAdd(a, b)) \in Int
         /\ Congruent(ToMs(SysTimeAdd(a, b)), ToMs(a) + ToMs(b), MsPeriod)
  <1> DEFINE c == IF a.SubSeconds + b.SubSeconds >= Ms THEN 1 ELSE 0
             x1 == a.Seconds
             x2 == b.Seconds
             m1 == a.SubSeconds
             m2 == b.SubSeconds
             s == x1 + x2 + c
             m == m1 + m2 - c * Ms
             w == (s % Wrap32) * Ms
  <1>1. SysTimeAdd(a, b).Seconds = s % Wrap32 /\ SysTimeAdd(a, b).SubSeconds = m
    BY DEF SysTimeAdd
  <1>2. ToMs(SysTimeAdd(a, b)) = w + m BY <1>1 DEF ToMs
  <1>3. /\ x1 \in Int /\ x2 \in Int /\ m1 \in Int /\ m2 \in Int /\ c \in Int OBVIOUS
  <1> HIDE DEF x1, x2, m1, m2, c
  <1>4. c * Ms \in Int BY <1>3, Periods, Products
  <1>5. s \in Int /\ m \in Int BY <1>3, <1>4
  <1>6. Congruent(w, s * Ms, MsPeriod) /\ w \in Int /\ s * Ms \in Int
    <2> HIDE DEF s
    <2>1. Congruent((s % Wrap32) * Ms, s * Ms, MsPeriod) BY <1>5, SecondsWrap
    <2>2. s % Wrap32 \in Int BY <1>5, Periods, Division
    <2> DEFINE u == s % Wrap32
    <2>3. u * Ms \in Int
      <3> HIDE DEF u
      <3> QED BY <2>2, Periods, Products DEF u
    <2>4. s * Ms \in Int BY <1>5, Periods, Products
    <2> QED BY <2>1, <2>3, <2>4
  <1>7. s * Ms = x1 * Ms + x2 * Ms + c * Ms /\ x1 * Ms \in Int /\ x2 * Ms \in Int
    <2>2. Ms \in Int BY Periods
    <2>3. (x1 + x2 + c) * Ms = x1 * Ms + x2 * Ms + c * Ms
      <3> HIDE DEF s, m, w
      <3>1. /\ x1 \in Int /\ x2 \in Int /\ c \in Int /\ Ms \in Int BY <1>3, <2>2, Zenon
      <3> QED BY <3>1, TimesThree
    <2>4. x1 * Ms \in Int /\ x2 * Ms \in Int BY <1>3, <2>2, Products
    <2> QED BY <2>3, <2>4, Zenon
  <1>8. s * Ms + m = ToMs(a) + ToMs(b)
    <2>1. ToMs(a) = x1 * Ms + m1 /\ ToMs(b) = x2 * Ms + m2 BY DEF ToMs, x1, x2, m1, m2
    <2>2. m = m1 + m2 - c * Ms OBVIOUS
    <2> DEFINE x == x1 * Ms
               y == x2 * Ms
               z == c * Ms
               t == s * Ms
    <2>3. t = x + y + z /\ x \in Int /\ y \in Int /\ z \in Int BY <1>4, <1>7
    <2> HIDE DEF x, y, z, t, m
    <2>4. m = m1 + m2 - z BY <2>2 DEF z
    <2>5. t + m = (x + m1) + (y + m2) BY <1>3, <2>3, <2>4
    <2> QED BY <2>1, <2>5 DEF x, y, t
  <1> HIDE DEF s, m, w
  <1>9. Congruent(w + m, s * Ms + m, MsPeriod)
    BY <1>5, <1>6, Periods, CongruentSame, CongruentSum
  <1>10. w + m \in Int BY <1>5, <1>6
  <1> QED BY <1>2, <1>8, <1>9, <1>10

LEMMA FromMsIsMs ==
  ASSUME NEW ms \in Nat
  PROVE  /\ ToMs(FromMs(ms)) \in Int /\ Congruent(ToMs(FromMs(ms)), ms, MsPeriod)
         /\ FromMs(ms).Seconds \in Int /\ FromMs(ms).SubSeconds \in Int
  <1> DEFINE q == ms \div Ms
             f == ms % Ms
             w == (q % Wrap32) * Ms
  <1>1. FromMs(ms) = [Seconds |-> q % Wrap32, SubSeconds |-> f]
    BY EpochIn, DeltaIs
  <1>2. q \in Int /\ f \in Int /\ ms = Ms * q + f BY Periods, Division
  <1>3. ToMs(FromMs(ms)) = w + f BY <1>1 DEF ToMs
  <1>4. q % Wrap32 \in Int
    <2> HIDE DEF q
    <2> QED BY <1>2, Periods, Division
  <1>5. FromMs(ms).Seconds \in Int /\ FromMs(ms).SubSeconds \in Int BY <1>1, <1>2, <1>4
  <1>6. Congruent(w, q * Ms, MsPeriod) /\ w \in Int /\ q * Ms \in Int
    <2> HIDE DEF q
    <2>1. Congruent((q % Wrap32) * Ms, q * Ms, MsPeriod) BY <1>2, SecondsWrap
    <2> DEFINE u == q % Wrap32
    <2>3. u * Ms \in Int
      <3> HIDE DEF u
      <3> QED BY <1>4, Periods, Products DEF u
    <2>4. q * Ms \in Int BY <1>2, Periods, Products
    <2> QED BY <2>1, <2>3, <2>4
  <1> HIDE DEF q, f, w
  <1>7. Congruent(w + f, q * Ms + f, MsPeriod)
    BY <1>2, <1>6, Periods, CongruentSame, CongruentSum
  <1>8. q * Ms + f = ms
    <2>1. q * Ms = Ms * q BY <1>2, Periods, Products
    <2> QED BY <1>2, <2>1
  <1>9. w + f \in Int BY <1>2, <1>6
  <1> QED BY <1>3, <1>5, <1>7, <1>8, <1>9

\* What SysTimeGet() and SysTimeSet() take the calendar for.
LEMMA CalendarInMs ==
  ASSUME NEW r \in Readings
  PROVE  /\ ToMs(CalendarTime(r)) \in Int
         /\ \E x \in 0..(Sub - 1) :
              Congruent(Sub * ToMs(CalendarTime(r)), Ms * CalendarValue(r) - x, Period)
  <1> DEFINE v == CalendarValue(r)
             ms == ((v \div Sub) % Wrap32) * Ms + ((v % Sub) * Ms) \div Sub
  <1>1. v \in Int BY ValueIsInt
  <1>2. ToMs(CalendarTime(r)) = ms BY DEF ToMs, CalendarTime
  <1> HIDE DEF v
  <1>3. ms \in Int /\ \E x \in 0..(Sub - 1) : Congruent(Sub * ms, Ms * v - x, Period)
    BY <1>1, TicksInMs
  <1> HIDE DEF ms
  <1> QED BY <1>2, <1>3 DEF v

-----------------------------------------------------------------------------
(* The time of day.                                                        *)

\* The registers count one by one: a tick is one tick more of the instant, as long
\* as the year does not start over.
LEMMA TickCounts ==
  ASSUME CalendarOK, Tick, Instant + 1 < CenturyDays * DayTicks
  PROVE  Instant' = Instant + 1
  <1> DEFINE t0 == TicksOfDay(TR, SSR)
             t == t0 + 1
             w == t % DayTicks
             n == DayNumber(DR)
             secs == TR.Seconds + SecPerMin * (TR.Minutes + MinPerHour * TR.Hours)
  <1>1. DR \in Dates /\ TR \in Times /\ SSR \in 0..(Sub - 1) BY DEF CalendarOK
  <1>2. t0 \in Nat /\ t0 < DayTicks BY <1>1, TimeInDay
  <1>3. n \in 0..(CenturyDays - 1) BY <1>1, DayNumberRange
  <1>4. /\ TR' = TimeOf(w) /\ DR' = (IF t = DayTicks THEN NextDate(DR) ELSE DR)
        /\ SSR' = (IF SSR = 0 THEN Sub - 1 ELSE SSR - 1)
    BY DEF Tick
  <1>5. Instant = n * DayTicks + t0 BY DEF Instant
  <1>6. Instant' = DayNumber(DR') * DayTicks + TicksOfDay(TR', SSR') BY DEF Instant
  <1>7. secs \in Nat /\ t0 = Sub * secs + (Sub - 1 - SSR)
    BY <1>1, TimesAreClock, SecondsAreNat DEF TicksOfDay
  <1> HIDE DEF t0, n, secs
  <1>8. t % Sub = IF SSR = 0 THEN 0 ELSE Sub - SSR
    <2>1. Sub * (secs + 1) = Sub * secs + Sub /\ Sub * secs \in Int
      BY <1>7, UnitsArePositive, Z3
    <2>2. t \in Int /\ secs \in Int /\ secs + 1 \in Int BY <1>2, <1>7
    <2>3. CASE SSR = 0
      <3>1. t = Sub * (secs + 1) + 0 BY <1>7, <2>1, <2>3, UnitsArePositive
      <3>2. 0 \in 0..(Sub - 1) BY UnitsArePositive
      <3> HIDE DEF t
      <3>3. t % Sub = 0 BY <2>2, <3>1, <3>2, UnitsArePositive, DivisionUnique
      <3> QED BY <2>3, <3>3
    <2>4. CASE SSR # 0
      <3>1. t = Sub * secs + (Sub - SSR) BY <1>1, <1>7, <2>1, UnitsArePositive
      <3>2. Sub - SSR \in 0..(Sub - 1) BY <1>1, <2>4, UnitsArePositive
      <3> HIDE DEF t
      <3>3. t % Sub = Sub - SSR BY <2>2, <3>1, <3>2, UnitsArePositive, DivisionUnique
      <3> QED BY <2>4, <3>3
    <2> QED BY <2>3, <2>4
  <1>9. SSR' = (Sub - 1) - (t % Sub) BY <1>1, <1>4, <1>8, UnitsArePositive
  <1>10. CASE t # DayTicks
    <2>1. t \in 0..(DayTicks - 1) BY <1>2, <1>10, DayIs
    <2>2. w = t
      <3> HIDE DEF t
      <3> QED BY <2>1, DayIs
    <2>3. TicksOfDay(TR', SSR') = t
      <3>1. t \in Nat BY <2>1
      <3> HIDE DEF t, w
      <3> QED BY <1>4, <1>9, <2>2, <3>1, TicksOfTimeOf
    <2>4. Instant' = n * DayTicks + t BY <1>4, <1>6, <1>10, <2>3 DEF n
    <2>5. n * DayTicks \in Int BY <1>3, DayIs, CenturyIsPositive, Products
    <2> QED BY <1>2, <1>5, <2>4, <2>5
  <1>11. CASE t = DayTicks
    <2>1. w = 0
      <3> HIDE DEF t
      <3> QED BY <1>11, DayIs
    <2>2. t % Sub = 0
      <3>1. t = Sub * SecDay + 0 /\ SecDay \in Int /\ t \in Int BY <1>11, DayIs
      <3>2. 0 \in 0..(Sub - 1) BY UnitsArePositive
      <3> HIDE DEF t
      <3> QED BY <3>1, <3>2, UnitsArePositive, DivisionUnique
    <2>3. TicksOfDay(TR', SSR') = 0
      <3>1. 0 % Sub = 0 BY UnitsArePositive
      <3>2. TR' = TimeOf(0) /\ SSR' = (Sub - 1) - (0 % Sub)
        BY <1>4, <1>9, <2>1, <2>2, <3>1
      <3> QED BY <3>2, TicksOfTimeOf
    <2>4. DayNumber(DR') = (n + 1) % CenturyDays
      BY <1>1, <1>4, <1>11, DayAfterDay DEF n
    <2>5. (n + 1) * DayTicks = n * DayTicks + DayTicks /\ n * DayTicks \in Int
      <3>1. n \in Int /\ DayTicks \in Int BY <1>3, DayIs, CenturyIsPositive
      <3> QED BY <3>1, Z3
    <2>6. Instant + 1 = (n + 1) * DayTicks BY <1>2, <1>5, <1>11, <2>5, DayIs
    <2>7. n + 1 < CenturyDays
      <3>1. ASSUME NEW a \in Nat, NEW b \in Nat, NEW d \in Nat \ {0}, a * d < b * d
            PROVE  a < b
        BY <3>1, Z3
      <3>2. n + 1 \in Nat BY <1>3, CenturyIsPositive
      <3> DEFINE m == n + 1
      <3>3. m * DayTicks < CenturyDays * DayTicks BY <2>6
      <3>4. m \in Nat BY <3>2
      <3> HIDE DEF m
      <3>5. m < CenturyDays BY <3>1, <3>3, <3>4, DayIs, CenturyIsPositive
      <3> QED BY <3>5 DEF m
    <2>8. (n + 1) % CenturyDays = n + 1
      <3>1. ASSUME NEW a \in Nat, NEW b \in Nat \ {0}, a < b PROVE a % b = a BY <3>1
      <3>2. n + 1 \in Nat BY <1>3, CenturyIsPositive
      <3> QED BY <2>7, <3>1, <3>2, CenturyIsPositive
    <2>9. Instant' = (n + 1) * DayTicks + 0 BY <1>6, <2>3, <2>4, <2>8
    <2>10. (n + 1) * DayTicks \in Int BY <2>5, DayIs
    <2> QED BY <2>6, <2>9, <2>10
  <1> QED BY <1>10, <1>11

\* The calendar does not come to the end of its hundred years.
CenturyInv == Instant + (MaxTicks - elapsed) < CenturyDays * DayTicks

\* What a step does to the time: a tick, or the loss of part of a second.
Ticks == Tick /\ Instant' = Instant + 1 /\ elapsed' = elapsed + 1
Loses == RtcInit /\ elapsed' = elapsed /\ \E k \in 0..(Sub - 1) : Instant' = Instant - k
Stands == ~RtcInit /\ Instant' = Instant /\ elapsed' = elapsed

LEMMA InstantSteps ==
  ASSUME TypeInv, CenturyInv, [Next]_vars
  PROVE  /\ Instant \in Nat /\ Instant' \in Nat /\ elapsed \in 0..MaxTicks
         /\ Ticks \/ Loses \/ Stands
  <1>1. /\ DR \in Dates /\ TR \in Times /\ SSR \in 0..(Sub - 1)
        /\ DR' \in Dates /\ TR' \in Times /\ SSR' \in 0..(Sub - 1)
    BY CalendarStays DEF TypeInv, CalendarOK
  <1>2. Instant \in Nat BY <1>1, InstantIsNat
  <1>3. Instant' \in Nat
    <2> DEFINE n == DayNumber(DR')
               t == TicksOfDay(TR', SSR')
    <2>1. n \in Nat BY <1>1, DayNumberRange, CenturyIsPositive
    <2>2. t \in Nat BY <1>1, TimeInDay
    <2>3. Instant' = n * DayTicks + t BY DEF Instant
    <2> HIDE DEF n, t
    <2>4. n * DayTicks \in Nat BY <2>1, DayIs, Z3
    <2> QED BY <2>2, <2>3, <2>4
  <1>4. elapsed \in 0..MaxTicks /\ MaxTicks \in Nat
    BY RtcAssumption DEF TypeInv, CountOK, RtcAssumption
  <1>5. CASE Tick
    <2>1. elapsed < MaxTicks /\ elapsed' = elapsed + 1 BY <1>5 DEF Tick
    <2> DEFINE i == Instant
               end == CenturyDays * DayTicks
    <2>2. i \in Nat /\ i + (MaxTicks - elapsed) < end BY <1>2 DEF CenturyInv
    <2>3. end \in Int BY CenturyIsPositive, DayIs, Products
    <2> HIDE DEF i, end
    <2>4. i + 1 < end BY <1>4, <2>1, <2>2, <2>3
    <2>5. Instant' = Instant + 1 BY <1>5, <2>4, TickCounts DEF TypeInv, i, end
    <2> QED BY <1>2, <1>3, <1>4, <1>5, <2>1, <2>5 DEF Ticks
  <1>6. CASE RtcInit
    <2>1. DR' = DR /\ TR' = TR /\ SSR' \in {SSR, Sub - 1} /\ elapsed' = elapsed
      BY <1>6 DEF RtcInit
    <2> DEFINE secs == TR.Seconds + SecPerMin * (TR.Minutes + MinPerHour * TR.Hours)
               a == DayNumber(DR) * DayTicks
               b == Sub * secs
               k == SSR' - SSR
    <2>2. Instant = a + (b + (Sub - 1 - SSR)) BY DEF Instant, TicksOfDay
    <2>3. Instant' = a + (b + (Sub - 1 - SSR')) BY <2>1 DEF Instant, TicksOfDay
    <2>4. a \in Int
      <3>1. DayNumber(DR) \in Int BY <1>1, DayNumberRange, CenturyIsPositive
      <3> QED BY <3>1, DayIs, Products
    <2>5. b \in Int
      <3>1. secs \in Int BY <1>1, TimesAreClock, SecondsAreNat
      <3> HIDE DEF secs
      <3> QED BY <3>1, UnitsArePositive, Products
    <2>6. k \in 0..(Sub - 1)
      <3>1. SSR' = SSR \/ SSR' = Sub - 1 BY <2>1
      <3>2. SSR \in 0..(Sub - 1) BY <1>1
      <3> QED BY <3>1, <3>2, UnitsArePositive
    <2> HIDE DEF a, b
    <2>7. Instant' = Instant - k BY <1>1, <2>2, <2>3, <2>4, <2>5, UnitsArePositive
    <2> HIDE DEF k
    <2>8. Loses BY <1>6, <2>1, <2>6, <2>7 DEF Loses
    <2> QED BY <1>2, <1>3, <1>4, <2>8
  <1>7. CASE calendar' = calendar /\ ~Tick /\ ~RtcInit
    <2>1. DR' = DR /\ TR' = TR /\ SSR' = SSR BY <1>7 DEF calendar
    <2>2. Instant' = Instant BY <2>1 DEF Instant
    <2>3. elapsed' = elapsed
      <3>1. ASSUME NEW p \in Procs, Read(p) \/ RtcSetTimerContext(p)
            PROVE  elapsed' = elapsed
        BY <3>1 DEF Read, ReadFirst, ReadDate, ReadSub, ReadTime, ReadAgain,
                    RtcSetTimerContext, Step, Goto
      <3>2. CASE Main
        BY <1>7, <3>2 DEF Main, RtcInitAlarm, GetUTCTime, SysTimeGet, SetUTCTime,
                   RtcBkupWrite0, RtcBkupWrite1, CopyContext, Copied, RtcStopAlarm,
                   SetAlarm, Call, Step, Goto
      <3>3. CASE Reset \/ RTC_Alarm_IRQHandler \/ UNCHANGED vars
        BY <3>3 DEF Reset, RTC_Alarm_IRQHandler, vars, Step, Goto
      <3> QED BY <1>7, <3>1, <3>2, <3>3 DEF Next
    <2> QED BY <1>2, <1>3, <1>4, <1>7, <2>2, <2>3 DEF Stands
  <1> QED BY <1>2, <1>3, <1>4, <1>5, <1>6, <1>7, OnlyTheseTurnTheCalendar

LEMMA CenturyHolds == Init => CenturyInv
  <1> SUFFICES ASSUME Init PROVE CenturyInv OBVIOUS
  <1> DEFINE n == DayNumber(DR)
             t == TicksOfDay(TR, SSR)
             end == CenturyDays * DayTicks
  <1>1. CalendarOK BY InitTypes DEF TypeInv
  <1>2. t \in Nat /\ t < DayTicks BY <1>1, TimeInDay DEF CalendarOK
  <1>3. n \in Nat BY <1>1, DayNumberRange, CenturyIsPositive DEF CalendarOK
  <1>4. DR \in Starts /\ elapsed = 0 BY DEF Init
  <1>5. (n + 1) * DayTicks + MaxTicks < end BY <1>4, TimeAssumption DEF TimeAssumption
  <1>6. Instant = n * DayTicks + t BY DEF Instant
  <1>7. end \in Int BY CenturyIsPositive, DayIs, Products
  <1> HIDE DEF n, t, end
  <1>8. (n + 1) * DayTicks = n * DayTicks + DayTicks /\ n * DayTicks \in Nat
    BY <1>3, DayIs, Z3
  <1>9. MaxTicks \in Nat BY RtcAssumption DEF RtcAssumption
  <1>10. Instant + (MaxTicks - elapsed) < end
    BY <1>2, <1>4, <1>5, <1>6, <1>7, <1>8, <1>9, DayIs
  <1> QED BY <1>10 DEF CenturyInv, end

LEMMA CenturyStays == ASSUME TypeInv, CenturyInv, [Next]_vars PROVE CenturyInv'
  <1> DEFINE end == CenturyDays * DayTicks
  <1>1. Instant \in Nat /\ Instant' \in Nat /\ elapsed \in 0..MaxTicks
        /\ (Ticks \/ Loses \/ Stands)
    BY InstantSteps
  <1>2. MaxTicks \in Nat BY RtcAssumption DEF RtcAssumption
  <1>3. Instant + (MaxTicks - elapsed) < end /\ end \in Int
    BY CenturyIsPositive, DayIs, Products DEF CenturyInv
  <1> HIDE DEF end
  <1>4. CASE Ticks
    <2>1. Instant' = Instant + 1 /\ elapsed' = elapsed + 1 BY <1>4 DEF Ticks
    <2>2. Instant' + (MaxTicks - elapsed') < end BY <1>1, <1>2, <1>3, <2>1
    <2> QED BY <2>2 DEF CenturyInv, end
  <1>5. CASE Loses
    <2>1. PICK k \in 0..(Sub - 1) : Instant' = Instant - k BY <1>5 DEF Loses
    <2>2. elapsed' = elapsed BY <1>5 DEF Loses
    <2>3. Instant' + (MaxTicks - elapsed') < end
      BY <1>1, <1>2, <1>3, <2>1, <2>2, UnitsArePositive
    <2> QED BY <2>3 DEF CenturyInv, end
  <1>6. CASE Stands
    <2>1. Instant' + (MaxTicks - elapsed') < end BY <1>3, <1>6 DEF Stands
    <2> QED BY <2>1 DEF CenturyInv, end
  <1> QED BY <1>1, <1>4, <1>5, <1>6

\* What main has read is still the instant at which its reading ended; and between
\* the two writes the first is that of the time being set.
WriteInv ==
  /\ pc["main"] \in {"read", "bkup1"} =>
       Instant = CalendarValue(rd["main"].reading) + (elapsed - at)
  /\ pc["main"] = "bkup1" => /\ BKP[1] = Delta.Seconds /\ setTo = arg /\ setAt = at
                             /\ starts = 0 /\ half

\* Main holds a reading: it has just made it, or is about to store the time, or
\* stands still.
Holds == /\ pc'["main"] = pc["main"] /\ rd'["main"] = rd["main"] /\ at' = at
         /\ arg' = arg /\ BKP' = BKP /\ setTo' = setTo /\ setAt' = setAt
         /\ starts' = starts /\ half' = half /\ ~RtcInit

LEMMA MainHolds ==
  ASSUME TypeInv, [Next]_vars, pc'["main"] \in {"read", "bkup1"}
  PROVE  ReadAgain("main") \/ RtcBkupWrite0 \/ Holds
  <1>0. /\ pc \in [Procs -> PCs] /\ "main" \in Procs /\ "irq" \in Procs
        /\ rd \in [Procs -> [first : 0..(Sub - 1), reading : Readings]]
    BY DEF TypeInv, ProgramOK, Procs
  <1>1. ~(RtcInit \/ RtcInitAlarm \/ GetUTCTime \/ SysTimeGet
          \/ (\E ms \in Utcs : SetUTCTime(ms)) \/ RtcBkupWrite1
          \/ (\E t \in Timeouts : CopyContext(t)) \/ Copied \/ RtcStopAlarm \/ SetAlarm)
    BY <1>0 DEF RtcInit, RtcInitAlarm, GetUTCTime, SysTimeGet, SetUTCTime, RtcBkupWrite1,
                CopyContext, Copied, RtcStopAlarm, SetAlarm, Call, Step, Goto
  <1>2. ~Reset BY DEF Reset
  <1>3. CASE Tick \/ RTC_Alarm_IRQHandler \/ UNCHANGED vars
    <2>1. pc'["main"] = pc["main"]
      BY <1>0, <1>3 DEF Tick, RTC_Alarm_IRQHandler, Step, Goto, vars, program
    <2>2. rd' = rd /\ at' = at /\ arg' = arg /\ BKP' = BKP
      BY <1>3 DEF Tick, RTC_Alarm_IRQHandler, vars, program, history
    <2>3. setTo' = setTo /\ setAt' = setAt /\ starts' = starts /\ half' = half
      BY <1>3 DEF Tick, RTC_Alarm_IRQHandler, vars, history
    <2> QED BY <1>1, <2>1, <2>2, <2>3 DEF Holds
  <1>4. ASSUME NEW p \in Procs, Read(p) \/ RtcSetTimerContext(p), p # "main" PROVE Holds
    <2>1. pc'["main"] = pc["main"]
      BY <1>0, <1>4 DEF Read, ReadFirst, ReadDate, ReadSub, ReadTime, ReadAgain,
                        RtcSetTimerContext, Step, Goto
    <2>2. rd'["main"] = rd["main"]
      BY <1>0, <1>4 DEF Read, ReadFirst, ReadDate, ReadSub, ReadTime, ReadAgain,
                        RtcSetTimerContext
    <2>3. at' = at
      BY <1>4 DEF Read, ReadFirst, ReadDate, ReadSub, ReadTime, ReadAgain, Reads, history,
                  RtcSetTimerContext
    <2>4. /\ arg' = arg /\ BKP' = BKP /\ setTo' = setTo /\ setAt' = setAt
          /\ starts' = starts /\ half' = half
      BY <1>4 DEF Read, ReadFirst, ReadDate, ReadSub, ReadTime, ReadAgain, Reads, history,
                  RtcSetTimerContext
    <2> QED BY <1>1, <2>1, <2>2, <2>3, <2>4 DEF Holds
  <1>5. ASSUME Read("main") \/ RtcSetTimerContext("main") PROVE ReadAgain("main")
    BY <1>0, <1>5 DEF Read, ReadFirst, ReadDate, ReadSub, ReadTime, RtcSetTimerContext,
                      Step, Goto
  <1> QED BY <1>1, <1>2, <1>3, <1>4, <1>5 DEF Next, Main

LEMMA WriteHolds == Init => WriteInv
  BY DEF Init, WriteInv, Procs

LEMMA WriteStays ==
  ASSUME TypeInv, ReadInv, CenturyInv, WriteInv, [Next]_vars PROVE WriteInv'
  <1>0. /\ Instant \in Nat /\ Instant' \in Nat /\ elapsed \in 0..MaxTicks
        /\ (Ticks \/ Loses \/ Stands)
    BY InstantSteps
  <1>1. CASE pc'["main"] \notin {"read", "bkup1"} BY <1>1 DEF WriteInv
  <1>2. CASE ReadAgain("main") /\ pc'["main"] \in {"read", "bkup1"}
    <2>1. pc \in [Procs -> PCs] /\ "main" \in Procs
      BY DEF TypeInv, ProgramOK, Procs
    <2>2. pc'["main"] = "read" /\ rd' = rd /\ UNCHANGED <<calendar, elapsed>>
      BY <1>2, <2>1 DEF ReadAgain, Step, Goto
    <2>3. Same("main") BY <1>2, <2>1, <2>2 DEF ReadAgain, Step, Goto
    <2>4. at' = elapsed BY <1>2, <2>3 DEF ReadAgain
    <2>5. CalendarValue(rd["main"].reading) = Instant
      BY <1>2, <2>1, <2>2, EndIsInstant
    <2>6. DR' = DR /\ TR' = TR /\ SSR' = SSR /\ elapsed' = elapsed
      BY <2>2 DEF calendar
    <2>7. Instant' = Instant BY <2>6 DEF Instant
    <2>8. CalendarValue(rd'["main"].reading) = Instant BY <2>2, <2>5
    <2>9. elapsed' - at' = 0
      <3>1. elapsed \in Int BY <1>0
      <3> QED BY <2>4, <2>6, <3>1
    <2> DEFINE v == CalendarValue(rd'["main"].reading)
               i == Instant'
    <2>10. i = v /\ i \in Int BY <1>0, <2>7, <2>8
    <2> HIDE DEF v, i
    <2>11. i = v + (elapsed' - at') BY <2>9, <2>10
    <2> QED BY <2>2, <2>11 DEF WriteInv, v, i
  <1>3. CASE RtcBkupWrite0
    <2>1. pc \in [Procs -> PCs] /\ "main" \in Procs BY DEF TypeInv, ProgramOK, Procs
    <2>2. /\ pc["main"] = "read" /\ pc'["main"] = "bkup1" /\ rd' = rd /\ arg' = arg
          /\ at' = at /\ UNCHANGED <<calendar, elapsed>>
      BY <1>3, <2>1 DEF RtcBkupWrite0, Step, Goto
    <2>3. BKP \in (0..(Wrap32 - 1)) \X (0..(Ms - 1)) BY DEF TypeInv, BackupOK
    <2>4. BKP'[1] = Delta.Seconds BY <1>3, <2>3 DEF RtcBkupWrite0
    <2>5. Delta' = Delta BY <2>2 DEF Delta
    <2>6. setTo' = arg' /\ setAt' = at' /\ starts' = 0 /\ half'
      BY <1>3, <2>2 DEF RtcBkupWrite0
    <2>7. DR' = DR /\ TR' = TR /\ SSR' = SSR /\ elapsed' = elapsed
      BY <2>2 DEF calendar
    <2>8. Instant' = Instant BY <2>7 DEF Instant
    <2>9. Instant' = CalendarValue(rd'["main"].reading) + (elapsed' - at')
      BY <2>2, <2>7, <2>8 DEF WriteInv
    <2> QED BY <2>2, <2>4, <2>5, <2>6, <2>9 DEF WriteInv
  <1>4. CASE Holds /\ pc'["main"] \in {"read", "bkup1"}
    <2> DEFINE v == CalendarValue(rd["main"].reading)
    <2>1. v \in Int
      <3>1. rd["main"].reading \in Readings BY DEF TypeInv, ProgramOK, Procs
      <3> QED BY <3>1, ValueIsInt
    <2>2. at \in Int /\ elapsed \in Int BY DEF TypeInv, CountOK
    <2>3. Instant = v + (elapsed - at) BY <1>4 DEF WriteInv, Holds
    <2>4. CalendarValue(rd'["main"].reading) = v /\ at' = at BY <1>4 DEF Holds
    <2>5. Ticks \/ Stands BY <1>0, <1>4 DEF Holds, Loses
    <2> HIDE DEF v
    <2>6. Instant' = v + (elapsed' - at')
      BY <2>1, <2>2, <2>3, <2>4, <2>5 DEF Ticks, Stands
    <2>7. Delta' = Delta BY <1>4 DEF Delta, Holds
    <2>8. pc'["main"] = "bkup1" =>
            /\ BKP'[1] = Delta'.Seconds /\ setTo' = arg' /\ setAt' = at'
            /\ starts' = 0 /\ half'
      BY <1>4, <2>7 DEF WriteInv, Holds
    <2> QED BY <2>4, <2>6, <2>8 DEF WriteInv
  <1> QED BY <1>1, <1>2, <1>3, <1>4, MainHolds

\* By how much the time of day is ahead of what was set and has passed since, in
\* ticks times 1000, and how much of it a half-stored time can be.
Stored == BKP[1] * Ms + BKP[2]
Err == Sub * Stored + Ms * Instant - Sub * setTo - Ms * (elapsed - setAt)
Torn == IF half THEN Sub * (Ms - 1) ELSE 0
Within(x) == x >= -(starts * (Ms * (Sub - 1))) - Torn /\ x <= (Sub - 1) + Torn

KeptInv == \E x \in Int : Congruent(Err, x, Period) /\ Within(x)

LEMMA CongruentMinus ==
  ASSUME NEW a \in Int, NEW b \in Int, NEW r \in Int, NEW n \in Int,
         Congruent(a, b - r, n)
  PROVE  Congruent(b - a, r, n)
  <1>1. PICK k \in Int : a = b - r + k * n BY DEF Congruent
  <1>2. (-k) * n = -(k * n) /\ k * n \in Int /\ -k \in Int BY Z3
  <1>3. b - a = r + (-k) * n BY <1>1, <1>2
  <1> QED BY <1>2, <1>3, Zenon DEF Congruent

LEMMA KeptTypes ==
  ASSUME TypeInv
  PROVE  /\ Stored \in Int /\ Sub * Stored \in Int /\ Sub * setTo \in Int
         /\ Instant \in Nat /\ Ms * Instant \in Int
         /\ elapsed \in Int /\ setAt \in Int /\ at \in Int /\ Ms * (elapsed - setAt) \in Int
         /\ setTo \in Nat /\ arg \in Nat /\ starts \in Nat
         /\ BKP[1] \in 0..(Wrap32 - 1) /\ BKP[2] \in 0..(Ms - 1)
         /\ rd["main"].reading \in Readings
  <1>1. BKP[1] \in 0..(Wrap32 - 1) /\ BKP[2] \in 0..(Ms - 1)
    BY DEF TypeInv, BackupOK
  <1>2. Stored \in Int
    <2> DEFINE b == BKP[1]
    <2>1. b \in Int /\ BKP[2] \in Int BY <1>1
    <2> HIDE DEF b
    <2>2. b * Ms \in Int BY <2>1, Periods, Products
    <2> QED BY <2>1, <2>2 DEF Stored, b
  <1>3. elapsed \in Int /\ setAt \in Int /\ at \in Int /\ starts \in Nat
    BY DEF TypeInv, CountOK
  <1>4. setTo \in Nat /\ arg \in Nat BY DEF TypeInv, CallOK
  <1>5. Instant \in Nat BY InstantIsNat DEF TypeInv, CalendarOK
  <1>6. rd["main"].reading \in Readings BY DEF TypeInv, ProgramOK, Procs
  <1>7. Sub * Stored \in Int BY <1>2, Periods, Products
  <1>8. Sub * setTo \in Int BY <1>4, Periods, Products
  <1>9. Ms * Instant \in Int BY <1>5, Periods, Products
  <1>10. Ms * (elapsed - setAt) \in Int
    <2>1. elapsed - setAt \in Int BY <1>3
    <2> QED BY <2>1, Periods, Products
  <1> QED BY <1>1, <1>2, <1>3, <1>4, <1>5, <1>6, <1>7, <1>8, <1>9, <1>10

\* At first the time of day is the calendar's.
LEMMA KeptHolds == Init => KeptInv
  <1> SUFFICES ASSUME Init PROVE KeptInv OBVIOUS
  <1> DEFINE i == Instant
             ms == ((i \div Sub) % Wrap32) * Ms + ((i % Sub) * Ms) \div Sub
  <1>1. i \in Int BY InitTypes, KeptTypes
  <1>2. setTo = ms /\ BKP = <<0, 0>> /\ elapsed = 0 /\ setAt = 0 /\ starts = 0 /\ ~half
    BY DEF Init
  <1> HIDE DEF i
  <1>3. ms \in Int /\ \E r \in 0..(Sub - 1) : Congruent(Sub * ms, Ms * i - r, Period)
    BY <1>1, TicksInMs
  <1> HIDE DEF ms
  <1>4. PICK r \in 0..(Sub - 1) : Congruent(Sub * ms, Ms * i - r, Period) BY <1>3
  <1>5. Sub * ms \in Int /\ Ms * i \in Int BY <1>1, <1>3, Periods, Products
  <1>6. r \in Int /\ r >= 0 /\ r <= Sub - 1 BY <1>4, Periods
  <1>7. Congruent(Ms * i - Sub * ms, r, Period)
    BY <1>4, <1>5, <1>6, Periods, CongruentMinus
  <1>8. Err = Ms * i - Sub * ms
    <2>1. Stored = 0
      <3>1. 0 * Ms = 0 BY Periods, Z3
      <3> QED BY <1>2, <3>1 DEF Stored
    <2>2. Sub * 0 = 0 /\ Ms * 0 = 0 BY Periods, Z3
    <2>3. elapsed - setAt = 0 BY <1>2
    <2>4. Err = 0 + Ms * i - Sub * ms - 0 BY <1>2, <2>1, <2>2, <2>3 DEF Err, i
    <2> QED BY <1>5, <2>4
  <1>9. Within(r)
    <2>1. starts * (Ms * (Sub - 1)) = 0
      <3>1. Ms * (Sub - 1) \in Int BY Periods, Products
      <3> DEFINE z == Ms * (Sub - 1)
      <3> HIDE DEF z
      <3>2. 0 * z = 0 BY <3>1, Z3 DEF z
      <3> QED BY <1>2, <3>2 DEF z
    <2>2. Torn = 0 BY <1>2 DEF Torn
    <2> QED BY <1>6, <2>1, <2>2, Periods DEF Within
  <1> QED BY <1>6, <1>7, <1>8, <1>9 DEF KeptInv

\* The difference that is stored, for the time that is set and the calendar read.
LEMMA DeltaInMs ==
  ASSUME NEW ms \in Nat, NEW r \in Readings
  PROVE  LET d == ToMs(SysTimeSub(FromMs(ms), CalendarTime(r)))
         IN  /\ d \in Int
             /\ \E x \in 0..(Sub - 1) :
                  Congruent(Sub * d, Sub * ms - (Ms * CalendarValue(r) - x), Period)
  <1> DEFINE f == FromMs(ms)
             c == CalendarTime(r)
             d == ToMs(SysTimeSub(f, c))
             tf == ToMs(f)
             tc == ToMs(c)
             v == Ms * CalendarValue(r)
             p == Sub * MsPeriod
  <1>1. /\ f.Seconds \in Int /\ f.SubSeconds \in Int /\ tf \in Int
        /\ Congruent(tf, ms, MsPeriod)
    BY FromMsIsMs
  <1>2. c.Seconds \in Int /\ c.SubSeconds \in Int BY DeltaIs, Periods
  <1>3. tc \in Int /\ \E x \in 0..(Sub - 1) : Congruent(Sub * tc, v - x, Period)
    BY CalendarInMs
  <1>4. v \in Int
    <2>1. CalendarValue(r) \in Int BY ValueIsInt
    <2> QED BY <2>1, Periods, Products
  <1> HIDE DEF f, c
  <1>5. d \in Int /\ Congruent(d, tf - tc, MsPeriod) BY <1>1, <1>2, SubIsDifference
  <1> HIDE DEF d, tf, tc, v
  <1>6. PICK x \in 0..(Sub - 1) : Congruent(Sub * tc, v - x, Period) BY <1>3
  <1>7. x \in Int BY <1>6, Periods
  <1>8. tf - tc \in Int /\ ms \in Int /\ v - x \in Int BY <1>1, <1>3, <1>4, <1>7
  <1>9. Congruent(Sub * d, Sub * (tf - tc), p)
    BY <1>5, <1>8, Periods, CongruentTimes
  <1>10. Congruent(Sub * tf, Sub * ms, p) BY <1>1, <1>8, Periods, CongruentTimes
  <1>11. p = Period BY DEF Period
  <1> HIDE DEF p
  <1>12. /\ Sub * tf \in Int /\ Sub * tc \in Int /\ Sub * ms \in Int /\ Sub * d \in Int
         /\ Sub * (tf - tc) = Sub * tf - Sub * tc
    BY <1>1, <1>3, <1>5, <1>8, Periods, Z3
  <1> DEFINE a == Sub * tf
             b == Sub * tc
             m == Sub * ms
             e == v - x
  <1>13. Congruent(a, m, Period) /\ Congruent(b, e, Period) BY <1>6, <1>10, <1>11
  <1>14. a \in Int /\ b \in Int /\ m \in Int /\ e \in Int BY <1>8, <1>12
  <1> HIDE DEF a, b, m, e
  <1>15. Congruent(a - b, m - e, Period) BY <1>13, <1>14, Periods, CongruentSum
  <1>16. Congruent(Sub * d, a - b, Period) BY <1>9, <1>11, <1>12 DEF a, b
  <1>17. a - b \in Int /\ m - e \in Int BY <1>14
  <1>18. Congruent(Sub * d, m - e, Period)
    BY <1>12, <1>15, <1>16, <1>17, Periods, CongruentNext
  <1> QED BY <1>5, <1>6, <1>18 DEF m, e, v, d, f, c

\* The error once the seconds of the difference are stored, with m for the milliseconds.
LEMMA StoredHalf ==
  ASSUME NEW ms \in Nat, NEW r \in Readings, NEW m \in 0..(Ms - 1), NEW t \in Int
  PROVE  LET d == SysTimeSub(FromMs(ms), CalendarTime(r))
         IN  \E x \in 0..(Sub - 1) :
               Congruent(Sub * (d.Seconds * Ms + m) + Ms * (CalendarValue(r) + t)
                           - Sub * ms - Ms * t,
                         x + Sub * (m - d.SubSeconds), Period)
  <1> DEFINE d == SysTimeSub(FromMs(ms), CalendarTime(r))
             s == d.Seconds
             ss == d.SubSeconds
             v == CalendarValue(r)
             w == s * Ms
  <1>1. /\ ToMs(d) \in Int
        /\ \E x \in 0..(Sub - 1) : Congruent(Sub * ToMs(d), Sub * ms - (Ms * v - x), Period)
    BY DeltaInMs
  <1>2. s \in 0..(Wrap32 - 1) /\ ss \in 0..(Ms - 1) BY DeltaIs
  <1>3. v \in Int BY ValueIsInt
  <1>4. ToMs(d) = w + ss BY DEF ToMs
  <1>5. s \in Int /\ ss \in Int /\ m \in Int /\ Ms \in Int /\ Sub \in Int BY <1>2, Periods
  <1> HIDE DEF s, ss, v
  <1>6. w \in Int BY <1>5, Products
  <1> HIDE DEF w
  <1>7. PICK x \in 0..(Sub - 1) : Congruent(Sub * (w + ss), Sub * ms - (Ms * v - x), Period)
    BY <1>1, <1>4
  <1>8. x \in Int BY <1>7, Periods
  <1>9. PICK k \in Int : Sub * (w + ss) = Sub * ms - (Ms * v - x) + k * Period
    BY <1>7 DEF Congruent
  <1>10. /\ Sub * (w + ss) = Sub * w + Sub * ss /\ Sub * (w + m) = Sub * w + Sub * m
         /\ Sub * (m - ss) = Sub * m - Sub * ss /\ Ms * (v + t) = Ms * v + Ms * t
    <2>1. Sub * (w + ss) = Sub * w + Sub * ss BY <1>5, <1>6, Z3
    <2>2. Sub * (w + m) = Sub * w + Sub * m BY <1>5, <1>6, Z3
    <2>3. Sub * (m - ss) = Sub * m - Sub * ss BY <1>5, Z3
    <2>4. Ms * (v + t) = Ms * v + Ms * t BY <1>3, <1>5, Z3
    <2> QED BY <2>1, <2>2, <2>3, <2>4
  <1>11. /\ Sub * w \in Int /\ Sub * ss \in Int /\ Sub * m \in Int /\ Ms * v \in Int
         /\ Ms * t \in Int /\ Sub * ms \in Int /\ k * Period \in Int
    BY <1>3, <1>5, <1>6, Periods, Products
  <1>12. Sub * (w + m) + Ms * (v + t) - Sub * ms - Ms * t
           = (x + Sub * (m - ss)) + k * Period
    BY <1>8, <1>9, <1>10, <1>11
  <1>13. Congruent(Sub * (w + m) + Ms * (v + t) - Sub * ms - Ms * t,
                   x + Sub * (m - ss), Period)
    BY <1>12, Zenon DEF Congruent
  <1> QED BY <1>13 DEF w, v, s, ss

Kept == <<BKP, setTo, setAt, starts, half>>

LEMMA OnlyTheseSet ==
  ASSUME [Next]_vars PROVE RtcInit \/ RtcBkupWrite0 \/ RtcBkupWrite1 \/ Kept' = Kept
  <1>1. ASSUME NEW p \in Procs, Read(p) \/ RtcSetTimerContext(p) PROVE Kept' = Kept
    BY <1>1 DEF Read, ReadFirst, ReadDate, ReadSub, ReadTime, ReadAgain, Reads, history,
                RtcSetTimerContext, Kept
  <1>2. CASE Main
    BY <1>2 DEF Main, RtcInitAlarm, GetUTCTime, SysTimeGet, SetUTCTime, CopyContext, Copied,
                RtcStopAlarm, SetAlarm, Call, history, Kept
  <1>3. CASE Tick \/ Reset \/ RTC_Alarm_IRQHandler \/ UNCHANGED vars
    BY <1>3 DEF Tick, Reset, RTC_Alarm_IRQHandler, vars, history, Kept
  <1> QED BY <1>1, <1>2, <1>3 DEF Next

LEMMA TornRange == ASSUME TypeInv PROVE Torn \in Nat /\ Sub * (Ms - 1) \in Nat
  <1>1. Ms - 1 \in Nat /\ Sub \in Nat BY Periods
  <1> DEFINE m == Ms - 1
  <1> HIDE DEF m
  <1>2. Sub * m \in Nat BY <1>1, Z3 DEF m
  <1> QED BY <1>2 DEF Torn, m

\* As time passes the error stays.
LEMMA KeptTicks == ASSUME TypeInv, KeptInv, Ticks PROVE KeptInv'
  <1> DEFINE i == Instant
             e == elapsed - setAt
             s == Sub * Stored
             u == Sub * setTo
  <1>1. /\ BKP' = BKP /\ setTo' = setTo /\ setAt' = setAt /\ starts' = starts
        /\ half' = half
    BY DEF Ticks, Tick, history
  <1>2. Stored' = Stored /\ Torn' = Torn BY <1>1 DEF Stored, Torn
  <1>3. i \in Int /\ e \in Int /\ s \in Int /\ u \in Int BY KeptTypes
  <1>4. Instant' = i + 1 BY DEF Ticks
  <1>5. elapsed' - setAt' = e + 1
    <2>1. elapsed' = elapsed + 1 BY DEF Ticks
    <2> QED BY <1>1, <2>1, KeptTypes
  <1>6. Err = s + Ms * i - u - Ms * e BY DEF Err
  <1>7. Err' = s + Ms * (i + 1) - u - Ms * (e + 1) BY <1>1, <1>2, <1>4, <1>5 DEF Err
  <1> HIDE DEF i, e, s, u
  <1>8. Ms * (i + 1) = Ms * i + Ms /\ Ms * (e + 1) = Ms * e + Ms
    BY <1>3, Periods, Z3
  <1>9. Ms * i \in Int /\ Ms * e \in Int BY <1>3, Periods, Products
  <1>10. Err' = Err BY <1>3, <1>6, <1>7, <1>8, <1>9, Periods
  <1>11. PICK x \in Int : Congruent(Err, x, Period) /\ Within(x) BY DEF KeptInv
  <1>12. Within(x)' BY <1>1, <1>2, <1>11 DEF Within
  <1>13. Congruent(Err', x, Period) BY <1>10, <1>11
  <1> QED BY <1>11, <1>12, <1>13 DEF KeptInv

\* A start may cost the fraction of the second.
LEMMA KeptLoses == ASSUME TypeInv, KeptInv, Loses PROVE KeptInv'
  <1> DEFINE i == Instant
             e == Ms * (elapsed - setAt)
             s == Sub * Stored
             u == Sub * setTo
             c == Ms * (Sub - 1)
  <1>1. /\ BKP' = BKP /\ setTo' = setTo /\ setAt' = setAt /\ starts' = starts + 1
        /\ half' = half /\ elapsed' = elapsed
    BY DEF Loses, RtcInit
  <1>2. Stored' = Stored /\ Torn' = Torn BY <1>1 DEF Stored, Torn
  <1>3. i \in Int /\ e \in Int /\ s \in Int /\ u \in Int BY KeptTypes
  <1>4. PICK k \in 0..(Sub - 1) : Instant' = i - k BY DEF Loses
  <1>5. Err = s + Ms * i - u - e BY DEF Err
  <1>6. Err' = s + Ms * (i - k) - u - e BY <1>1, <1>2, <1>4 DEF Err
  <1> HIDE DEF i, e, s, u
  <1>7. k \in Int /\ k >= 0 /\ k <= Sub - 1 BY <1>4, Periods
  <1>8. Ms * (i - k) = Ms * i - Ms * k /\ Ms * i \in Int /\ Ms * k \in Int
    BY <1>3, <1>7, Periods, Z3
  <1>9. c \in Int /\ Ms * k >= 0 /\ Ms * k <= c BY <1>7, Periods, Z3
  <1> HIDE DEF c
  <1> DEFINE l == Ms * k
  <1>10. l \in Int /\ l >= 0 /\ l <= c BY <1>8, <1>9
  <1>11. Err \in Int /\ Err' = Err - l BY <1>3, <1>5, <1>6, <1>8
  <1> HIDE DEF l
  <1>12. PICK x \in Int : Congruent(Err, x, Period) /\ Within(x) BY DEF KeptInv
  <1>13. Congruent(Err - l, x - l, Period)
    BY <1>10, <1>11, <1>12, Periods, CongruentSame, CongruentSum
  <1>14. starts \in Nat /\ Torn \in Nat BY KeptTypes, TornRange
  <1>15. starts' * c = starts * c + c /\ starts * c \in Int
    BY <1>1, <1>9, <1>14, Z3
  <1>16. x >= -(starts * c) - Torn /\ x <= (Sub - 1) + Torn BY <1>12 DEF Within, c
  <1> DEFINE y == x - l
  <1>17. /\ y \in Int /\ y >= -(starts' * c) - Torn' /\ y <= (Sub - 1) + Torn'
    <2>1. y \in Int BY <1>10, <1>12
    <2> DEFINE g == starts * c
    <2>2. g \in Int /\ starts' * c = g + c BY <1>15
    <2> HIDE DEF g
    <2>3. x >= -g - Torn BY <1>16 DEF g
    <2>4. y >= -(g + c) - Torn BY <1>9, <1>10, <1>12, <1>14, <2>2, <2>3
    <2>5. y <= (Sub - 1) + Torn BY <1>10, <1>12, <1>14, <1>16, Periods
    <2> QED BY <1>2, <2>1, <2>2, <2>4, <2>5
  <1>18. Congruent(Err', y, Period) BY <1>11, <1>13
  <1>19. Within(y)' BY <1>17 DEF Within, c
  <1> HIDE DEF y
  <1> QED BY <1>17, <1>18, <1>19 DEF KeptInv

LEMMA KeptStands == ASSUME KeptInv, Stands, Kept' = Kept PROVE KeptInv'
  <1>1. /\ BKP' = BKP /\ setTo' = setTo /\ setAt' = setAt /\ starts' = starts
        /\ half' = half
    BY DEF Kept
  <1>2. Stored' = Stored /\ Torn' = Torn BY <1>1 DEF Stored, Torn
  <1>3. Err' = Err BY <1>1, <1>2 DEF Err, Stands
  <1>4. PICK x \in Int : Congruent(Err, x, Period) /\ Within(x) BY DEF KeptInv
  <1>5. Within(x)' BY <1>1, <1>2, <1>4 DEF Within
  <1>6. Congruent(Err', x, Period) BY <1>3, <1>4
  <1> QED BY <1>4, <1>5, <1>6 DEF KeptInv

\* The first write: the milliseconds are still those of the difference before.
LEMMA KeptWrite0 == ASSUME TypeInv, WriteInv, RtcBkupWrite0 PROVE KeptInv'
  <1> DEFINE r == rd["main"].reading
             t == elapsed - at
             v == CalendarValue(r)
             d == SysTimeSub(FromMs(arg), CalendarTime(r))
             m == BKP[2]
             gap == m - d.SubSeconds
  <1>1. pc["main"] = "read" BY DEF RtcBkupWrite0, Step, Goto
  <1>2. Instant = v + t BY <1>1 DEF WriteInv
  <1>3. DR' = DR /\ TR' = TR /\ SSR' = SSR /\ elapsed' = elapsed
    BY DEF RtcBkupWrite0, Step, Goto, calendar
  <1>4. Instant' = Instant BY <1>3 DEF Instant
  <1>5. BKP \in (0..(Wrap32 - 1)) \X (0..(Ms - 1)) BY DEF TypeInv, BackupOK
  <1>6. BKP' = [BKP EXCEPT ![1] = d.Seconds] BY DEF RtcBkupWrite0, Delta
  <1>7. BKP'[1] = d.Seconds /\ BKP'[2] = m BY <1>5, <1>6
  <1>8. setTo' = arg /\ setAt' = at /\ starts' = 0 /\ half' = TRUE BY DEF RtcBkupWrite0
  <1>9. r \in Readings /\ arg \in Nat /\ m \in 0..(Ms - 1) /\ t \in Int BY KeptTypes
  <1>10. d.SubSeconds \in 0..(Ms - 1) BY <1>9, DeltaIs
  <1> HIDE DEF r, t, v, d, m
  <1>11. PICK x \in 0..(Sub - 1) :
           Congruent(Sub * (d.Seconds * Ms + m) + Ms * (v + t) - Sub * arg - Ms * t,
                     x + Sub * gap, Period)
    BY <1>9, StoredHalf DEF v, d
  <1>12. Err' = Sub * (d.Seconds * Ms + m) + Ms * (v + t) - Sub * arg - Ms * t
    <2>1. Stored' = d.Seconds * Ms + m BY <1>7 DEF Stored
    <2>2. elapsed' - setAt' = t BY <1>3, <1>8 DEF t
    <2>3. Err' = Sub * Stored' + Ms * Instant' - Sub * setTo' - Ms * (elapsed' - setAt')
      BY DEF Err
    <2> QED BY <1>2, <1>4, <1>8, <2>1, <2>2, <2>3
  <1>13. Congruent(Err', x + Sub * gap, Period) BY <1>11, <1>12
  <1>14. gap \in Int /\ gap >= -(Ms - 1) /\ gap <= Ms - 1 BY <1>9, <1>10, Periods
  <1> HIDE DEF gap
  <1> DEFINE n == Sub * (Ms - 1)
  <1>15. PICK g \in Int : g = Sub * gap /\ n \in Int /\ g >= -n /\ g <= n
    <2>1. Ms - 1 \in Int BY Periods
    <2> DEFINE w == Ms - 1
    <2> HIDE DEF w
    <2>2. w \in Int /\ gap >= -w /\ gap <= w BY <1>14, <2>1 DEF w
    <2>3. Sub * gap <= Sub * w BY <1>14, <2>2, Periods, Z3
    <2>4. Sub * gap >= -(Sub * w) BY <1>14, <2>2, Periods, Z3
    <2>5. Sub * gap \in Int /\ Sub * w \in Int BY <1>14, <2>2, Periods, Products
    <2> QED BY <2>3, <2>4, <2>5 DEF w
  <1>16. Torn' = n BY <1>8 DEF Torn
  <1>17. starts' * (Ms * (Sub - 1)) = 0
    <2>1. Ms * (Sub - 1) \in Int BY Periods, Products
    <2> DEFINE z == Ms * (Sub - 1)
    <2> HIDE DEF z
    <2>2. 0 * z = 0 BY <2>1, Z3 DEF z
    <2> QED BY <1>8, <2>2 DEF z
  <1> HIDE DEF n
  <1> DEFINE y == x + g
  <1>18. y \in Int /\ y >= -0 - Torn' /\ y <= (Sub - 1) + Torn'
    BY <1>11, <1>15, <1>16, Periods
  <1>19. Within(y)' BY <1>17, <1>18 DEF Within
  <1>20. Congruent(Err', y, Period) BY <1>13, <1>15
  <1> HIDE DEF y
  <1> QED BY <1>18, <1>19, <1>20 DEF KeptInv

\* The second: the time is set.
LEMMA KeptWrite1 == ASSUME TypeInv, WriteInv, RtcBkupWrite1 PROVE KeptInv'
  <1> DEFINE r == rd["main"].reading
             t == elapsed - at
             v == CalendarValue(r)
             d == SysTimeSub(FromMs(arg), CalendarTime(r))
             m == d.SubSeconds
  <1>1. pc["main"] = "bkup1" BY DEF RtcBkupWrite1, Step, Goto
  <1>2. Instant = v + t BY <1>1 DEF WriteInv
  <1>3. DR' = DR /\ TR' = TR /\ SSR' = SSR /\ elapsed' = elapsed
    BY DEF RtcBkupWrite1, Step, Goto, calendar
  <1>4. Instant' = Instant BY <1>3 DEF Instant
  <1>5. BKP \in (0..(Wrap32 - 1)) \X (0..(Ms - 1)) BY DEF TypeInv, BackupOK
  <1>6. BKP' = [BKP EXCEPT ![2] = m] BY DEF RtcBkupWrite1, Delta
  <1>7. BKP'[1] = d.Seconds /\ BKP'[2] = m
    <2>1. BKP[1] = d.Seconds BY <1>1 DEF WriteInv, Delta
    <2> HIDE DEF m, d
    <2> QED BY <1>5, <1>6, <2>1
  <1>8. setTo' = arg /\ setAt' = at /\ starts' = 0 /\ half' = FALSE
    BY <1>1 DEF RtcBkupWrite1, WriteInv
  <1>9. r \in Readings /\ arg \in Nat /\ t \in Int BY KeptTypes
  <1>10. m \in 0..(Ms - 1) BY <1>9, DeltaIs
  <1> HIDE DEF r, t, v, d
  <1>11. PICK x \in 0..(Sub - 1) :
           Congruent(Sub * (d.Seconds * Ms + m) + Ms * (v + t) - Sub * arg - Ms * t,
                     x + Sub * (m - d.SubSeconds), Period)
    BY <1>9, <1>10, StoredHalf DEF v, d
  <1>12. Err' = Sub * (d.Seconds * Ms + m) + Ms * (v + t) - Sub * arg - Ms * t
    <2>1. Stored' = d.Seconds * Ms + m BY <1>7 DEF Stored
    <2>2. elapsed' - setAt' = t BY <1>3, <1>8 DEF t
    <2>3. Err' = Sub * Stored' + Ms * Instant' - Sub * setTo' - Ms * (elapsed' - setAt')
      BY DEF Err
    <2> QED BY <1>2, <1>4, <1>8, <2>1, <2>2, <2>3
  <1>13. x + Sub * (m - d.SubSeconds) = x
    <2>1. m - d.SubSeconds = 0 BY <1>10
    <2>2. Sub * 0 = 0 BY Periods, Z3
    <2> QED BY <1>11, <2>1, <2>2, Periods
  <1>14. Congruent(Err', x, Period) BY <1>11, <1>12, <1>13
  <1>15. starts' * (Ms * (Sub - 1)) = 0
    <2>1. Ms * (Sub - 1) \in Int BY Periods, Products
    <2> DEFINE z == Ms * (Sub - 1)
    <2> HIDE DEF z
    <2>2. 0 * z = 0 BY <2>1, Z3 DEF z
    <2> QED BY <1>8, <2>2 DEF z
  <1>16. Torn' = 0 BY <1>8 DEF Torn
  <1>17. x \in Int /\ x >= -0 - 0 /\ x <= (Sub - 1) + 0 BY <1>11, Periods
  <1>18. Within(x)' BY <1>15, <1>16, <1>17 DEF Within
  <1> QED BY <1>14, <1>17, <1>18 DEF KeptInv

LEMMA KeptStays ==
  ASSUME TypeInv, CenturyInv, WriteInv, KeptInv, [Next]_vars PROVE KeptInv'
  <1>1. Ticks \/ Loses \/ Stands BY InstantSteps
  <1>2. CASE Ticks BY <1>2, KeptTicks
  <1>3. CASE Loses BY <1>3, KeptLoses
  <1>4. CASE Stands
    <2>1. ~RtcInit BY <1>4 DEF Stands
    <2> QED BY <1>4, <2>1, KeptStands, KeptWrite0, KeptWrite1, OnlyTheseSet
  <1> QED BY <1>1, <1>2, <1>3, <1>4

LEMMA OnlySysTimeGetEnds ==
  ASSUME TypeInv, Next, pc["main"] = "read", pc'["main"] = "idle", call = "GetUTCTime"
  PROVE  SysTimeGet
  <1>0. pc \in [Procs -> PCs] /\ "main" \in Procs BY DEF TypeInv, ProgramOK, Procs
  <1>1. ~Tick BY DEF Tick, program
  <1>2. ~Reset BY DEF Reset
  <1>3. ASSUME NEW p \in Procs, Read(p) \/ RtcSetTimerContext(p) PROVE FALSE
    BY <1>0, <1>3 DEF Read, ReadFirst, ReadDate, ReadSub, ReadTime, ReadAgain,
                      RtcSetTimerContext, Step, Goto
  <1>4. ~RTC_Alarm_IRQHandler BY <1>0 DEF RTC_Alarm_IRQHandler, Step, Goto
  <1>5. ~(RtcInit \/ RtcInitAlarm \/ GetUTCTime \/ SetAlarm
          \/ (\E ms \in Utcs : SetUTCTime(ms)) \/ RtcBkupWrite0 \/ RtcBkupWrite1
          \/ (\E t \in Timeouts : CopyContext(t)) \/ Copied \/ RtcStopAlarm)
    BY <1>0 DEF RtcInit, RtcInitAlarm, GetUTCTime, SetAlarm, SetUTCTime, RtcBkupWrite0,
                RtcBkupWrite1, CopyContext, Copied, RtcStopAlarm, Call, Step, Goto
  <1> QED BY <1>1, <1>2, <1>3, <1>4, <1>5 DEF Next, Main

\* What SysTimeGet() returns: the stored difference and the calendar read.
LEMMA SumInMs ==
  ASSUME TypeInv, SysTimeGet
  PROVE  /\ utc' \in Int
         /\ \E z \in 0..(Sub - 1) :
              Congruent(Sub * utc',
                        Sub * Stored + Ms * CalendarValue(rd["main"].reading) - z, Period)
  <1> DEFINE r == rd["main"].reading
             b == [Seconds |-> BKP[1], SubSeconds |-> Int16(BKP[2])]
             c == CalendarTime(r)
             u == ToMs(SysTimeAdd(b, c))
             tb == ToMs(b)
             tc == ToMs(c)
             v == Ms * CalendarValue(r)
             p == Sub * MsPeriod
  <1>1. utc' = u BY DEF SysTimeGet
  <1>2. r \in Readings /\ BKP[1] \in 0..(Wrap32 - 1) /\ BKP[2] \in 0..(Ms - 1)
    BY KeptTypes
  <1>3. Int16(BKP[2]) = BKP[2] BY <1>2, SmallInt16
  <1>4. b.Seconds \in Int /\ b.SubSeconds \in Int BY <1>2, <1>3, Periods
  <1>5. tb = Stored BY <1>3 DEF ToMs, Stored
  <1>6. c.Seconds \in Int /\ c.SubSeconds \in Int BY <1>2, DeltaIs, Periods
  <1>7. tc \in Int /\ \E x \in 0..(Sub - 1) : Congruent(Sub * tc, v - x, Period)
    BY <1>2, CalendarInMs
  <1>8. v \in Int
    <2>1. CalendarValue(r) \in Int BY <1>2, ValueIsInt
    <2> QED BY <2>1, Periods, Products
  <1>9. tb \in Int /\ Sub * tb \in Int BY <1>5, KeptTypes
  <1> HIDE DEF b, c
  <1>10. u \in Int /\ Congruent(u, tb + tc, MsPeriod) BY <1>4, <1>6, AddIsSum
  <1> HIDE DEF u, tb, tc, v
  <1>11. PICK z \in 0..(Sub - 1) : Congruent(Sub * tc, v - z, Period) BY <1>7
  <1>12. z \in Int BY <1>11, Periods
  <1>13. tb + tc \in Int /\ v - z \in Int BY <1>7, <1>8, <1>9, <1>12
  <1>14. Congruent(Sub * u, Sub * (tb + tc), p)
    BY <1>10, <1>13, Periods, CongruentTimes
  <1>15. p = Period BY DEF Period
  <1> HIDE DEF p
  <1>16. /\ Sub * tc \in Int /\ Sub * u \in Int
         /\ Sub * (tb + tc) = Sub * tb + Sub * tc
    BY <1>7, <1>9, <1>10, Periods, Z3
  <1> DEFINE f == Sub * tb
             g == Sub * tc
             e == v - z
  <1>17. f \in Int /\ g \in Int /\ e \in Int BY <1>9, <1>13, <1>16
  <1>18. Congruent(g, e, Period) BY <1>11
  <1>19. Congruent(Sub * u, f + g, Period) BY <1>14, <1>15, <1>16
  <1>20. f + e = f + v - z BY <1>8, <1>12, <1>17
  <1> HIDE DEF f, g, e
  <1>21. Congruent(f + g, f + e, Period)
    BY <1>17, <1>18, Periods, CongruentSame, CongruentSum
  <1>22. f + g \in Int /\ f + e \in Int BY <1>17
  <1>23. Congruent(Sub * u, f + e, Period)
    BY <1>16, <1>19, <1>21, <1>22, Periods, CongruentNext
  <1>24. Congruent(Sub * u, f + v - z, Period) BY <1>20, <1>23
  <1> QED BY <1>1, <1>5, <1>10, <1>11, <1>24 DEF f, v

\* A small error, seen in the period the seconds have.
LEMMA SmallModulo ==
  ASSUME NEW y \in Int, NEW lo \in Nat, NEW hi \in Nat, NEW n \in Nat \ {0},
         y > -lo, y < hi
  PROVE  y % n < hi \/ y % n > n - lo
  <1> DEFINE q == y \div n
             m == y % n
  <1>1. q \in Int /\ m \in 0..(n - 1) /\ y = n * q + m BY Division
  <1> HIDE DEF q, m
  <1>2. CASE q >= 0
    <2>1. n * q >= 0 /\ n * q \in Int BY <1>1, <1>2, Z3
    <2>2. m < hi BY <1>1, <2>1
    <2> QED BY <2>2 DEF m
  <1>3. CASE q < 0
    <2>1. n * q <= -n /\ n * q \in Int
      <3>1. q <= -1 BY <1>1, <1>3
      <3>2. n * q <= n * (-1) /\ n * (-1) = -n /\ n * q \in Int BY <1>1, <3>1, Z3
      <3> QED BY <3>2
    <2>2. m > n - lo BY <1>1, <2>1
    <2> QED BY <2>2 DEF m
  <1> QED BY <1>1, <1>2, <1>3

LEMMA TimeIsRight ==
  ASSUME TypeInv, WriteInv, KeptInv, SysTimeGet
  PROVE  LET second == Sub * Ms
             period == second * Wrap32
             error  == (Sub * (utc' - setTo) - Ms * (at - setAt)) % period
         IN  \/ error < Sub + (IF half THEN second ELSE 0)
             \/ error > period - Sub - (starts + (IF half THEN 1 ELSE 0)) * second
  <1> DEFINE second == Sub * Ms
             u == utc'
             v == CalendarValue(rd["main"].reading)
             t == elapsed - at
             a == at - setAt
             i == Instant
             s == Sub * Stored
             o == Sub * setTo
             err == Sub * (u - setTo) - Ms * a
             h == IF half THEN 1 ELSE 0
             c == Ms * (Sub - 1)
  <1>1. /\ s \in Int /\ o \in Int /\ i \in Int /\ t \in Int /\ a \in Int /\ setTo \in Int
        /\ starts \in Nat /\ elapsed - setAt = t + a
    BY KeptTypes
  <1>2. v \in Int
    <2>1. rd["main"].reading \in Readings BY KeptTypes
    <2> QED BY <2>1, ValueIsInt
  <1>3. i = v + t
    <2>1. pc["main"] = "read" BY DEF SysTimeGet, Step, Goto
    <2> QED BY <2>1 DEF WriteInv
  <1>4. Err = s + Ms * i - o - Ms * (t + a) BY <1>1 DEF Err
  <1>5. u \in Int /\ \E z \in 0..(Sub - 1) : Congruent(Sub * u, s + Ms * v - z, Period)
    BY SumInMs
  <1>6. second \in Nat \ {0} /\ c \in Int /\ c = second - Ms /\ Period = second * Wrap32
    <2>1. Ms * (Sub - 1) = Sub * Ms - Ms BY Periods, Z3
    <2> QED BY <2>1, Periods
  <1> HIDE DEF second, u, v, t, a, i, s, o, c
  <1>7. PICK z \in 0..(Sub - 1) : Congruent(Sub * u, s + Ms * v - z, Period) BY <1>5
  <1>8. PICK k \in Int : Sub * u = s + Ms * v - z + k * Period BY <1>7 DEF Congruent
  <1>9. PICK x \in Int : Congruent(Err, x, Period) /\ Within(x) BY DEF KeptInv
  <1>10. PICK l \in Int : Err = x + l * Period BY <1>9 DEF Congruent
  <1>11. z \in Int /\ z >= 0 /\ z <= Sub - 1 BY <1>7, Periods
  <1>12. /\ Sub * u \in Int /\ Ms * v \in Int /\ Ms * t \in Int /\ Ms * a \in Int
         /\ k * Period \in Int /\ l * Period \in Int
    BY <1>1, <1>2, <1>5, Periods, Products
  <1>13. /\ Sub * (u - setTo) = Sub * u - o /\ Ms * (t + a) = Ms * t + Ms * a
         /\ Ms * (v + t) = Ms * v + Ms * t /\ (k + l) * Period = k * Period + l * Period
    <2>1. Sub * (u - setTo) = Sub * u - Sub * setTo BY <1>1, <1>5, Periods, Z3
    <2>2. Ms * (t + a) = Ms * t + Ms * a BY <1>1, Periods, Z3
    <2>3. Ms * (v + t) = Ms * v + Ms * t BY <1>1, <1>2, Periods, Z3
    <2>4. (k + l) * Period = k * Period + l * Period BY Periods, Z3
    <2> QED BY <2>1, <2>2, <2>3, <2>4 DEF o
  <1>14. err = (x - z) + (k + l) * Period
    <2>1. Err = s + (Ms * v + Ms * t) - o - (Ms * t + Ms * a) BY <1>3, <1>4, <1>13
    <2>2. err = (Sub * u - o) - Ms * a BY <1>13
    <2> DEFINE U == Sub * u
               V == Ms * v
               T == Ms * t
               A == Ms * a
               K == k * Period
               L == l * Period
               KL == (k + l) * Period
    <2>3. /\ U \in Int /\ V \in Int /\ T \in Int /\ A \in Int /\ K \in Int /\ L \in Int
          /\ KL = K + L /\ U = s + V - z + K /\ Err = x + L
          /\ Err = s + (V + T) - o - (T + A) /\ err = (U - o) - A
      BY <1>8, <1>10, <1>12, <1>13, <2>1, <2>2
    <2> HIDE DEF err, U, V, T, A, K, L, KL
    <2>4. err = (x - z) + KL BY <1>1, <1>11, <2>3
    <2> QED BY <2>4 DEF KL
  <1> DEFINE y == x - z
  <1>15. y \in Int /\ k + l \in Int BY <1>11
  <1>16. err % Period = y % Period
    <2>1. (y + (k + l) * Period) % Period = y % Period BY <1>15, Periods, ModPlus
    <2> HIDE DEF err
    <2> QED BY <1>14, <2>1
  <1> DEFINE hi == Sub + (IF half THEN second ELSE 0)
             lo == Sub + (starts + h) * second
  <1>17. h \in 0..1 /\ (starts + h) * second = starts * second + h * second
         /\ h * second = (IF half THEN second ELSE 0) /\ starts * second \in Nat
    <2>1. h \in 0..1 OBVIOUS
    <2>2. (starts + h) * second = starts * second + h * second /\ starts * second \in Nat
      BY <1>1, <1>6, <2>1, Z3
    <2>3. 1 * second = second /\ 0 * second = 0 BY <1>6, Z3
    <2> QED BY <2>1, <2>2, <2>3
  <1>18. hi \in Nat /\ lo \in Nat BY <1>6, <1>17, Periods
  <1>19. Torn \in Int /\ Torn <= (IF half THEN second ELSE 0) /\ Torn >= 0
    <2>1. Sub * (Ms - 1) = Sub * Ms - Sub BY Periods, Z3
    <2>2. Torn \in Nat BY TornRange
    <2>3. Torn = IF half THEN second - Sub ELSE 0 BY <2>1 DEF Torn, second
    <2> QED BY <1>6, <2>2, <2>3, Periods
  <1>20. starts * c <= starts * second /\ starts * c \in Int
    <2>1. c <= second BY <1>6, Periods
    <2> QED BY <1>1, <1>6, <2>1, Z3
  <1>21. x >= -(starts * c) - Torn /\ x <= (Sub - 1) + Torn BY <1>9 DEF Within, c
  <1> DEFINE e == IF half THEN second ELSE 0
             g == starts * second
             w == starts * c
  <1>22. /\ e \in Nat /\ g \in Nat /\ w \in Int /\ w <= g /\ Torn <= e
         /\ hi = Sub + e /\ lo = Sub + (g + e) /\ x >= -w - Torn /\ x <= (Sub - 1) + Torn
    BY <1>6, <1>17, <1>19, <1>20, <1>21
  <1> HIDE DEF hi, lo, e, g, w, h
  <1>23. y > -lo /\ y < hi BY <1>11, <1>19, <1>22, Periods
  <1> HIDE DEF y
  <1>24. y % Period < hi \/ y % Period > Period - lo
    BY <1>15, <1>18, <1>23, Periods, SmallModulo
  <1> DEFINE m == err % Period
             b == (starts + h) * second
  <1>25. m < hi \/ m > Period - lo BY <1>16, <1>24
  <1>26. b \in Int /\ lo = Sub + b
    <2>1. b \in Int
      <3>1. starts + h \in Int BY <1>1, <1>17
      <3> QED BY <1>6, <3>1, Products
    <2> QED BY <2>1 DEF lo
  <1> HIDE DEF m, b
  <1>27. Period - lo = Period - Sub - b BY <1>26, Periods
  <1>28. m < hi \/ m > Period - Sub - b BY <1>25, <1>27
  <1> HIDE DEF err
  <1>29. \/ err % (second * Wrap32) < Sub + (IF half THEN second ELSE 0)
         \/ err % (second * Wrap32) > second * Wrap32 - Sub - (starts + h) * second
    BY <1>6, <1>28, Zenon DEF m, hi, b
  <1> QED BY <1>29, Zenon DEF err, second, h, u, a

\* The time of day a command set is what the firmware returns later, with what has
\* passed since, to the millisecond: through any number of resets, each of which
\* costs less than a second, and one between the two writes, which costs another.
\* The seconds may have wrapped around 32 bits on the way, in the difference that is
\* stored, in the calendar's time, and in their sum.
THEOREM TimeOfDayIsKept == Spec => TimeKept
  <1> DEFINE Right == pc["main"] = "read" /\ pc'["main"] = "idle" /\ call = "GetUTCTime" =>
       LET second == Sub * Ms
           period == second * Wrap32
           error  == (Sub * (utc' - setTo) - Ms * (at - setAt)) % period
       IN  \/ error < Sub + (IF half THEN second ELSE 0)
           \/ error > period - Sub - (starts + (IF half THEN 1 ELSE 0)) * second
             KInv == TypeInv /\ ReadInv /\ CenturyInv /\ WriteInv /\ KeptInv
  <1>1. KInv /\ Next => Right BY OnlySysTimeGetEnds, TimeIsRight, Zenon
  <1>2. TimeKept <=> [][Right]_vars BY Zenon DEF TimeKept
  <1>3. KInv /\ [Next]_vars => KInv'
    BY TypesStay, NextKeeps, CenturyStays, WriteStays, KeptStays
  <1>4. Init => KInv
    BY InitTypes, InitHolds, CenturyHolds, WriteHolds, KeptHolds
  <1> HIDE DEF Right, KInv
  <1>5. KInv /\ [Next]_vars => [Right]_vars BY <1>1
  <1> QED BY <1>2, <1>3, <1>4, <1>5, PTL DEF Spec

=============================================================================
