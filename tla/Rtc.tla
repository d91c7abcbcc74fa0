-------------------------------- MODULE Rtc ---------------------------------
(***************************************************************************)
(* The calendar of the RTC and what the firmware makes of it: the reading  *)
(* of its registers one by one, the alarm, and the time of day, kept as a  *)
(* difference to the calendar in two backup registers (boards/rd10/        *)
(* board-rtc.cpp, system/systime.c, peripherals/gtime.cpp).                *)
(*                                                                         *)
(* The main loop and the alarm's interrupt both read the calendar, the     *)
(* interrupt possibly in the middle of the main loop's reading.  A reset   *)
(* may come at any step; the calendar, the alarm's and the backup          *)
(* registers survive it.  A tick is the calendar's resolution, 1/1024 s.   *)
(***************************************************************************)
EXTENDS Integers

CONSTANTS Sub,            \* ticks of a second; PREDIV_S is Sub - 1
          SecPerMin, MinPerHour, HoursPerDay,
          Ms,             \* 1000: milliseconds of a second
          Wrap32, Wrap16, \* 2^32 and 2^16
          Starts,         \* dates at which the calendar is looked at
          Timeouts,       \* what RtcStartAlarm() is called with, in ticks
          Utcs,           \* times set by a command, in ms
          MaxTicks, MaxCalls, MaxStarts   \* bounds of the runs: ticks, calls of
                          \* main's, starts of the firmware since a time was set

DaysInMonth(year) ==
  <<31, IF year % 4 = 0 THEN 29 ELSE 28, 31, 30, 31, 30, 31, 31, 30, 31, 30, 31>>

Dates == {d \in [Year : 0..99, Month : 1..12, Date : 1..31] :
            d.Date <= DaysInMonth(d.Year)[d.Month]}
Times == [Hours : 0..(HoursPerDay - 1), Minutes : 0..(MinPerHour - 1),
          Seconds : 0..(SecPerMin - 1)]

ASSUME RtcAssumption ==
  /\ {Sub, SecPerMin, MinPerHour, HoursPerDay, Ms, Wrap16, Wrap32} \subseteq Nat \ {0}
  /\ Wrap32 % Wrap16 = 0 /\ 2 * Ms <= Wrap16
  /\ Starts \subseteq Dates
  /\ Timeouts \subseteq Nat /\ Utcs \subseteq Nat
  /\ {MaxTicks, MaxCalls, MaxStarts} \subseteq Nat

VARIABLES DR, TR, SSR,               \* the calendar: date, time, ticks to go
          ALRMAR, ALRAE, ALRAF,      \* the alarm: its registers, enable, flag
          BKP,                       \* backup registers 0 and 1
          RtcTimerContext,
          pc, rd,                    \* of "main" and of the interrupt "irq"
          call, arg,                 \* what main calls, with what
          copy,                      \* RtcStartAlarm()'s copy of the context
          utc,                       \* what GetUTCTime() returned, in ms
          elapsed, calls,   \* ticks and calls so far
          round,            \* ticks in a round of reading
          at,               \* history: elapsed when main's last reading ended
          setTo, setAt,     \* history: the time last set, and when
          starts, half,     \* history: starts since; half of a time was stored
          seen              \* the contexts since the copying of one began

calendar == <<DR, TR, SSR>>
alarm    == <<ALRMAR, ALRAE, ALRAF>>
program  == <<pc, rd, call, arg, copy, utc>>
history  == <<at, setTo, setAt, starts, half, seen>>
vars == <<calendar, alarm, BKP, RtcTimerContext, program, elapsed, calls, round,
          history>>

-----------------------------------------------------------------------------
\* The calendar's own arithmetic, which the firmware's is compared with.
DayTicks == Sub * SecPerMin * MinPerHour * HoursPerDay

TicksOfDay(t, ssr) ==
  Sub * (t.Seconds + SecPerMin * (t.Minutes + MinPerHour * t.Hours)) + (Sub - 1 - ssr)

TimeOf(ticks) == [Hours   |-> ticks \div (Sub * SecPerMin * MinPerHour),
                  Minutes |-> (ticks \div (Sub * SecPerMin)) % MinPerHour,
                  Seconds |-> (ticks \div Sub) % SecPerMin]

NextDate(d) ==
  IF d.Date < DaysInMonth(d.Year)[d.Month] THEN [d EXCEPT !.Date = @ + 1]
  ELSE IF d.Month < 12 THEN [d EXCEPT !.Month = @ + 1, !.Date = 1]
  ELSE [Year |-> (d.Year + 1) % 100, Month |-> 1, Date |-> 1]

DaysBefore == <<0, 31, 59, 90, 120, 151, 181, 212, 243, 273, 304, 334>>

DayNumber(d) == 365 * d.Year + (d.Year + 3) \div 4 + DaysBefore[d.Month]
                + (IF d.Year % 4 = 0 /\ d.Month > 2 THEN 1 ELSE 0) + d.Date - 1

CenturyDays == 36525

\* RtcStartAlarm()'s one caller sleeps for seconds; 25 days or more could leave
\* no day of the month.  The year has two digits: after them it starts over.
ASSUME TimeAssumption ==
  /\ \A t \in Timeouts : t < 24 * DayTicks
  /\ \A d \in Starts : (DayNumber(d) + 1) * DayTicks + MaxTicks < CenturyDays * DayTicks

\* Ticks since the first of January 2000.
Instant == DayNumber(DR) * DayTicks + TicksOfDay(TR, SSR)

-----------------------------------------------------------------------------
\* What the firmware computes.
Pow4 == <<1, 4, 16, 64, 256, 1024, 4096, 16384, 65536, 262144, 1048576, 4194304>>

\* Two bits of DAYS_IN_MONTH_CORRECTION_LEAP or _NORM.
Correction(d) ==
  ((IF d.Year % 4 = 0 THEN 4478288 ELSE 10070688) \div Pow4[d.Month]) % 4

DIVC(x, n) == (x + n - 1) \div n

CalendarDays(d) == DIVC(1461 * d.Year, 4)
                   + (DIVC((d.Month - 1) * 61, 2) - Correction(d)) + d.Date - 1

CalendarValue(r) ==
  Sub * (CalendarDays(r.date) * SecPerMin * MinPerHour * HoursPerDay
         + r.time.Seconds + SecPerMin * (r.time.Minutes + MinPerHour * r.time.Hours))
  + (Sub - 1 - r.sub)

\* RtcGetCalendarTime(), as a SysTime_t.
CalendarTime(r) == [Seconds    |-> (CalendarValue(r) \div Sub) % Wrap32,
                    SubSeconds |-> ((CalendarValue(r) % Sub) * Ms) \div Sub]

Int16(x) == IF x % Wrap16 < Wrap16 \div 2 THEN x % Wrap16
            ELSE (x % Wrap16) - Wrap16

SysTimeAdd(a, b) ==
  LET carry == IF a.SubSeconds + b.SubSeconds >= Ms THEN 1 ELSE 0
  IN  [Seconds    |-> (a.Seconds + b.Seconds + carry) % Wrap32,
       SubSeconds |-> a.SubSeconds + b.SubSeconds - carry * Ms]

\* Mutant of SysTimeSub: forgets the second it borrowed.
SysTimeSubNoBorrow(a, b) ==
  [Seconds    |-> (a.Seconds - b.Seconds) % Wrap32,
   SubSeconds |-> (a.SubSeconds - b.SubSeconds) % Ms]

\* Mutant of SysTimeSub: borrows the second and does not add it below.
SysTimeSubNegative(a, b) ==
  LET borrow == IF a.SubSeconds < b.SubSeconds THEN 1 ELSE 0
  IN  [Seconds    |-> (a.Seconds - b.Seconds - borrow) % Wrap32,
       SubSeconds |-> a.SubSeconds - b.SubSeconds]

SysTimeSub(a, b) ==
  LET borrow == IF a.SubSeconds < b.SubSeconds THEN 1 ELSE 0
  IN  [Seconds    |-> (a.Seconds - b.Seconds - borrow) % Wrap32,
       SubSeconds |-> a.SubSeconds - b.SubSeconds + borrow * Ms]

\* SetUTCTime(): the product of seconds and 1000 is one of 32 bits, which the
\* 16 bits that are kept of the difference do not show.
FromMs(ms) == LET s == (ms \div Ms) % Wrap32
              IN  [Seconds |-> s, SubSeconds |-> Int16(ms - ((s * Ms) % Wrap32))]

ToMs(t) == t.Seconds * Ms + t.SubSeconds

\* Mutant of AlarmDate: takes February for 28 days long, always.
AlarmDateNoLeap(date, days) ==
  LET n == DaysInMonth(1)[date.Month] IN IF days > n THEN days % n ELSE days

AlarmDate(date, days) ==
  LET n == DaysInMonth(date.Year)[date.Month] IN IF days > n THEN days % n ELSE days

\* RtcStartAlarm(): the fields of the timeout are added to those of the
\* context, and then their carries, from the subseconds to the days.
AlarmFor(r, timeout) ==
  LET secs == timeout \div Sub
      ss == (Sub - 1 - r.sub) + (timeout % Sub)
      s  == r.time.Seconds + (secs % SecPerMin) + ss \div Sub
      mi == r.time.Minutes + ((secs \div SecPerMin) % MinPerHour) + s \div SecPerMin
      h  == r.time.Hours + ((secs \div (SecPerMin * MinPerHour)) % HoursPerDay)
            + mi \div MinPerHour
      d  == r.date.Date + secs \div (SecPerMin * MinPerHour * HoursPerDay)
            + h \div HoursPerDay
  IN  [Date |-> AlarmDate(r.date, d),
       time |-> [Hours |-> h % HoursPerDay, Minutes |-> mi % MinPerHour,
                 Seconds |-> s % SecPerMin],
       sub  |-> (Sub - 1) - (ss % Sub)]
-----------------------------------------------------------------------------
Procs == {"main", "irq"}
Readings == [date : Dates, time : Times, sub : 0..(Sub - 1)]

\* What a copy of the context can be: its date may be no day at all.
RTC_DateTypeDef == [Year : 0..99, Month : 1..12, Date : 1..31]
Copies == [date : RTC_DateTypeDef, time : Times, sub : 0..(Sub - 1)]

\* The steps of RtcGetCalendarValue(), and the others.
Reading == {"ssr", "dr", "get_ssr", "tr", "again"}
MainPCs == {"idle", "RtcInit", "deactivate", "bkup0", "bkup1", "add",
            "copy", "stop", "set_alarm"}

Epoch == [date |-> [Year |-> 0, Month |-> 1, Date |-> 1],
          time |-> [Hours |-> 0, Minutes |-> 0, Seconds |-> 0], sub |-> 0]
Unread == [first |-> 0, reading |-> Epoch]

TypeOK ==
  /\ DR \in Dates /\ TR \in Times /\ SSR \in 0..(Sub - 1)
  /\ ALRMAR \in [Date : 1..31, time : Times, sub : 0..(Sub - 1)]
  /\ {ALRAE, ALRAF, half} \subseteq BOOLEAN
  /\ BKP \in (0..(Wrap32 - 1)) \X (0..(Ms - 1))
  /\ RtcTimerContext \in Readings /\ copy \in Copies /\ seen \subseteq Readings
  /\ pc \in [Procs -> Reading \cup {"read"} \cup MainPCs]
  /\ rd \in [Procs -> [first : 0..(Sub - 1), reading : Readings]]
  /\ call \in {"RtcInit", "GetUTCTime", "SetUTCTime", "RtcStartAlarm"}
  /\ {arg, utc, setTo} \subseteq Nat
  /\ {elapsed, at, setAt} \subseteq 0..MaxTicks
  /\ round \in [Procs -> 0..(Sub - 1)]
  /\ calls \in 0..MaxCalls /\ starts \in 0..MaxStarts

\* RtcInit() is just done.  The backup registers are 0 at first: the time of day
\* is the calendar's.
Init == /\ DR \in Starts
        /\ TR = TimeOf(DayTicks - 1) /\ SSR = Sub - 1
        /\ ALRMAR = [Date |-> 1, time |-> Epoch.time, sub |-> 0]
        /\ ALRAE = FALSE /\ ALRAF = FALSE
        /\ BKP = <<0, 0>>
        /\ RtcTimerContext = [date |-> DR, time |-> TR, sub |-> SSR]
        /\ pc = [p \in Procs |-> "idle"]
        /\ rd = [p \in Procs |-> Unread]
        /\ call = "RtcInit" /\ arg = 0
        /\ utc = 0
        /\ elapsed = 0 /\ calls = 0 /\ round = [p \in Procs |-> 0]
        /\ at = 0 /\ setAt = 0
        /\ setTo = ((Instant \div Sub) % Wrap32) * Ms + ((Instant % Sub) * Ms) \div Sub
        /\ starts = 0 /\ half = FALSE
        /\ copy = Epoch /\ seen = {}

-----------------------------------------------------------------------------
\* The calendar counts, and the alarm comes when all fields are equal.  No
\* round of a reading takes as long as a second.
Alarmed == ALRAE /\ DR'.Date = ALRMAR.Date /\ TR' = ALRMAR.time /\ SSR' = ALRMAR.sub

Tick ==
  /\ elapsed < MaxTicks
  /\ elapsed' = elapsed + 1
  /\ \A p \in Procs : pc[p] \in Reading \ {"ssr"} => round[p] < Sub - 1
  /\ round' = [p \in Procs |-> IF pc[p] \in Reading \ {"ssr"} THEN round[p] + 1 ELSE 0]
  /\ SSR' = IF SSR = 0 THEN Sub - 1 ELSE SSR - 1
  /\ LET t == TicksOfDay(TR, SSR) + 1
     IN  /\ TR' = TimeOf(t % DayTicks)
         /\ DR' = IF t = DayTicks THEN NextDate(DR) ELSE DR
  /\ ALRAF' = (ALRAF \/ Alarmed)
  /\ UNCHANGED <<ALRMAR, ALRAE, BKP, RtcTimerContext, program, calls, history>>

\* A step of the program's, from one pc to another; main stands still while
\* the interrupt runs.
Goto(p, from, to) == /\ pc[p] = from /\ pc' = [pc EXCEPT ![p] = to]
                     /\ p = "main" => pc["irq"] = "idle"
                     /\ UNCHANGED <<calendar, elapsed>>

Step(p, from, to) == Goto(p, from, to) /\ UNCHANGED calls

-----------------------------------------------------------------------------
\* RtcGetCalendarValue(): DR, and then the subseconds and TR in
\* HAL_RTC_GetTime(), between two looks at the subseconds.
Reads(p) == UNCHANGED <<alarm, BKP, RtcTimerContext, call, arg, copy, utc, history>>

ReadFirst(p) == /\ Step(p, "ssr", "dr")
                /\ rd' = [rd EXCEPT ![p].first = SSR]
                /\ round' = [round EXCEPT ![p] = 0]
                /\ Reads(p)

ReadDate(p) == /\ Step(p, "dr", "get_ssr")
               /\ rd' = [rd EXCEPT ![p].reading.date = DR]
               /\ Reads(p) /\ UNCHANGED round

ReadSub(p) == /\ Step(p, "get_ssr", "tr")
              /\ rd' = [rd EXCEPT ![p].reading.sub = SSR]
              /\ Reads(p) /\ UNCHANGED round

ReadTime(p) == /\ Step(p, "tr", "again")
               /\ rd' = [rd EXCEPT ![p].reading.time = TR]
               /\ Reads(p) /\ UNCHANGED round

\* Mutant of Same: does not look again.
SameNot(p) == TRUE

Same(p) == rd[p].first = SSR

ReadAgain(p) ==
  /\ Step(p, "again", IF Same(p) THEN "read" ELSE "ssr")
  /\ round' = [round EXCEPT ![p] = 0]
  /\ at' = IF p = "main" /\ Same(p) THEN elapsed ELSE at
  /\ UNCHANGED <<rd, alarm, BKP, RtcTimerContext, call, arg, copy, utc, setTo, setAt,
                 starts, half, seen>>

Read(p) == ReadFirst(p) \/ ReadDate(p) \/ ReadSub(p) \/ ReadTime(p) \/ ReadAgain(p)

\* RtcSetTimerContext(), in RtcInit() and in the interrupt.
RtcSetTimerContext(p) ==
  /\ Step(p, "read", "idle")
  /\ p = "main" => call = "RtcInit"
  /\ RtcTimerContext' = rd[p].reading
  /\ rd' = [rd EXCEPT ![p] = Unread]
  /\ at' = IF p = "main" THEN 0 ELSE at
  /\ seen' = IF pc["main"] = "copy" THEN seen \cup {rd[p].reading} ELSE seen
  /\ UNCHANGED <<alarm, BKP, call, arg, copy, utc, round, setTo, setAt, starts, half>>

\* RTC_Alarm_IRQHandler(), up to the reading of the calendar.
RTC_Alarm_IRQHandler ==
  /\ ALRAF /\ ALRAE /\ pc["main"] # "RtcInit"
  /\ Step("irq", "idle", "ssr")
  /\ ALRAF' = FALSE
  /\ UNCHANGED <<ALRMAR, ALRAE, BKP, RtcTimerContext, rd, call, arg, copy, utc, round,
                 history>>

-----------------------------------------------------------------------------
\* RtcInit(): as long as the calendar's year is 0, HAL_RTC_Init() takes the
\* calendar for not initialized and sets its prescaler anew, which costs the
\* fraction of the second.
RtcInit ==
  /\ pc["main"] = "RtcInit"
  /\ pc' = [pc EXCEPT !["main"] = "deactivate"]
  /\ SSR' \in IF DR.Year = 0 THEN {SSR, Sub - 1} ELSE {SSR}
  /\ starts' = starts + 1
  /\ UNCHANGED <<DR, TR, alarm, BKP, RtcTimerContext, rd, call, arg, copy, utc, elapsed,
                 calls, round, at, setTo, setAt, half, seen>>

Deactivate == ALRAE' = FALSE /\ ALRAF' = FALSE

RtcInitAlarm == /\ Step("main", "deactivate", "ssr")
                /\ Deactivate
                /\ UNCHANGED <<ALRMAR, BKP, RtcTimerContext, rd, call, arg, copy, utc, round,
                               history>>

Call(f, x, to) == /\ Goto("main", "idle", to)
                  /\ calls < MaxCalls /\ calls' = calls + 1
                  /\ call' = f /\ arg' = x
                  /\ utc' = 0
                  /\ UNCHANGED <<alarm, BKP, RtcTimerContext, rd, round, at,
                                 setTo, setAt, starts, half>>

GetUTCTime == Call("GetUTCTime", 0, "ssr") /\ UNCHANGED <<copy, seen>>
SetUTCTime(ms) == Call("SetUTCTime", ms, "ssr") /\ UNCHANGED <<copy, seen>>

\* SysTimeGet(), once the calendar is read.
SysTimeGet ==
  /\ call = "GetUTCTime"
  /\ Step("main", "read", "idle")
  /\ utc' = ToMs(SysTimeAdd([Seconds |-> BKP[1], SubSeconds |-> Int16(BKP[2])],
                            CalendarTime(rd["main"].reading)))
  /\ rd' = [rd EXCEPT !["main"] = Unread]
  /\ at' = 0
  /\ UNCHANGED <<alarm, BKP, RtcTimerContext, call, arg, copy, round, setTo, setAt,
                 starts, half, seen>>

\* SysTimeSet(), once the calendar is read: the two backup registers are
\* written one after the other.
Delta == SysTimeSub(FromMs(arg), CalendarTime(rd["main"].reading))

RtcBkupWrite0 == /\ call = "SetUTCTime"
                 /\ Step("main", "read", "bkup1")
                 /\ BKP' = [BKP EXCEPT ![1] = Delta.Seconds]
                 /\ setTo' = arg /\ setAt' = at /\ starts' = 0 /\ half' = TRUE
                 /\ UNCHANGED <<alarm, RtcTimerContext, rd, call, arg, copy, utc, round, at,
                                seen>>

RtcBkupWrite1 == /\ Step("main", "bkup1", "idle")
                 /\ BKP' = [BKP EXCEPT ![2] = Delta.SubSeconds]
                 /\ rd' = [rd EXCEPT !["main"] = Unread]
                 /\ arg' = 0 /\ at' = 0
                 /\ half' = FALSE
                 /\ UNCHANGED <<alarm, RtcTimerContext, call, copy, utc, round, setTo,
                                setAt, starts, seen>>

-----------------------------------------------------------------------------
\* RtcStartAlarm(): the context is copied field by field, in the compiler's order
\* (the release build loads each of them on its own), and only then is the alarm of
\* before stopped: its interrupt may set another context between any two fields.
CopyContext(timeout) ==
  /\ Call("RtcStartAlarm", timeout, "copy")
  /\ seen' = {RtcTimerContext}
  /\ UNCHANGED copy

Copied ==
  /\ Step("main", "copy", "stop")
  /\ \E y, m, d, h, mi, s, ss \in seen :
       copy' = [date |-> [Year |-> y.date.Year, Month |-> m.date.Month,
                          Date |-> d.date.Date],
                time |-> [Hours |-> h.time.Hours, Minutes |-> mi.time.Minutes,
                          Seconds |-> s.time.Seconds],
                sub  |-> ss.sub]
  /\ UNCHANGED <<alarm, BKP, RtcTimerContext, rd, call, arg, utc, round, history>>

RtcStopAlarm == /\ Step("main", "stop", "set_alarm")
                /\ Deactivate
                /\ UNCHANGED <<ALRMAR, BKP, RtcTimerContext, rd, call, arg, copy, utc,
                               round, history>>

SetAlarm == /\ Step("main", "set_alarm", "idle")
            /\ ALRMAR' = AlarmFor(copy, arg)
            /\ ALRAE' = TRUE /\ ALRAF' = FALSE
            /\ arg' = 0 /\ copy' = Epoch /\ seen' = {}
            /\ UNCHANGED <<BKP, RtcTimerContext, rd, call, utc, round, at, setTo, setAt,
                           starts, half>>

-----------------------------------------------------------------------------
\* The watchdog's reset: RAM is lost, the RTC's domain goes on.
Reset == /\ starts < MaxStarts
         /\ pc' = [main |-> "RtcInit", irq |-> "idle"]
         /\ RtcTimerContext' = Epoch /\ copy' = Epoch
         /\ rd' = [p \in Procs |-> Unread]
         /\ call' = "RtcInit" /\ arg' = 0 /\ utc' = 0
         /\ round' = [p \in Procs |-> 0]
         /\ at' = 0 /\ seen' = {}
         /\ UNCHANGED <<calendar, alarm, BKP, elapsed, calls, setTo, setAt, starts,
                        half>>

Main == \/ RtcInit \/ RtcInitAlarm \/ GetUTCTime \/ SysTimeGet
        \/ (\E ms \in Utcs : SetUTCTime(ms)) \/ RtcBkupWrite0 \/ RtcBkupWrite1
        \/ (\E t \in Timeouts : CopyContext(t)) \/ Copied \/ RtcStopAlarm \/ SetAlarm

Next == \/ Tick \/ Reset \/ Main \/ RTC_Alarm_IRQHandler
        \/ \E p \in Procs : Read(p) \/ RtcSetTimerContext(p)

Spec == Init /\ [][Next]_vars

-----------------------------------------------------------------------------
\* A reading of the calendar, register by register while it counts, and by the
\* interrupt in the middle of one by the main loop, gives the instant at which
\* it ends: no mixture of two, and the right number of ticks for every date
\* (board-rtc.cpp:413-432).
ReadIsNow ==
  [][\A p \in Procs : pc[p] = "again" /\ pc'[p] = "read" =>
       CalendarValue(rd[p].reading) = Instant]_vars

\* The alarm is set to the copy of the context plus the timeout, over the ends of
\* minutes, months and leap Februaries.  The copy is the context, unless the alarm of
\* before came between two of its fields: then it can be a mixture of two contexts,
\* and a date that is none (board-rtc.cpp:287-356).
AlarmIsContextPlusTimeout ==
  [][pc["main"] = "set_alarm" /\ pc'["main"] = "idle" =>
       LET sum  == TicksOfDay(copy.time, copy.sub) + arg
           day  == (DayNumber(copy.date) + sum \div DayTicks) % CenturyDays
           near == {copy.date.Year, (copy.date.Year + 1) % 100}
       IN  /\ ALRMAR'.time = TimeOf(sum % DayTicks)
           /\ ALRMAR'.sub = (Sub - 1) - (sum % Sub)
           /\ copy.date \in Dates =>
                \E d \in [Year : near, Month : 1..12, Date : 1..31] :
                  d \in Dates /\ DayNumber(d) = day /\ ALRMAR'.Date = d.Date
           /\ (\A r1, r2 \in seen : r1 = r2) => copy \in seen]_vars

\* The time of day a command set is kept: what is returned later is that time
\* and what has passed since, to the millisecond; each start costs less than a
\* second, and a reset between the two writes to the backup registers another,
\* either way (systime.c:99-118, board-rtc.cpp:446).
TimeKept ==
  [][pc["main"] = "read" /\ pc'["main"] = "idle" /\ call = "GetUTCTime" =>
       LET second == Sub * Ms
           period == second * Wrap32
           error  == (Sub * (utc' - setTo) - Ms * (at - setAt)) % period
       IN  \/ error < Sub + (IF half THEN second ELSE 0)
           \/ error > period - Sub - (starts + (IF half THEN 1 ELSE 0)) * second]_vars
=============================================================================
