------------------------------ MODULE AppCore ------------------------------
(***************************************************************************)
(* The application (apps/tensometer/app_core.cpp and main.cpp): one loop   *)
(* that calls app::Work() and refreshes the watchdog, and the interrupts   *)
(* that run between any two of its steps.                                  *)
(*                                                                         *)
(* A call of app::Work() is three steps, as in the code: the command       *)
(* processor's Work() ("receive"), the look at the external signal         *)
(* ("signal") and the switch over the application's state ("switch").  A   *)
(* measurement and the sleep end that call later, in steps of their own.   *)
(*                                                                         *)
(* The command processor is here at the grain of messages: a message is    *)
(* its marker and the rest of it (CmdProcessor has the details), and the   *)
(* three states in which it can send are one, "NO".  Time is abstract: of  *)
(* a deadline it is kept how the system tick compares with it, and only    *)
(* the watchdog and the alarm count, in units of 5 s.                      *)
(***************************************************************************)
EXTENDS Integers, Sequences

CONSTANTS Requests,    \* the requests to the device: records [cmd, channel]
          NChannels,   \* kNChannels
          LedPeriod,   \* kLedPeriodMs, in units of time
          WdgPeriod,   \* kWdgPeriodMs, in units of time
          MaxSends     \* bound: requests the master sends

Cmds == {"INFO", "MEASUREMENT", "OTHER", "BAD"}

\* channel_ is one byte less one, in an unsigned word: 0 becomes the largest.
Huge == NChannels + 100

ASSUME AppCoreAssumption ==
  /\ NChannels \in 1..99
  /\ Requests \subseteq [cmd : Cmds, channel : 0..(NChannels + 2)]
  /\ LedPeriod \in Nat \ {0} /\ WdgPeriod \in Nat /\ MaxSends \in Nat
  /\ LedPeriod < WdgPeriod

VARIABLES
  bus, inbox, portError, paused, writing,   \* the port
  link, request, end_read_time_ms_, answer, \* the command processor
  state_, error_, channel_, measurement_, end_wait_time_ms,   \* the application
  is_on_, is_signal_,                       \* ExternalSignal
  pc, wdg,                                  \* the loop, the watchdog
  alarm,       \* time to the RTC's alarm
  sinceAlarm,  \* age of RtcTimerContext, from which alarms are computed
  lost,        \* history: why no alarm ends this sleep
  owed, sends                               \* history

portVars == <<bus, inbox, portError, paused, writing>>
linkVars == <<link, request, end_read_time_ms_, answer>>
appVars == <<state_, error_, channel_, measurement_, end_wait_time_ms>>
signalVars == <<is_on_, is_signal_>>
rtcVars == <<alarm, sinceAlarm, lost>>
vars == <<portVars, linkVars, appVars, signalVars, pc, wdg, rtcVars, owed, sends>>

Marker == [cmd |-> "MARKER", channel |-> 0]
NoMsg == [cmd |-> "NO", channel |-> 0]
Channels == 0..(NChannels + 2)
Parts == {Marker} \cup Requests
AppStates == {"IDLE", "LED_ON", "SLEEP", "START_MEASUREMENT",
              "SENDING_MEASUREMENT", "ERROR", "MEASUREMENT_BY_SIGNAL"}
Steps == {"boot", "receive", "signal", "switch", "measure", "measureSignal",
          "hung", "wfi", "asleep", "awake"}
Never == -1   \* no alarm is set

\* How the tick of 32 bits, now, compares with a deadline, end: "ahead" if now > end
\* will hold in the time that was meant; "passed" if it does hold, which it also does
\* at once if the sum wrapped and end is small; "beyond" if now has wrapped since, or
\* if end is the last value, so that it comes true after up to 49 days or never.
Deadlines == {"ahead", "passed", "beyond"}

TypeOK ==
  /\ bus \in Seq(Parts) /\ inbox \in Seq(Parts)
  /\ portError \in BOOLEAN /\ paused \in BOOLEAN /\ writing \in BOOLEAN
  /\ link \in {"NO", "READING", "CMD_RECEIVED", "SEND_MSG", "SENDING_MSG"}
  /\ request \in Requests \cup {NoMsg}
  /\ {end_read_time_ms_, end_wait_time_ms} \subseteq Deadlines
  /\ answer \in [cmd : Cmds \cup {"NO"}, channel : Channels]
  /\ state_ \in AppStates
  /\ error_ \in {"NO", "ADC_ERROR"}
  /\ channel_ \in 0..(NChannels + 1) \cup {Huge}
  /\ measurement_ \in Channels
  /\ is_on_ \in BOOLEAN /\ is_signal_ \in BOOLEAN
  /\ pc \in Steps
  /\ wdg \in 0..WdgPeriod
  /\ alarm \in {Never} \cup 0..LedPeriod
  /\ sinceAlarm \in 0..LedPeriod
  /\ lost \in {"no", "over", "early"}
  /\ owed \in Channels
  /\ sends \in 0..MaxSends

\* The start of the program, main() up to the loop and app::Init().
Init ==
  /\ inbox = << >> /\ portError = FALSE /\ paused = FALSE /\ writing = FALSE
  /\ link = "NO" /\ request = NoMsg /\ answer = NoMsg
  /\ state_ = "IDLE" /\ error_ = "NO" /\ channel_ = 0 /\ measurement_ = 0
  /\ end_wait_time_ms = "passed" /\ end_read_time_ms_ = "passed"
  /\ is_on_ = TRUE /\ is_signal_ = FALSE
  /\ pc = "receive" /\ wdg = 0
  /\ alarm = Never /\ sinceAlarm = 0 /\ lost = "no"
  /\ owed = 0
  /\ bus = << >> /\ sends = 0

\* After a reset the program starts again; the bus does not notice.
Boot ==
  /\ pc = "boot"
  /\ inbox' = << >> /\ portError' = FALSE /\ paused' = FALSE /\ writing' = FALSE
  /\ link' = "NO" /\ request' = NoMsg /\ answer' = NoMsg
  /\ state_' = "IDLE" /\ error_' = "NO" /\ channel_' = 0 /\ measurement_' = 0
  /\ end_wait_time_ms' = "passed" /\ end_read_time_ms_' = "passed"
  /\ is_on_' = TRUE /\ is_signal_' = FALSE
  /\ pc' = "receive" /\ wdg' = 0
  /\ alarm' = Never /\ sinceAlarm' = 0 /\ lost' = "no"
  /\ owed' = 0
  /\ UNCHANGED <<bus, sends>>

-----------------------------------------------------------------------------
(***************************************************************************)
(* CmdProcessor.Work(), and the application's CmdHandler it calls.         *)
(***************************************************************************)
Receive == pc = "receive" /\ pc' = "signal" /\ UNCHANGED <<wdg, rtcVars, sends>>

\* An error of the port: everything in progress is given up.  The deadline of a
\* message that is read no more is not looked at again and is forgotten.
Restart ==
  /\ Receive /\ portError
  /\ inbox' = << >> /\ portError' = FALSE /\ paused' = FALSE /\ writing' = FALSE
  /\ link' = "NO" /\ end_read_time_ms_' = "passed"
  /\ UNCHANGED <<bus, request, answer, appVars, signalVars, owed>>

ReadMarker ==
  /\ Receive /\ ~portError
  /\ link = "NO" /\ inbox # << >>
  /\ inbox' = Tail(inbox)
  /\ IF Head(inbox) = Marker THEN link' = "READING" /\ end_read_time_ms_' \in Deadlines
                             ELSE UNCHANGED <<link, end_read_time_ms_>>
  /\ UNCHANGED <<bus, portError, paused, writing, request, answer, appVars,
                 signalVars, owed>>

\* Mutant of ReadTimeout: waits for the rest of the message for ever.
ReadTimeoutNever ==
  /\ Receive /\ ~portError
  /\ link = "READING" /\ end_read_time_ms_ = "passed"
  /\ UNCHANGED <<portVars, linkVars, appVars, signalVars, owed>>

ReadTimeout ==
  /\ Receive /\ ~portError
  /\ link = "READING" /\ end_read_time_ms_ = "passed"
  /\ link' = "NO"
  /\ UNCHANGED <<portVars, request, end_read_time_ms_, answer, appVars, signalVars, owed>>

\* The rest of the message; a marker there means that it was lost, and what
\* is read instead does not match its CRC.
ReadMessage ==
  /\ Receive /\ ~portError
  /\ link = "READING" /\ end_read_time_ms_ # "passed" /\ inbox # << >>
  /\ inbox' = Tail(inbox) /\ end_read_time_ms_' = "passed"
  /\ IF Head(inbox) = Marker
     THEN link' = "NO" /\ UNCHANGED request
     ELSE link' = "CMD_RECEIVED" /\ request' = Head(inbox)
  /\ UNCHANGED <<bus, portError, paused, writing, answer, appVars,
                 signalVars, owed>>

\* Mutant of NewChannel: signed.
NewChannelSigned == request.channel - 1

\* CmdHandler, MEASUREMENT.  channel_ is assigned before it is checked.
NewChannel == IF request.channel = 0 THEN Huge ELSE request.channel - 1

\* Mutant of HandleMeasurement: a measurement that is ready to be sent is.
HandleMeasurementKeeps ==
  IF state_ = "ERROR" THEN UNCHANGED <<state_, channel_, owed>>
  ELSE /\ channel_' = NewChannel
       /\ IF NewChannel > NChannels THEN UNCHANGED <<state_, owed>>
          ELSE /\ state_' = IF state_ = "SENDING_MEASUREMENT" THEN state_
                                                              ELSE "START_MEASUREMENT"
               /\ owed' = request.channel

HandleMeasurement ==
  IF state_ = "ERROR" THEN UNCHANGED <<state_, channel_, owed>>
  ELSE /\ channel_' = NewChannel
       /\ IF NewChannel > NChannels THEN UNCHANGED <<state_, owed>>
          ELSE state_' = "START_MEASUREMENT" /\ owed' = request.channel

\* Which of the other requests get an answer: none with wrong parameters, and
\* in the state ERROR only INFO.
Answered == \/ request.cmd = "INFO"
            \/ request.cmd = "OTHER" /\ state_ # "ERROR"

Handle ==
  /\ Receive /\ ~portError
  /\ link = "CMD_RECEIVED"
  /\ answer' = request
  /\ link' = IF Answered THEN "SEND_MSG" ELSE "NO"
  /\ IF request.cmd = "MEASUREMENT" THEN HandleMeasurement
                                    ELSE UNCHANGED <<state_, channel_, owed>>
  /\ UNCHANGED <<portVars, request, end_read_time_ms_, error_, measurement_,
                 end_wait_time_ms, signalVars>>

Transmit ==
  /\ Receive /\ ~portError
  /\ link = "SEND_MSG"
  /\ link' = "SENDING_MSG" /\ writing' = TRUE
  /\ UNCHANGED <<bus, inbox, portError, paused, request, end_read_time_ms_, answer, appVars,
                 signalVars, owed>>

Transmitted ==
  /\ Receive /\ ~portError
  /\ link = "SENDING_MSG" /\ ~writing
  /\ link' = "NO"
  /\ UNCHANGED <<portVars, request, end_read_time_ms_, answer, appVars, signalVars, owed>>

NothingToDo ==
  /\ Receive /\ ~portError
  /\ \/ link = "NO" /\ inbox = << >>
     \/ link = "READING" /\ end_read_time_ms_ # "passed" /\ inbox = << >>
     \/ link = "SENDING_MSG" /\ writing
  /\ UNCHANGED <<portVars, linkVars, appVars, signalVars, owed>>

CommandProcessorWork ==
  Restart \/ ReadMarker \/ ReadTimeout \/ ReadMessage \/ Handle \/ Transmit
          \/ Transmitted \/ NothingToDo

-----------------------------------------------------------------------------
(***************************************************************************)
(* The rest of app::Work().                                                *)
(***************************************************************************)

\* The signal overrides every state but ERROR.
SignalSeen == state_ # "ERROR" /\ is_on_ /\ is_signal_

\* Mutant of LookAtSignal: it overrides ERROR as well.
LookAtSignalAlways ==
  /\ pc = "signal" /\ pc' = "switch"
  /\ IF is_on_ /\ is_signal_
     THEN state_' = "MEASUREMENT_BY_SIGNAL" /\ is_on_' = FALSE
     ELSE UNCHANGED <<state_, is_on_>>
  /\ UNCHANGED <<portVars, linkVars, error_, channel_, measurement_, end_wait_time_ms,
                 is_signal_, wdg, rtcVars, owed, sends>>

LookAtSignal ==
  /\ pc = "signal" /\ pc' = "switch"
  /\ IF SignalSeen THEN state_' = "MEASUREMENT_BY_SIGNAL" /\ is_on_' = FALSE
                   ELSE UNCHANGED <<state_, is_on_>>
  /\ UNCHANGED <<portVars, linkVars, error_, channel_, measurement_, end_wait_time_ms,
                 is_signal_, wdg, rtcVars, owed, sends>>

\* app::Work() returns and the watchdog is refreshed.
EndPass == pc' = "receive" /\ wdg' = 0

\* Mutant of Idle: begins to wait for the signal again.
IdleRearms ==
  /\ pc = "switch" /\ state_ = "IDLE"
  /\ state_' = "LED_ON" /\ end_wait_time_ms' \in Deadlines
  /\ is_on_' = TRUE /\ is_signal_' = FALSE
  /\ EndPass
  /\ UNCHANGED <<portVars, linkVars, error_, channel_, measurement_, rtcVars,
                 owed, sends>>

Idle ==
  /\ pc = "switch" /\ state_ = "IDLE"
  /\ state_' = "LED_ON" /\ end_wait_time_ms' \in Deadlines
  /\ EndPass
  /\ UNCHANGED <<portVars, linkVars, error_, channel_, measurement_, signalVars,
                 rtcVars, owed, sends>>

LedOn ==
  /\ pc = "switch" /\ state_ = "LED_ON"
  /\ state_' = IF end_wait_time_ms = "passed" THEN "SLEEP" ELSE state_
  /\ EndPass
  /\ UNCHANGED <<portVars, linkVars, error_, channel_, measurement_, end_wait_time_ms,
                 signalVars, rtcVars, owed, sends>>

\* RtcStartAlarm() adds the period to the saved context, not to the present
\* time; an alarm at a time that is over does not come.
StartSleep ==
  /\ pc = "switch" /\ state_ = "SLEEP"
  /\ IF sinceAlarm < LedPeriod
     THEN alarm' = LedPeriod - sinceAlarm /\ lost' = "no"
     ELSE alarm' = Never /\ lost' = "over"
  /\ pc' = "wfi"
  /\ UNCHANGED <<portVars, linkVars, appVars, signalVars, wdg, sinceAlarm, owed,
                 sends>>

\* WFI.  What was handled before it does not wake the core.
EnterSleep ==
  /\ pc = "wfi" /\ pc' = "asleep"
  /\ UNCHANGED <<portVars, linkVars, appVars, signalVars, wdg, rtcVars, owed, sends>>

WakeUp ==
  /\ pc = "awake"
  /\ state_' = "IDLE"
  /\ lost' = "no"
  /\ EndPass
  /\ UNCHANGED <<portVars, linkVars, error_, channel_, measurement_, end_wait_time_ms,
                 signalVars, alarm, sinceAlarm, owed, sends>>

StartMeasurement ==
  /\ pc = "switch" /\ state_ = "START_MEASUREMENT"
  /\ paused' = TRUE
  /\ pc' = "measure"
  /\ UNCHANGED <<bus, inbox, portError, writing, linkVars, appVars, signalVars,
                 wdg, rtcVars, owed, sends>>

\* Mutant of Measured: no Resume() on the error path.
MeasuredNoResume(e) ==
  /\ pc = "measure"
  /\ error_' = e
  /\ IF e = "NO"
     THEN /\ paused' = FALSE
          /\ measurement_' = channel_ + 1 /\ state_' = "SENDING_MEASUREMENT"
     ELSE state_' = "ERROR" /\ UNCHANGED <<measurement_, paused>>
  /\ EndPass
  /\ UNCHANGED <<bus, inbox, portError, writing, linkVars, channel_, end_wait_time_ms,
                 signalVars, rtcVars, owed, sends>>

\* The measurement ends, with an error of the ADC or without.
Measured(e) ==
  /\ pc = "measure"
  /\ error_' = e
  /\ paused' = FALSE
  /\ IF e = "NO"
     THEN measurement_' = channel_ + 1 /\ state_' = "SENDING_MEASUREMENT"
     ELSE state_' = "ERROR" /\ UNCHANGED measurement_
  /\ EndPass
  /\ UNCHANGED <<bus, inbox, portError, writing, linkVars, channel_, end_wait_time_ms,
                 signalVars, rtcVars, owed, sends>>

\* SendMsg(), as soon as the command processor can send.
SendMeasurement ==
  /\ pc = "switch" /\ state_ = "SENDING_MEASUREMENT"
  /\ IF link = "NO"
     THEN /\ answer' = [cmd |-> "MEASUREMENT", channel |-> measurement_]
          /\ link' = "SEND_MSG" /\ state_' = "IDLE" /\ owed' = 0
     ELSE UNCHANGED <<answer, link, state_, owed>>
  /\ EndPass
  /\ UNCHANGED <<portVars, request, end_read_time_ms_, error_, channel_, measurement_,
                 end_wait_time_ms, signalVars, rtcVars, sends>>

\* The deadline is the one LED_ON left behind.
ErrorState ==
  /\ pc = "switch" /\ state_ = "ERROR"
  /\ IF end_wait_time_ms = "passed" THEN pc' = "boot" /\ UNCHANGED wdg ELSE EndPass
  /\ UNCHANGED <<portVars, linkVars, appVars, signalVars, rtcVars, owed, sends>>

StartSignalMeasurement ==
  /\ pc = "switch" /\ state_ = "MEASUREMENT_BY_SIGNAL"
  /\ pc' = "measureSignal"
  /\ UNCHANGED <<portVars, linkVars, appVars, signalVars, wdg, rtcVars, owed, sends>>

\* The last channel is measured; the error is kept but not acted on.
SignalMeasured(e) ==
  /\ pc = "measureSignal"
  /\ error_' = e
  /\ measurement_' = IF e = "NO" THEN NChannels ELSE measurement_
  /\ is_on_' = TRUE /\ is_signal_' = FALSE
  /\ state_' = "IDLE"
  /\ EndPass
  /\ UNCHANGED <<portVars, linkVars, channel_, end_wait_time_ms, rtcVars, owed, sends>>

\* FAnswerReader::ReadData() waits for the ADC without a limit.
Hang ==
  /\ pc \in {"measure", "measureSignal"}
  /\ pc' = "hung"
  /\ UNCHANGED <<portVars, linkVars, appVars, signalVars, wdg, rtcVars, owed, sends>>

Loop == \/ Boot \/ CommandProcessorWork \/ LookAtSignal
        \/ Idle \/ LedOn \/ StartSleep \/ EnterSleep \/ WakeUp
        \/ StartMeasurement \/ SendMeasurement \/ ErrorState
        \/ StartSignalMeasurement \/ Hang
        \/ \E e \in {"NO", "ADC_ERROR"} : Measured(e) \/ SignalMeasured(e)

-----------------------------------------------------------------------------
(***************************************************************************)
(* Interrupts.  Each of them wakes the core.  The system tick is stopped   *)
(* during the sleep, so that no deadline passes then.                      *)
(***************************************************************************)

\* Mutant of Wake: the interrupt does not end the sleep.
WakeNot == UNCHANGED pc

Wake == pc' = IF pc = "asleep" THEN "awake" ELSE pc

\* A part of a message arrives; it is dropped while the reader is paused and
\* before the port is open.
Arrive ==
  /\ bus # << >>
  /\ bus' = Tail(bus)
  /\ inbox' = IF paused \/ pc = "boot" THEN inbox ELSE Append(inbox, Head(bus))
  /\ Wake
  /\ UNCHANGED <<portError, paused, writing, linkVars, appVars, signalVars, wdg,
                 rtcVars, owed, sends>>

\* A part of a message is lost, with an error of the port or without.
Lose ==
  /\ bus # << >>
  /\ bus' = Tail(bus)
  /\ portError' \in {portError, pc # "boot"}
  /\ Wake
  /\ UNCHANGED <<inbox, paused, writing, linkVars, appVars, signalVars, wdg,
                 rtcVars, owed, sends>>

TxComplete ==
  /\ writing /\ pc # "boot"
  /\ writing' = FALSE
  /\ Wake
  /\ UNCHANGED <<bus, inbox, portError, paused, linkVars, appVars, signalVars,
                 wdg, rtcVars, owed, sends>>

ExternalSignal ==
  /\ is_on_ /\ ~is_signal_ /\ pc # "boot"
  /\ is_signal_' = TRUE
  /\ Wake
  /\ UNCHANGED <<portVars, linkVars, appVars, is_on_, wdg, rtcVars, owed, sends>>

\* The alarm comes once; its handler saves a new context.  Between RtcStartAlarm()
\* and WFI it comes too early to end the sleep.
RtcAlarm ==
  /\ alarm = 0
  /\ alarm' = Never /\ sinceAlarm' = 0
  /\ lost' = IF pc = "wfi" THEN "early" ELSE lost
  /\ Wake
  /\ UNCHANGED <<portVars, linkVars, appVars, signalVars, wdg, owed, sends>>

Ticking == pc \notin {"asleep", "boot"}

\* A deadline passes, for reading a message or end_wait_time_ms: in time ("ahead"),
\* or when the tick has come round again ("beyond").
ReadDeadline(end) ==
  /\ Ticking /\ link = "READING" /\ end_read_time_ms_ = end
  /\ end_read_time_ms_' = "passed"
  /\ UNCHANGED <<portVars, link, request, answer, appVars, signalVars, pc, wdg,
                 rtcVars, owed, sends>>

WaitDeadline(end) ==
  /\ Ticking /\ end_wait_time_ms = end
  /\ end_wait_time_ms' = "passed"
  /\ UNCHANGED <<portVars, linkVars, state_, error_, channel_, measurement_,
                 signalVars, pc, wdg, rtcVars, owed, sends>>

\* The tick wraps, every 49 days, but not before a deadline that is ahead; one that
\* had passed has not any more.
Wrapped(end) == IF end = "passed" THEN "beyond" ELSE end

ClockWraps ==
  /\ Ticking /\ end_wait_time_ms # "ahead"
  /\ end_wait_time_ms' = Wrapped(end_wait_time_ms)
  /\ IF link = "READING"
     THEN /\ end_read_time_ms_ # "ahead"
          /\ end_read_time_ms_' = Wrapped(end_read_time_ms_)
     ELSE UNCHANGED end_read_time_ms_
  /\ UNCHANGED <<portVars, link, request, answer, state_, error_, channel_,
                 measurement_, signalVars, pc, wdg, rtcVars, owed, sends>>

\* A unit of time passes.  While the program runs the watchdog is refreshed
\* far more often than that; a measurement takes one unit at most, and so does the
\* way from RtcStartAlarm() to WFI, where a unit may just end.
Elapse ==
  /\ \/ pc = "receive" /\ wdg' = wdg
     \/ pc \in {"measure", "measureSignal", "wfi"} /\ wdg = 0 /\ wdg' = 1
     \/ pc \in {"asleep", "hung"} /\ wdg < WdgPeriod /\ wdg' = wdg + 1
  /\ alarm # 0
  /\ alarm' = IF alarm = Never THEN Never ELSE alarm - 1
  /\ sinceAlarm' = IF sinceAlarm = LedPeriod THEN sinceAlarm ELSE sinceAlarm + 1
  /\ UNCHANGED <<portVars, linkVars, appVars, signalVars, pc, lost, owed, sends>>

WatchdogReset ==
  /\ wdg = WdgPeriod /\ pc # "boot"
  /\ pc' = "boot"
  /\ UNCHANGED <<portVars, linkVars, appVars, signalVars, wdg, rtcVars, owed, sends>>

Interrupt == \/ Arrive \/ Lose \/ TxComplete \/ ExternalSignal \/ RtcAlarm
             \/ (\E end \in {"ahead", "beyond"} : ReadDeadline(end) \/ WaitDeadline(end))
             \/ ClockWraps \/ Elapse \/ WatchdogReset

\* The master sends a request when the bus is free.
Send(r) ==
  /\ bus = << >> /\ sends < MaxSends
  /\ bus' = <<Marker, r>>
  /\ sends' = sends + 1
  /\ UNCHANGED <<inbox, portError, paused, writing, linkVars, appVars, signalVars,
                 pc, wdg, rtcVars, owed>>

Next == Loop \/ Interrupt \/ \E r \in Requests : Send(r)

Spec == Init /\ [][Next]_vars

\* The loop runs on, time passes, and the hardware does what was asked of it.  That
\* the tick comes round again in 49 days is not counted on.
Fairness == /\ WF_vars(Loop)
            /\ WF_vars(TxComplete)
            /\ WF_vars(RtcAlarm)
            /\ WF_vars(ReadDeadline("ahead"))
            /\ WF_vars(WaitDeadline("ahead"))
            /\ WF_vars(Elapse)
            /\ WF_vars(WatchdogReset)

FairSpec == Spec /\ Fairness

-----------------------------------------------------------------------------
\* The measurement that is about to be sent is that of the channel the master
\* asked for last (app_core.cpp:216-220 against 147-154), whatever requests and
\* signals came while it was made and while it waited to be sent.
AnswerMatchesRequest == state_ = "SENDING_MEASUREMENT" => measurement_ = owed

\* Reception is paused only during a measurement, so that no path out of it
\* leaves the device deaf (app_core.cpp:134-141).
PausedOnlyWhileMeasuring == paused => pc \in {"measure", "hung", "boot"}

\* The state ERROR is left only by a reset (app_core.cpp:107, 157-167), neither
\* by a request nor by a signal.
ErrorUntilReset ==
  [][state_ = "ERROR" => state_' = "ERROR" \/ pc = "boot"]_vars

\* The watchdog resets only a program that hangs in a measurement, or one asleep with
\* no alarm to come: the context was so old that the alarm was over when it was set,
\* or the alarm came between RtcStartAlarm() and WFI.  A sleep that waits for its
\* alarm ends before the watchdog's period (app_config.h:10-11).
WatchdogSparesTheSound ==
  [][WatchdogReset => pc = "hung" \/ (lost # "no" /\ alarm = Never)]_vars

\* Where the program waits for now > end with an end out of reach (app_core.cpp:121,
\* 159; cmd-processor.cpp:54).
WaitsForWrap ==
  \/ state_ \in {"LED_ON", "ERROR"} /\ end_wait_time_ms = "beyond"
  \/ state_ = "SENDING_MEASUREMENT" /\ link = "READING" /\ end_read_time_ms_ = "beyond"

\* Whatever the bus, the signal and the measurements do, the application comes back
\* to IDLE: no message that is never completed keeps it from sending, and no wait is
\* without an end, but for a deadline that the system tick wrapped past or that is
\* its last value.
BackToIdle == []<>(state_ = "IDLE" \/ WaitsForWrap)

\* A signal is followed by its measurement, even if it came just before the core went
\* to sleep; only a reset may forget it, and ERROR keep it while waiting for one.
SignalServed == is_signal_ ~> \/ pc \in {"measureSignal", "boot"}
                              \/ state_ = "ERROR" /\ WaitsForWrap

\* Only channels the device has are measured (doc/rd-protocol.md:13 and 69: a
\* request with wrong parameters is ignored; channels are counted from 1).
ChannelExists == pc = "measure" => channel_ < NChannels

Measuring == {"START_MEASUREMENT", "SENDING_MEASUREMENT"}

\* An accepted measurement request is answered (doc/rd-protocol.md:34, 71)
\* unless the measurement fails, the device is reset, or a newer request
\* takes its place.
AcceptedIsAnswered ==
  [][~(state_ \in Measuring) \/ state_' \in Measuring \cup {"ERROR"}
     \/ (link' = "SEND_MSG" /\ answer'.cmd = "MEASUREMENT")
     \/ pc = "boot"]_vars

\* The alarm is set at the present time plus the timeout, as the comments of
\* board-rtc.cpp:255 and 297 say.
AlarmFromNow == [][StartSleep => alarm' = LedPeriod]_vars
=============================================================================
