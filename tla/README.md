# rd-rs485: a formal model of the firmware

`rd-rs485` is the firmware of a string-strain-gauge module (STM32F373, one
core, no operating system): a main loop calls `app::Work()` and refreshes the
watchdog, interrupts do the rest. A master on an RS485 bus asks for device
information and for measurements; an external signal starts a measurement of
its own; between them the device sleeps and blinks.

This directory holds TLA+ modules of that firmware, the TLC runs that check
them and the TLAPS proofs about them. `PROJECT.json` lists the components, the
runs, the source lines every definition models, the mutants (changes of a
definition that a property must notice), the findings, the hazards and the
theorems.

## 1. Inventory

| component | source (`src/src/`) | state it keeps | operations |
|---|---|---|---|
| receive ring | `utils/round_buf.hpp` | `buf_`, `write_ind_`, `read_ind_` | `PushBack` (interrupt), `Size`, `Read`, `Reset` (main loop) |
| RS485 port and UART driver | `peripherals/rs485.cpp`, `boards/rd10/board-uart.cpp`, on the vendor's `stm32f3xx_hal_uart.c` | ring, `error_`, `is_read_pause_`, `is_writing`, `is_reading`, `tx_buf_`, the HAL's handle, the USART's flags | `On/Off/Config/StartRead`, `StartWrite`, `ReadPause/Resume`, the interrupt handler and its three callbacks |
| command processor | `apps/tensometer/cmd-processor.cpp` | `state_`, `buf_rx_`, `buf_tx_`, `end_read_time_ms_` | `Work`, `SendMsg`, `Pause`, `Resume`, `IsCanSend` |
| application | `apps/tensometer/app_core.cpp`, `main.cpp` | `state_`, `error_`, `channel_`, `measurement_`, `end_wait_time_ms` | `Init`, `Work`, `CmdHandler` |
| external signal | `apps/tensometer/external-signal.cpp` | `is_on_`, `is_signal_` | `StartWait`, `Stop`, interrupt |
| sleep, alarm, watchdog | `boards/rd10/board.cpp`, `board-rtc.cpp` | alarm, `RtcTimerContext`, watchdog counter | `LpmEnterSleepMode`, `RtcStartAlarm`, alarm interrupt, `RefreshIWDG` |
| measurement | `f-impulse-generator.cpp`, `f-answer-reader.cpp`, `temp_sensor.cpp`, `board-adc.cpp` | pins, two ADCs, one flag `adc_value_ready` for both, a DMA buffer | `Generate`, `ReadData`, `CalculateFreq`, `GetResistance`, the conversions' interrupts |
| log | `utils/log.cpp`, `utils/shift-static-vectors.hpp` | three buffers, `tx_complete_` | `Out`, `Flush`, `IsTransmited`, transmit interrupt |
| system time, calendar | `system/systime.c`, `board-rtc.cpp`, `peripherals/gtime.cpp` | RTC calendar, two backup registers, `RtcTimerContext` | `RtcGetCalendarValue`, `RtcStartAlarm`, `SysTimeGet`, `SysTimeSet`, alarm interrupt |
| timer list | `system/timer.c` | sorted list of timers | start, stop, interrupt (no timer is ever created) |

How they interact: the UART interrupt pushes each byte into the ring; the main
loop polls it through the command processor, which assembles a message, checks
it and calls the application's `CmdHandler`. The handler answers at once
(the processor transmits), ignores the message, or, for a measurement, changes
the application's state and leaves the answer to a later call of `Work()`. The
application pauses reception while it measures. Everything is shared memory
without locks: interrupts are atomic towards the main loop, which is preempted
between any two accesses.

What is hard here: the interrupt between two looks at a volatile index; a
message cut, damaged, overrun or left over by a timeout, over a buffer that is
never cleared; a driver that takes bytes from under the vendor's interrupt
handler and relies on that handler finding nothing; the order of request, signal,
measurement, second request and answer; one flag for the conversions of two ADCs;
the wait for an interrupt that has come already; a calendar read register by
register while it counts; deadlines compared in wrapping milliseconds; alarms
computed from an old context; a reset between two writes that belong together;
waits without limit that only the watchdog ends. `PROJECT.json` lists each at
its line, with the properties that would notice it going wrong.

## 2. Modules

    BoundedFifo  <--refines--  RoundBuf         (MCRoundBuf, RoundBufProofs)
       ^-----refines---------  Log              (MCLog, LogProofs)
    Rs485        <--refines--  Uart             (MCUart, UartProofs, UartPortProofs)
       ^ EXTENDS               uses the ring as that queue
    CmdProcessor               (MCCmdProcessor, CmdProcessorProofs)
    AppCore                    (MCAppCore, AppCoreProofs)
                               the processor at the grain of messages, the
                               measurement as one step with three outcomes
    Measurement                (MCMeasurement, MeasurementProofs)
                               that step, taken apart
    Rtc                        (MCRtc, RtcProofs)
                               the calendar and the alarm AppCore counts in
                               units of 5 s

* **RoundBuf** is `utils::RoundBuf` under interrupts. The main loop's `Size()`
  and `Read()` are cut into steps so that each touches the volatile
  `write_ind_` once (`SizeCompare`, `SizeReturn`, `ReadCheck`, `ReadCompare`,
  `ReadClamp`, `ReadBranch`, `ReadCopy` per element, `ReadReturn`); `PushBack`
  may run between any two. `SizeAfter` is computed modulo `SizeMod` (2^32), so
  the subtraction underflows as the code's does.
* **BoundedFifo** is what a receive buffer promises: a queue that refuses what
  does not fit. `RoundBuf!ImplementsFifo` and `Log!ImplementsFifo` are the
  refinements: the same promise, made by a ring the interrupt fills and by
  buffers the interrupt drains.
* **Rs485** is the port with the bus. The buffer is the queue RoundBuf was
  proved to be; the size check that can be fooled at the wrap is kept
  (`SizeFooled`). `Arrive`, `IrqHandleErr`, `IrqHandleTx` are the interrupts;
  `Damage` and `Lose` are the bus; `Reopen` is the `Off(); Start()` of a restart.
  `Rs485Spec` is the port by itself, for any caller (and `Heard`, any other device).
* **Uart** is what is under that port: the USART's flags and interrupt enables,
  `USART2_IRQHandler` with `RxByOneByte`, the HAL's handler in the two steps
  between which a byte can arrive (`irq`), the DMA, and `Off`, `Config`, `On`,
  `StartRead`, `StartWrite` cut where an interrupt can fall between (`pc`). The
  HAL's handle (`RxState`, `RxISR`, `gState`, `ErrorCode`) is state because the
  driver works only while it leaves the handle as the HAL expects it.
  `Uart!ImplementsRs485` is the refinement: the byte in RDR and those on the bus
  are the port's `line`; while the port is being opened again (`Closed`) it shows
  what `Reopen` left.
* **CmdProcessor** has one action per state and outcome of `Work()`, plus what
  the application does to it (`Pause`, `Resume`, `SendMsg`, `MeasureBySignal`). A frame is
  a sequence of symbols: marker, address, the rest of the header (command, size
  and CRC are one symbol) and data. `buf_rx_` is overlaid, never cleared, as in
  the code. The clock is modulo `MsMod`. `Tick` waits for a call of `Work()` in each
  millisecond, but `MeasureBySignal` does not: that measurement is one call of
  `app::Work()` of up to a turn of the clock, whatever the processor is reading. It is
  one step here because reception goes on during it and nothing looks at the port, so
  that what arrives during it is not told from what arrives before or after.
  `skipped` is a history variable: the clock wrapped past the deadline of the message
  being read, nobody looked, and it has not passed that deadline again.
* **AppCore** is the loop of `main()`: `pc` says where in `app::Work()` it is,
  interrupts run between its steps. The command processor appears with its
  outcomes only. The sleep is split where it matters, at WFI: an interrupt
  before it does not wake the core, and that can be the alarm itself, if a unit of
  time ends there (`Elapse`). `lost` is a history variable: why a sleep has no alarm
  to come, because it was over when it was set or was handled before WFI. The two
  deadlines are kept by what `tick > end` decides: "ahead", "passed", or "beyond" if
  it stays false until the 32-bit tick has come round, because the end is its last
  value or because the tick wrapped after the end had passed (`ClockWraps`). `Boot` is
  a reset's restart.

* **Log** is `utils::log` with its buffers. `pc` is the main loop's place in
  `Out()`, `Flush()` and `IsTransmited()`; each step looks at one of
  `tx_complete_`, `write_buffer_`, `read_buffer_`, and the UART (`Transmit`) and
  its handler (`TxComplete`) come between any two, with one exception (section 5).

* **Measurement** is `Measurement()` with both of its callers and the two
  conversion interrupts (`Sampled`, `Convert`), which come between any two steps
  or never. `pc` follows `Generate`, `ReadData`, `CalculateFreq` and
  `GetResistance`; `on` is the set of pins driven high, `open` and `converts` the
  ADCs. What a conversion is worth is abstracted to what the code decides by it:
  too low for the first resistor, or good. `AdcReadWithTimeout()` is cut between
  its look at the flag, its look at the clock, the clearing of the flag and the
  reading of the value. `AdcStartDma()` is cut at the wait for the SDADC's
  calibration, which has no limit (`Calibrated`).
* **Rtc** has the calendar's three registers counting down and over midnights,
  months and years, `RtcGetCalendarValue()` reading them one by one (`rd`) both in
  the main loop and in the alarm's interrupt, `RtcStartAlarm()` from the copy of
  the context to the alarm's registers, and the time of day as a difference in
  two backup registers, written one after the other. `Reset` comes at any step and
  leaves the RTC's domain alone. `Copied` takes each of the seven fields of the
  context by itself, as the code's two struct copies may, from any context there was
  since the copying began (`seen`, a history variable): the old alarm is stopped only
  afterwards and its interrupt may come between any two. `DayNumber` is the reference: days counted year
  by year and month by month; `CalendarDays` is the firmware's formula.

Each `...Proofs` module holds the theorems about the module of its name;
`UartPortProofs` the refinement of the port.

Variables and actions keep the names of the source where TLA+ allows it.

## 3. What is checked

| run | module, cfg | shows |
|---|---|---|
| `roundbuf` | MCRoundBuf | no read past the stored elements (`NoOverRead`); a short read only at the wrap (`ShortReadOnlyAtWrap`); the ring is a bounded queue (`ImplementsFifo`) |
| `cmd_processor` | MCCmdProcessor | no command is carried out that was not sent, or more often, unless a read was short (`NoReplayUnlessTorn`); while nothing is damaged, lost, dropped or late, every request to the device is carried out (`NothingMissed`); port and state machine agree who transmits (`WritingIsSending`); every message sent has the answer flag (`AnswerFlagSet`); the machine always comes back to where it can send, but from a message whose deadline is the last value of the clock or was wrapped past unseen (`ComesBack`) |
| `cmd_torn` | MCCmdProcessor, MCCmdProcessorTorn.cfg | violated, see findings |
| `app_safety` | MCAppCore | the answer is that of the last request (`AnswerMatchesRequest`); reception is not left paused (`PausedOnlyWhileMeasuring`); ERROR ends only in a reset (`ErrorUntilReset`); the watchdog bites only in a hang, or in a sleep whose alarm was over when set or came before WFI (`WatchdogSparesTheSound`) |
| `app_liveness` | MCAppCore, MCAppCoreLiveness.cfg | the application always returns to IDLE (`BackToIdle`) and a signal is served (`SignalServed`), except where `now > end` stays false for 49 days (`WaitsForWrap`) |
| `log` | MCLog | the buffer under transmission is left alone (`SendingKept`); what was accepted comes out once and in order (`ImplementsFifo`); `while(!IsTransmited())` ends (`WaitEnds`), and only when all is out (`WaitEndsDrained`) |
| `uart` | MCUart | the one-byte reception is never ended behind the driver's back (`ReceptionKept`); no byte is lost without a report (`NoSilentLoss`); `is_writing` agrees with the HAL (`WritingIsReal`); the transmit buffer is left alone while the DMA reads it (`TxBufKept`); an error always ends in an open port (`Reopens`); the driver implements the port (`ImplementsRs485`) |
| `measurement` | MCMeasurement | every way out switches everything off (`EverythingOff`); frequency and resistance are of this measurement (`SamplesAreFresh`, `ResistanceIsMeasured`); a reading gives up only after its timeout (`GivesUpLate`); the result sent is of one measurement (`SentIsWhole`); it ends, but for the three waits that only the watchdog ends: for the SDADC's calibration, for its samples, and for a deadline that is the clock's last value (`Ends`) |
| `rtc` | MCRtc | a reading of the calendar is the instant it ends at (`ReadIsNow`); the alarm is the copy of the context plus the timeout over every midnight, and the copy is one context unless the old alarm's interrupt came between two of its fields (`AlarmIsContextPlusTimeout`); the time a command set is kept (`TimeKept`) |
| `app_channel`, `app_answered`, `app_alarm` | MCAppCore | violated, see findings |

**Bounds.** `roundbuf`: four slots, reads of 1 to 3, two values: the index
wraps in every phase of a read and the array is smaller than two reads;
unbounded otherwise. `cmd_processor`: two frames to this device, each sent once,
so that the leftovers of one can meet the other; a ring of five slots, which one
frame fills and two overflow; three clock values with a limit of one give a
deadline that passes, one that is over at once and one that never comes, and a
measurement by the signal of one or two milliseconds can go past each of them.
`app_safety`: two channels (the codes are 0, the two and, in `app_channel`, one
more), two requests at any time, the sleep two units and the watchdog three (10 s
and 15 s in units of 5 s). Liveness uses one kind of request twice.
`log`: the three buffers of the code, two messages each, so that the write buffer
fills while the UART is busy and both pointers go round.
`uart`: a ring of two symbols, which two more overflow; one good symbol and the
damaged one; two messages, so that one can meet the other's buffer.
`measurement`: two channels, three readings instead of seven, so that the median
can rest on two of them, a timeout of one and a clock of four, which wraps within a
measurement. `rtc`: a day of 24 ticks of a third of a second, from the last tick
before midnight of 28 February 2000 and 2001, of 31 January 2002 (so that a torn copy
can be 31 February, a date that is none) and of 31 December 2027; six ticks go
through a midnight and into the next minutes; two calls of the main loop and one
restart let a reset fall between the two backup registers and an old alarm into the
start of a new one. The day count is evaluated for all dates of the hundred years.
`MaxSends`, `MaxSent`, `ClearMax`, `MaxTicks`, `MaxCalls` and `MaxStarts` are the
only bounds that are not the code's; `rtc` stops when they are reached, so that
deadlock is not checked there.

**Fairness.** `CmdProcessor`: `Work` (the main loop calls it for ever), `Tick`
(the hardware timer) and the end of a transmission (DMA). `AppCore`: the loop
(one thread, never preempted for good), the clock (`Elapse`, and the two deadlines
that are "ahead", not those that wait for the tick to come round), the RTC's alarm
once it is due, the transmission's end and the watchdog. `Log`:
the main loop's steps, the UART and its handler, not `Out()` or the waits.
`Measurement`: the main loop and the clock; nothing is assumed of the ADCs, neither
that the SDADC's calibration or transfer ends, which the code awaits without a limit,
nor that the other ADC converts, whose readings have a timeout. `Uart`:
the handler, the steps of a call that is under way, and that a pause ends, which
is `AppCore!PausedOnlyWhileMeasuring` with a measurement that ends. None is assumed
of the bus, the master or the signal. All of it is weak fairness, as each of these
stays enabled until it happens, but for one: `Off` is fair in the strong sense,
because the caller looks at the error only in every pass of its loop and the other
calls of a pass may come between.

**Findings** (violation runs; details and lines in `PROJECT.json`):
1. `cmd_torn`: `Size()` reads `write_ind_` twice. When the interrupt wraps it
   in between, `Work()` reads fewer bytes than it asked for, ignores the count and
   takes the rest from the previous message: a truncated message is completed by
   an old one and carried out.
2. `app_channel`: `channel_ > kNChannels` should be `>=`: channel 5 of 4 is
   measured, through null pointers.
3. `app_answered`: a signal overwrites the state of an accepted measurement,
   whose answer then never comes.
4. `app_alarm`: the alarm is computed from the context of the last alarm, not
   from now as the comments say.

## 4. What is proved

The theorems hold for every value of the constants that meets the assumption
named in the module (`RoundBufAssumption`, `Rs485Assumption`, ...); TLC evaluates
each on its run. Three deserve a word. `AppCoreAssumption` has `LedPeriod <
WdgPeriod`: the sleep fits into the watchdog's time. `OnlyHeadersSpellFrames` says
that a symbol that stands for a header with its CRC is on the bus only where that
header was sent: this is the perfect CRC again, without which a data byte could be
a command. `TimeAssumption` (of `Rtc`) has timeouts of less than 24 days and a
two-digit year that does not run out within the ticks looked at: the only caller of
`RtcStartAlarm()` sleeps seconds, and with longer timeouts the alarm's day, wrapped
once by the days of the month, could be none, first for a torn date.

* **RoundBuf.** `TypeOK` alone is not inductive: the reader's promise about what
  is stored has to be carried from step to step while the interrupt pushes.
  `ReaderInv` does that: `NotEmpty` (past the size check something is stored),
  `Promised` (what `Size()` reported is there, or the write index has wrapped
  behind the read index), `Compared` (an outcome "greater" of the comparison is
  still true, as pushes never undo it), `Settled` (the clamped length is stored,
  and is short only in the wrapped case) and `Copied` (the branch taken fits the
  length). From `TypeOK /\ ReaderInv` follow `NoOverRead` and
  `ShortReadOnlyAtWrap`, and that each step is a `Put`, a `Take`, a `Clear` or a
  stutter of `BoundedFifo` (`RingIsFifo`).
* **AppCore.** `IInv` adds to `TypeOK`: `LoopInv` (which state goes with which
  place in the loop), `RequestInv` (the channel under measurement is the one
  that is owed), `PausedOnlyWhileMeasuring`, and `WatchdogInv` (how far the
  watchdog's counter can be: asleep, either the alarm is lost, or the counter and the
  time to the alarm are together at most `LedPeriod`, so that with `LedPeriod <
  WdgPeriod` the alarm comes first). From it `AnswersMatch`, `NeverLeftPaused`, `ErrorIsFinal`
  and `SoundIsSpared`.
* **Log.** `IInv` adds `PointerInv`: the two pointers are equal while nothing is
  sent and until `MoveWriteToNext()`, neighbours from there until the handler
  runs. `FlagInv` ties `tx_complete_` to the UART and `AskInv` says that a write
  buffer seen empty by `IsTransmited()` stays empty. It follows that the writer
  never meets the buffer that is sent (`SentUntouched`), that the end is reported
  exactly (`WaitIsExact`) and that the log is a queue of two buffers' size
  (`LogIsFifo`), whatever the number of buffers: no more than two are in use at a
  time.

* **CmdProcessor.** `CmdInv` adds `LaterIsFlagged` to `TypeOK`,
  `WritingIsSending` and `AnswerFlagSet`: a measurement to answer later was a
  request whose handling left the flag in `buf_tx_`; this is why `SendMsg()`, which
  does not set it, is right (`TransmitIsOwned`, `AnswersAreFlagged`).
  `NothingIsReplayed` (`NoReplayUnlessTorn`) is a counting argument: the headers of
  a frame that are on the bus, in the ring or in `buf_rx_` waiting to be handled,
  and those that were handled, are together no more than were sent (`Budget`). Each
  step moves a header on or drops it; the lemmas `Count...` say so of the sequence
  operations, by an injection of the places that are left. The argument breaks
  exactly where a short read leaves an old header in `buf_rx_`, which is finding 1.
  `NoRequestIsMissed` (`NothingMissed`) counts the other way: every request sent is
  on its way or was handled (`Kept`). What makes this inductive is `CleanInv`: while
  nothing is disturbed, the ring and the bus together are whole requests one after
  another (`Framed`), and the state machine is in the first of them where it
  believes to be (`InPlace`), so that no header of this device's is taken for data,
  skipped as noise or cut. A request's size, the ring's and the number of requests
  on their way are arbitrary.
  `ProcessorUsesThePort` (`Rs485Spec`): for the port, every step of this module is a
  step the port allows any caller, a bus or an interrupt. The two
  models meet in this one: `DriverImplementsPort` shows that the driver does no more
  than it, this theorem that the processor uses no more of it. (The driver is shown
  for `TornSize = FALSE`; the short read is `RoundBuf`'s.)
* **Uart.** `UartInv` groups what goes together: `RxInv` ties the HAL's reception,
  the interrupt enables and the handler's two steps to the place in the opening of
  the port; `TxInv` ties `is_writing`, `gState`, the DMA and its interrupt. Each is
  a condition by place, so that an interrupt between any two steps finds it true.
  From it the four properties and `DriverImplementsPort`: a received byte is an
  `Arrive` or, with an error, an `IrqHandleErr` of the port, `Off` its `Reopen`, the
  end of a DMA its `IrqHandleTx`, the rest a stutter. For `ImplementsRs485` the
  proof adds `PortInv` (what the pause and the error can be while the port is
  opened, and in the moment a byte finds it full).
* **Measurement.** `PinInv` and `AdcInv` say by place which pins and ADCs are on;
  `SampleInv` and `WaitInv` when the flag means this measurement's conversion and
  how long a reading has waited; `CountInv`, `DistinctInv` and `ModeInv` what the
  values read so far rest on; `FieldInv` which fields the measurement has written.
  For any channels, readings, timeout and clock.
* **Rtc.** `DaysAreRight`: the division by 4 and the packed correction by month
  give the calendar's number for every date, by an argument per month and per year
  of the leap cycle. `CalendarIsRead`: `RegistersInv`, `ProgramInv` and `RoundInv`
  carry what a half-finished reading knows, that if the subseconds are read the same
  again nothing has moved, while the other reader does the same.
  `RangesAreKept` (`TypeOK`) is inductive once it says by place which counters can
  still be raised (`TypeInv`); its content is the arithmetic: the next date exists,
  the alarm's date is never 0, a difference of two times is normalised.
  `AlarmIsSetRight` (`AlarmIsContextPlusTimeout`) adds up digit by digit: `Carried` is
  the schoolbook step, applied to subseconds, seconds, minutes and hours, and then
  the days (lemmas on `DayNumber`) run over the end of a month, of February in a leap
  year and of the century. `CopyInv` says what a copy of the context knows: it is one of
  those seen while it was made, if they were all the same. A copy torn by the interrupt
  (`CopyIsOfThese`) still has a day of 1 to 31 and a month, so that the arithmetic of
  the time of day holds for it too; the date is claimed when the copy's is a date.
  `TimeOfDayIsKept` (`TimeKept`): the error of the time of day is kept in units of
  1/1000 tick modulo the period of seconds in 32 bits (`Congruent`), because the
  stored difference, the calendar's time and their sum may each have wrapped.
  `KeptInv` says that it is congruent to a number within a tick's rounding above and
  a second for each start below; `WriteInv` that what was read for a new difference
  is still that instant when it is stored, and what the first of the two registers
  holds if the second is not written, which costs less than a second more (`Torn`);
  `CenturyInv` that the calendar's count of days goes on.

With these, every invariant, every action property and every refinement that a
passing run checks is proved for all values of the constants. Only model-checked are
the liveness properties, `ComesBack`, `BackToIdle`, `SignalServed`, `WaitEnds`,
`Reopens` and `Ends`: TLAPS 1.4.5 does not reason about `ENABLED` and fairness. What
the violation runs refute is of course not proved.

## 5. What is not modelled, and why

* The CRC is perfect: a message is valid exactly when all its symbols are as
  sent. Its strength is not a question for a model checker.
* What the measurement computes (filters, floating point), pulse timing, and the
  ADCs' registers. In `AppCore` a measurement is one step with three outcomes, a
  result, an error and a hang; `Measurement` shows where they come from. The level
  of the signal's output pin is left out: nothing reads it.
* The device does not hear its own transmissions (the driver enables the
  transceiver's direction pin in hardware).
* A common time scale for `AppCore` and `Rtc`: in `AppCore` the alarm comes in units
  of 5 s, relative to the saved context; in `Rtc`, in ticks between any two steps of
  `RtcStartAlarm()`, but without the sleep. The two are not composed: what an alarm set
  from a torn context does to the sleep, hours off or at a date that is none, is not
  followed further than to the alarm's registers.
* The watchdog's oscillator, whose tolerance is wide (15 s nominal): one clock
  drives the sleep and the watchdog of `AppCore`.
* In the ring, `read_ind_ += len` and the reset to 0 that may follow are one
  step; at 520 us per byte at most one push falls between, and it commutes.
* In the log, a transmission that ends between its start (log.cpp:60) and
  `MoveWriteToNext()` (64): a few instructions against a character of 87 us. It
  would leave `tx_complete_` false and the log silent for good. The log's level
  is taken as one that compiles the log in.
* What happens after the null pointer of finding 2.
* The timer list (`system/timer.c`): the firmware creates no timer. Of its interrupt
  handler only the new context has an effect (`AppCore!RtcAlarm`,
  `Rtc!RTC_Alarm_IRQHandler`).
* The size of `tx_buf_` (rs485.cpp:80), which is less than the protocol's largest
  message: no answer the firmware builds comes near it.
* The CRC's bits, register configuration, GPIO and SPI access: no control to check.
* Vendored code, which is nearly all of the repository's lines (HAL, LL headers,
  CMSIS, USB, EEPROM emulation), but for what the driver depends on: the receive,
  transmit, abort and interrupt paths of `stm32f3xx_hal_uart.c` in `Uart`, the
  reading of the calendar, the alarm and the start of `stm32f3xx_hal_rtc.c` in
  `Rtc`. The map therefore covers a small share of the repository, and most of the
  firmware's own control.
* Library code the firmware does not use (other ring buffers, SPI RAM, NVM, low-power
  manager, blocking reads and writes of the port).

## 6. Plan

Done: the receive path down to the USART, the command processor, the application,
the measurement, the calendar and the log, each with its proofs. What would add most
next:
1. One abstract link that `CmdProcessor` implements and `AppCore` uses, in place of
   `AppCore`'s own view of the processor's outcomes.
2. A composition of `AppCore`'s sleep with `Rtc`'s alarm in one time scale.
