---------------------------- MODULE Measurement -----------------------------
(***************************************************************************)
(* A measurement: the pins it drives, the two ADCs and the one flag they   *)
(* share, and the result it leaves to the application (Measurement() and   *)
(* its callers in apps/tensometer/app_core.cpp, f-impulse-generator.cpp,   *)
(* f-answer-reader.cpp, temp_sensor.cpp, boards/rd10/board-adc.cpp).       *)
(*                                                                         *)
(* A conversion is an interrupt; it comes between any two steps, or never. *)
(* What a sample is worth is abstracted to what the code decides by it:    *)
(* whether the voltage is too low for the first resistor.                  *)
(***************************************************************************)
EXTENDS Naturals

CONSTANTS Channels, SignalChannel,   \* of conf::kNChannels, and 3
          Reads,        \* 7: the median is taken of so many readings
          Timeout,      \* 10 ms
          MsMod         \* 2^32: HAL_GetTick() wraps

ASSUME MeasurementAssumption ==
  /\ SignalChannel \in Channels
  /\ Reads \in Nat \ {0} /\ Timeout \in Nat /\ MsMod \in Nat /\ Timeout + 1 < MsMod

VARIABLES
  pc, channel, by,      \* the main loop: place, channel, and who asked
  on,                   \* the pins that are driven high
  open, converts,       \* the ADCs with a hal_obj, and the one that converts
  adc_value_ready, adc_value,
  started,              \* what AdcStartDma() returned, which nothing looks at
  values,               \* how many of the values read are of each kind
  tick, end,            \* HAL_GetTick() and a reading's deadline
  measurement_,         \* has a field been written by the last measurement?
  error_,
  sampled,              \* history: buffer_ was filled by this measurement
  mode, read, waited    \* history: the resistor adc_value was converted with; how
                        \* often it was returned; the ticks since a reading began

place  == <<pc, channel, by>>
adc    == <<converts, adc_value_ready, adc_value>>
result == <<measurement_, error_>>
used   == <<values, read>>
vars == <<place, on, open, adc, started, used, tick, end, result, sampled, mode, waited>>

Pin(name, c) == <<name, c>>
Modes == {Pin("MODE_1", 0), Pin("MODE_2", 0)}
Pins == Modes \cup {Pin(name, c) : name \in {"SND", "RCV", "EN"}, c \in Channels}

Kinds == {"low", "good", "none"}      \* "none" is 0xFFFF, the largest
Fields == {"frequency", "resistance", "channel"}

\* Between measurements, or never to come back but by a reset.
Resting == {"idle", "sending", "ERROR", "ErrorHandler"}

\* The places of AdcReadWithTimeout() and between its calls.
Reading == {"read", "poll", "late", "clear", "return"}

TypeOK ==
  /\ pc \in Resting \cup Reading \cup
       {"InitAdc", "Generate", "generating", "ReadData", "AdcStartDma", "calibrate",
        "wait", "CalculateFreq", "GetResistance", "AdcStart", "median", "done", "failed"}
  /\ channel \in Channels /\ by \in {"request", "signal"}
  /\ on \subseteq Pins
  /\ open \subseteq {"adc1", "sdadc1"} /\ converts \in {"adc1", "sdadc1", "none"}
  /\ adc_value_ready \in BOOLEAN /\ started \in BOOLEAN /\ sampled \in BOOLEAN
  /\ adc_value \in Kinds \ {"none"}
  /\ values \in [Kinds -> 0..Reads]
  /\ tick \in 0..(MsMod - 1) /\ end \in 0..(MsMod - 1)
  /\ measurement_ \in [Fields -> BOOLEAN] /\ error_ \in {"NO", "ADC_ERROR"}
  /\ mode \in Modes
  /\ read \in [distinct : 0..Reads, again : BOOLEAN, modes : SUBSET Modes]
  /\ waited \in 0..(Timeout + 1)

Unread == [distinct |-> 0, again |-> FALSE, modes |-> {}]

Init == /\ pc = "idle" /\ channel = SignalChannel /\ by = "request"
        /\ on = {} /\ open = {} /\ converts = "none"
        /\ adc_value_ready = FALSE /\ adc_value = "low"
        /\ started = FALSE /\ sampled = FALSE
        /\ values = [k \in Kinds |-> 0] /\ read = Unread /\ mode = Pin("MODE_1", 0)
        /\ tick \in 0..(MsMod - 1) /\ end = 0 /\ waited = 0
        /\ measurement_ = [f \in Fields |-> FALSE] /\ error_ = "NO"

-----------------------------------------------------------------------------
\* The interrupts: the clock, the end of the SDADC's transfer into buffer_, and
\* a conversion of the ADC, which the DMA puts into adc_value.  A millisecond is
\* long against the loop that looks at the clock.
Waiting == pc \in {"poll", "late"}

\* Mutant of Passed: gives up with the last millisecond still running.
PassedEarly == tick >= end

Passed == tick > end

Tick == /\ Waiting => ~Passed
        /\ tick' = (tick + 1) % MsMod
        /\ waited' = IF Waiting /\ waited <= Timeout THEN waited + 1 ELSE waited
        /\ UNCHANGED <<place, on, open, adc, started, used, end, result, sampled, mode>>

Sampled == /\ converts = "sdadc1"
           /\ converts' = "none"
           /\ adc_value_ready' = TRUE /\ sampled' = TRUE
           /\ UNCHANGED <<place, on, open, adc_value, started, used, tick, end, result,
                          mode, waited>>

ModeOn == CHOOSE p \in Modes : p \in on

Convert(kind) ==
  /\ converts = "adc1"
  /\ adc_value' = kind /\ adc_value_ready' = TRUE
  /\ mode' = ModeOn
  /\ read' = [read EXCEPT !.again = FALSE]
  /\ UNCHANGED <<place, on, open, converts, started, values, tick, end, result, sampled,
                 waited>>

-----------------------------------------------------------------------------
Goto(from, to) == pc = from /\ pc' = to /\ UNCHANGED <<channel, by, tick>>

\* A request, and the signal: both may take the state from a result that was
\* not yet sent.
Begin(from, c, who) ==
  /\ pc \in from /\ pc' = "InitAdc" /\ channel' = c /\ by' = who
  /\ measurement_' = [f \in Fields |-> FALSE] /\ sampled' = FALSE
  /\ UNCHANGED <<on, open, adc, started, used, tick, end, error_, mode, waited>>

Request(c) == Begin({"idle", "sending"}, c, "request")
Signal == Begin({"idle", "sending"}, SignalChannel, "signal")

\* board::InitAdc(): when it fails the firmware waits for the watchdog.
InitAdc == /\ Goto("InitAdc", "Generate")
           /\ open' = {"adc1", "sdadc1"}
           /\ UNCHANGED <<on, adc, started, used, end, result, sampled, mode, waited>>

InitAdcFails == /\ Goto("InitAdc", "ErrorHandler")
                /\ open' \in {{}, {"adc1"}, {"adc1", "sdadc1"}}
                /\ UNCHANGED <<on, adc, started, used, end, result, sampled, mode, waited>>

Drive(from, to, high, low) ==
  /\ Goto(from, to)
  /\ on' = (on \ low) \cup high
  /\ UNCHANGED <<open, started, end, result, sampled, mode, waited>>

Generate == /\ Drive("Generate", "generating", {Pin("SND", channel)}, {Pin("RCV", channel)})
            /\ UNCHANGED <<adc, used>>

Generated == /\ Drive("generating", "ReadData", {}, {Pin("SND", channel)})
             /\ UNCHANGED <<adc, used>>

ReadData ==
  /\ Drive("ReadData", "AdcStartDma", {Pin("RCV", channel)}, {Pin("SND", channel)})
  /\ UNCHANGED <<adc, used>>

\* AdcStartDma() fails, or calibrates the SDADC; what it returns is dropped.
AdcStartDma ==
  /\ \/ Goto("AdcStartDma", "wait") /\ started' = FALSE
     \/ Goto("AdcStartDma", "calibrate") /\ UNCHANGED started
  /\ UNCHANGED <<on, open, adc, used, end, result, sampled, mode, waited>>

\* Mutant of Calibrated: does not clear the flag.
CalibratedKeepsFlag ==
  /\ Goto("calibrate", "wait")
  /\ started' \in BOOLEAN
  /\ converts' = IF started' THEN "sdadc1" ELSE converts
  /\ UNCHANGED <<on, open, adc_value_ready, adc_value, used, end, result, sampled, mode,
                 waited>>

\* The SDADC reports the end of the calibration, which is awaited without a
\* limit; the transfer is started, or that fails.
Calibrated ==
  /\ Goto("calibrate", "wait")
  /\ adc_value_ready' = FALSE
  /\ started' \in BOOLEAN
  /\ converts' = IF started' THEN "sdadc1" ELSE converts
  /\ UNCHANGED <<on, open, adc_value, used, end, result, sampled, mode, waited>>

AdcWaitComplete ==
  /\ adc_value_ready
  /\ Drive("wait", "CalculateFreq", {}, {Pin("RCV", channel)})
  /\ converts' = "none"
  /\ UNCHANGED <<adc_value_ready, adc_value, used>>

CalculateFreq ==
  /\ Goto("CalculateFreq", "GetResistance")
  /\ measurement_' = [measurement_ EXCEPT !["frequency"] = TRUE]
  /\ UNCHANGED <<on, open, adc, started, used, end, error_, sampled, mode, waited>>

-----------------------------------------------------------------------------
\* TempSensor::GetResistance()
GetResistance ==
  /\ Drive("GetResistance", "AdcStart", {Pin("MODE_1", 0), Pin("EN", channel)},
           {Pin("MODE_2", 0)})
  /\ UNCHANGED <<adc, used>>

AdcStart == /\ Goto("AdcStart", "read")
            /\ adc_value_ready' = FALSE /\ converts' = "adc1"
            /\ values' = [k \in Kinds |-> 0] /\ read' = [Unread EXCEPT !.again = TRUE]
            /\ UNCHANGED <<on, open, adc_value, started, end, result, sampled, mode,
                           waited>>

\* AdcReadWithTimeout(): the flag and the clock are looked at in turn.
ReadBegin == /\ Goto("read", "poll")
             /\ end' = (tick + Timeout) % MsMod /\ waited' = 0
             /\ UNCHANGED <<on, open, adc, started, used, result, sampled, mode>>

Poll == /\ Goto("poll", IF adc_value_ready THEN "clear" ELSE "late")
        /\ UNCHANGED <<on, open, adc, started, used, end, result, sampled, mode, waited>>

\* Mutant of Counted: one value more than there is room for.
CountedOneMore == values["low"] + values["good"] + values["none"]

Counted == values["low"] + values["good"] + values["none"] + 1

Got(kind) == values' = [values EXCEPT ![kind] = @ + 1]

\* Mutant of Late: without the timeout.
LateNever == /\ Goto("late", "poll")
             /\ UNCHANGED <<on, open, adc, started, used, end, result, sampled, mode, waited>>

Late == /\ Goto("late", IF ~Passed THEN "poll" ELSE
                        IF Counted = Reads THEN "median" ELSE "read")
        /\ IF Passed THEN Got("none") /\ waited' = 0 ELSE UNCHANGED <<values, waited>>
        /\ UNCHANGED <<on, open, adc, started, read, end, result, sampled, mode>>

\* Mutant of Clear: leaves the flag.
ClearNot == /\ Goto("clear", "return")
            /\ UNCHANGED <<on, open, adc, started, used, end, result, sampled, mode, waited>>

Clear == /\ Goto("clear", "return")
         /\ adc_value_ready' = FALSE
         /\ UNCHANGED <<on, open, converts, adc_value, started, used, end, result, sampled,
                        mode, waited>>

Return ==
  /\ Goto("return", IF Counted = Reads THEN "median" ELSE "read")
  /\ Got(adc_value)
  /\ read' = [distinct |-> read.distinct + (IF read.again THEN 0 ELSE 1),
              again |-> TRUE, modes |-> read.modes \cup {mode}]
  /\ waited' = 0
  /\ UNCHANGED <<on, open, adc, started, end, result, sampled, mode>>

\* values[3] of the sorted ones: 0xFFFF is the largest.
MedianValue == LET half == (Reads \div 2) + 1
               IN  IF values["low"] >= half THEN "low"
                   ELSE IF values["low"] + values["good"] >= half THEN "good" ELSE "none"

\* The voltage is too small for the first resistor: once more with the other.
SecondMode == MedianValue = "low" /\ Pin("MODE_1", 0) \in on

\* Mutant of Median: the sensor stays powered when it fails.
MedianLeavesPower ==
  /\ \/ /\ SecondMode
        /\ Drive("median", "AdcStart", {Pin("MODE_2", 0)}, {Pin("MODE_1", 0)})
     \/ /\ ~SecondMode /\ MedianValue # "none"
        /\ Drive("median", "done", {}, Modes \cup {Pin("EN", channel)})
     \/ /\ MedianValue = "none"
        /\ Drive("median", "failed", {}, Modes)
  /\ converts' = "none"
  /\ UNCHANGED <<adc_value_ready, adc_value, used>>

Median ==
  /\ \/ /\ SecondMode
        /\ Drive("median", "AdcStart", {Pin("MODE_2", 0)}, {Pin("MODE_1", 0)})
     \/ /\ ~SecondMode
        /\ Drive("median", IF MedianValue = "none" THEN "failed" ELSE "done", {},
                 Modes \cup {Pin("EN", channel)})
  /\ converts' = "none"
  /\ UNCHANGED <<adc_value_ready, adc_value, used>>

-----------------------------------------------------------------------------
\* The end of Measurement() and what its caller makes of it.
DeInitAdc(from, to, error) ==
  /\ Goto(from, to)
  /\ open' = {} /\ error_' = error
  /\ UNCHANGED <<on, adc, started, used, end, sampled, mode, waited>>

Done == /\ DeInitAdc("done", IF by = "request" THEN "sending" ELSE "idle", "NO")
        /\ measurement_' = [f \in Fields |-> IF f = "frequency" THEN measurement_[f] ELSE TRUE]

\* Mutant of Failed: the error of a request is stored only, as that of a signal.
FailedGoesOn == /\ DeInitAdc("failed", IF by = "request" THEN "sending" ELSE "idle",
                             "ADC_ERROR")
                /\ UNCHANGED measurement_

Failed == /\ DeInitAdc("failed", IF by = "request" THEN "ERROR" ELSE "idle", "ADC_ERROR")
          /\ UNCHANGED measurement_

SendMsg == /\ Goto("sending", "idle")
           /\ UNCHANGED <<on, open, adc, started, used, end, result, sampled, mode, waited>>

\* The watchdog's reset, and that of the state ERROR: all pins are inputs again.
Reset == /\ pc' = "idle" /\ channel' = SignalChannel /\ by' = "request"
         /\ on' = {} /\ open' = {} /\ converts' = "none"
         /\ adc_value_ready' = FALSE /\ adc_value' = "low"
         /\ started' = FALSE /\ sampled' = FALSE
         /\ values' = [k \in Kinds |-> 0] /\ read' = Unread /\ mode' = Pin("MODE_1", 0)
         /\ tick' = 0 /\ end' = 0 /\ waited' = 0
         /\ measurement_' = [f \in Fields |-> FALSE] /\ error_' = "NO"

Work == \/ InitAdc \/ InitAdcFails \/ Generate \/ Generated \/ ReadData \/ AdcStartDma
        \/ AdcWaitComplete \/ CalculateFreq \/ GetResistance \/ AdcStart \/ ReadBegin
        \/ Poll \/ Late \/ Clear \/ Return \/ Median \/ Done \/ Failed

Next == \/ Tick \/ Calibrated \/ Sampled \/ (\E kind \in Kinds \ {"none"} : Convert(kind))
        \/ (\E c \in Channels : Request(c)) \/ Signal \/ Work \/ SendMsg \/ Reset

\* The main loop goes on and the clock runs.  Nothing is assumed of the ADCs.
Spec == Init /\ [][Next]_vars /\ WF_vars(Work) /\ WF_vars(Tick)

-----------------------------------------------------------------------------
\* No exit leaves a pin driven or an ADC powered; during a measurement no
\* channel drives and listens at once, no other channel is touched, and only
\* one resistor is switched in (app_core.cpp:28-62, temp_sensor.cpp:294-348).
EverythingOff ==
  /\ pc \in {"idle", "sending", "ERROR"} => on = {} /\ open = {} /\ converts = "none"
  /\ on \subseteq Modes \cup {Pin(name, channel) : name \in {"SND", "RCV", "EN"}}
  /\ \A p, q \in on : (p \in Modes <=> q \in Modes) => p = q
  /\ on \cap Modes # {} <=> Pin("EN", channel) \in on
  /\ converts = "adc1" => on \cap Modes # {}

\* The frequency is computed from samples of this measurement.  It is not when
\* the transfer was not started and the flag still stood from the measurement
\* before: then buffer_ holds the samples, filtered, of that one
\* (f-answer-reader.cpp:30-37).
SamplesAreFresh == [][CalculateFreq => sampled \/ ~started]_vars

\* A resistance rests on more than half of the readings, these on at least half
\* as many conversions (a conversion between the clearing of the flag and the
\* reading of the value is read twice), all made with the resistor it is
\* computed with (board-adc.cpp:336-348).
ResistanceIsMeasured ==
  [][pc = "median" /\ pc' = "done" =>
       /\ 2 * (values["low"] + values["good"]) > Reads
       /\ 2 * read.distinct >= values["low"] + values["good"]
       /\ read.modes = on \cap Modes]_vars

\* A reading gives up only after the whole of its timeout, unless its deadline
\* lies beyond the wrap of the clock, which is over at once (board-adc.cpp:339).
GivesUpLate ==
  [][values'["none"] > values["none"] => waited > Timeout \/ end < Timeout]_vars

\* The result that is sent is of one measurement: a measurement by a signal
\* that fails leaves a new frequency beside an old resistance, but takes the
\* state from the result that waited to be sent (app_core.cpp:107,187).
SentIsWhole == [][SendMsg => \A f \in Fields : measurement_[f]]_vars

\* The waits that only the watchdog ends: for the SDADC's calibration
\* (board-adc.cpp:304), for its samples (f-answer-reader.cpp:31), and for a
\* deadline that is the last value of the clock, never passed (board-adc.cpp:341).
WaitsForEver == \/ pc = "calibrate"
                \/ pc = "wait" /\ ~adc_value_ready
                \/ Waiting /\ end = MsMod - 1

\* Every measurement comes to an end but in these: the readings of the ADC do,
\* whenever it converts or if it does not, with either resistor.
Ends == []<>(pc \in Resting \/ WaitsForEver)
=============================================================================
