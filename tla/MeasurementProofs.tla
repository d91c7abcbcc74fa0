------------------------- MODULE MeasurementProofs --------------------------
(***************************************************************************)
(* Proofs about Measurement, for every set of channels, every number of    *)
(* readings and every timeout.                                             *)
(***************************************************************************)
EXTENDS Measurement, TLAPS

\* The resistor is switched in and the sensor powered.
Sensor == Reading \cup {"AdcStart", "median"}

\* Which pins are driven, at every place.
PinInv ==
  /\ pc \notin Sensor \cup {"generating", "AdcStartDma", "calibrate", "wait"} => on = {}
  /\ pc = "generating" => on = {Pin("SND", channel)}
  /\ pc \in {"AdcStartDma", "calibrate", "wait"} => on = {Pin("RCV", channel)}
  /\ pc \in Sensor => \E m \in Modes : on = {m, Pin("EN", channel)}

\* Which ADC is powered, and which converts.
AdcInv == /\ pc \in {"idle", "sending", "ERROR"} => open = {}
          /\ converts = "adc1" => pc \in Reading \cup {"median"}
          /\ converts = "sdadc1" => pc = "wait"

\* The flag means samples, if the transfer was started.
SampleInv == /\ pc = "wait" /\ started /\ adc_value_ready => sampled
             /\ pc = "CalculateFreq" => sampled \/ ~started

Valid == values["low"] + values["good"]

\* So many values were read.
CountInv == /\ pc \in Reading => Valid + values["none"] < Reads
            /\ pc = "median" => Valid + values["none"] = Reads

\* A conversion is returned twice at most: when it was returned and the flag is
\* set nonetheless, it has been returned once.
DistinctInv ==
  /\ pc \in Reading \cup {"median"} => read.distinct <= Valid /\ 2 * read.distinct >= Valid
  /\ pc \in Reading /\ read.again /\ (adc_value_ready \/ pc = "return")
       => 2 * read.distinct > Valid
  /\ pc \in Reading /\ ~read.again => adc_value_ready \/ pc = "return"
  /\ pc = "clear" => adc_value_ready
  /\ pc = "return" /\ read.again => ~adc_value_ready

\* Every value returned was converted with the resistor that is switched in.
ModeInv ==
  /\ pc \in Reading /\ (adc_value_ready \/ pc = "return") => mode \in on
  /\ pc \in Reading \cup {"median"} =>
       read.modes = IF Valid = 0 THEN {} ELSE on \cap Modes

\* How far the clock is in a reading whose deadline does not wrap.
WaitInv == Waiting /\ end >= Timeout /\ waited <= Timeout => tick = (end - Timeout) + waited

\* What of the result is written, where.
FieldInv == /\ pc \in {"GetResistance", "done"} \cup Sensor => measurement_["frequency"]
            /\ pc = "sending" => \A f \in Fields : measurement_[f]

IInv == /\ TypeOK
        /\ PinInv /\ AdcInv /\ SampleInv
        /\ CountInv /\ DistinctInv /\ ModeInv
        /\ WaitInv /\ FieldInv

-----------------------------------------------------------------------------
LEMMA Wraps ==
  ASSUME NEW x \in Nat, x < 2 * MsMod
  PROVE  x % MsMod = IF x < MsMod THEN x ELSE x - MsMod
<1>1. MsMod \in Nat \ {0}
  BY MeasurementAssumption
<1>2. CASE x < MsMod
  BY <1>1, <1>2, Z3
<1>3. CASE ~(x < MsMod)
  <2>1. x - MsMod \in 0..(MsMod - 1)
    BY <1>1, <1>3
  <2>2. (x - MsMod) % MsMod = x - MsMod
    BY <1>1, <2>1, Z3
  <2>3. x % MsMod = (x - MsMod) % MsMod
    BY <1>1, <1>3, Z3
  <2>. QED  BY <1>3, <2>2, <2>3
<1>. QED  BY <1>2, <1>3

\* No two pins are one.
LEMMA PinsDiffer ==
  ASSUME NEW c \in Channels
  PROVE  /\ Pin("EN", c) \notin Modes
         /\ Pin("SND", c) \notin Modes
         /\ Pin("RCV", c) \notin Modes
         /\ Pin("MODE_1", 0) # Pin("MODE_2", 0)
BY DEF Pin, Modes

LEMMA ModeIsOn ==
  ASSUME IInv, pc \in Sensor
  PROVE  /\ ModeOn \in Modes /\ on \cap Modes = {ModeOn}
         /\ on = {ModeOn, Pin("EN", channel)}
<1>1. PICK m \in Modes : on = {m, Pin("EN", channel)}
  BY DEF IInv, PinInv
<1>2. \A p \in Modes : p \in on <=> p = m
  BY <1>1, PinsDiffer DEF IInv, TypeOK
<1>3. ModeOn = m
  BY <1>2 DEF ModeOn
<1>. QED  BY <1>1, <1>2, <1>3

LEMMA TypeInv == ASSUME IInv, [Next]_vars PROVE TypeOK'
<1> USE DEF IInv, TypeOK, Goto
<1>1. CASE Tick
  BY <1>1, MeasurementAssumption DEF Tick, place, adc, used, result
<1>2. CASE Sampled
  BY <1>2 DEF Sampled, place, used, result
<1>3. ASSUME NEW kind \in Kinds \ {"none"}, Convert(kind) PROVE TypeOK'
  <2>1. mode' \in Modes
    BY <1>3, ModeIsOn DEF Convert, AdcInv, Sensor
  <2>. QED  BY <1>3, <2>1 DEF Convert, place, result
<1>4. ASSUME NEW c \in Channels, Request(c) PROVE TypeOK'
  BY <1>4 DEF Request, Begin, adc, used
<1>5. CASE Signal
  BY <1>5, MeasurementAssumption DEF Signal, Begin, adc, used
<1>6. CASE InitAdc \/ InitAdcFails
  BY <1>6 DEF InitAdc, InitAdcFails, Resting, adc, used, result
<1>7. CASE Generate \/ Generated \/ ReadData
  BY <1>7 DEF Generate, Generated, ReadData, Drive, Pins, adc, used, result
<1>8. CASE AdcStartDma \/ Calibrated \/ AdcWaitComplete
  BY <1>8 DEF AdcStartDma, Calibrated, AdcWaitComplete, Drive, adc, used, result
<1>9. CASE CalculateFreq
  BY <1>9 DEF CalculateFreq, adc, used
<1>10. CASE GetResistance
  BY <1>10 DEF GetResistance, Drive, Pins, Modes, adc, used, result
<1>11. CASE AdcStart
  <2>1. /\ values' = [k \in Kinds |-> 0]
        /\ read' = [distinct |-> 0, again |-> TRUE, modes |-> {}]
    BY <1>11 DEF AdcStart, Unread
  <2>2. /\ values' \in [Kinds -> 0..Reads]
        /\ read' \in [distinct : 0..Reads, again : BOOLEAN, modes : SUBSET Modes]
    BY <2>1, MeasurementAssumption
  <2>. QED  BY <1>11, <2>2 DEF AdcStart, Reading, result
<1>12. CASE ReadBegin
  BY <1>12, MeasurementAssumption DEF ReadBegin, Reading, adc, used, result
<1>13. CASE Poll
  BY <1>13 DEF Poll, Reading, adc, used, result
<1>14. CASE Late
  <2>1. Valid + values["none"] < Reads
    BY <1>14 DEF Late, CountInv, Reading
  <2>2. ASSUME NEW k \in Kinds, Got(k) PROVE values' \in [Kinds -> 0..Reads]
    <3>1. values[k] \in 0..(Reads - 1)
      BY <2>1, <2>2, MeasurementAssumption DEF Valid, Kinds
    <3>. QED  BY <2>2, <3>1, MeasurementAssumption DEF Got
  <2>3. values' \in [Kinds -> 0..Reads]
    BY <1>14, <2>2 DEF Late, Kinds
  <2>4. /\ pc' \in Reading \cup {"median"} /\ waited' \in 0..(Timeout + 1)
        /\ UNCHANGED <<channel, by, on, open, converts, adc_value_ready, adc_value, started,
                       tick, end, measurement_, error_, sampled, mode, read>>
    BY <1>14, MeasurementAssumption DEF Late, Reading, adc, result
  <2>. QED  BY <2>3, <2>4
<1>15. CASE Clear
  BY <1>15 DEF Clear, Reading, used, result
<1>16. CASE Return
  <2>1. /\ Valid + values["none"] < Reads
        /\ read.distinct <= Valid
    BY <1>16 DEF Return, CountInv, DistinctInv, Reading
  <2>2. values[adc_value] \in 0..(Reads - 1) /\ read.distinct \in 0..(Reads - 1)
    BY <2>1, MeasurementAssumption DEF Valid, Kinds
  <2>3. values' \in [Kinds -> 0..Reads]
    BY <1>16, <2>2, MeasurementAssumption DEF Return, Got
  <2>4. read' \in [distinct : 0..Reads, again : BOOLEAN, modes : SUBSET Modes]
    <3>1. read.distinct + (IF read.again THEN 0 ELSE 1) \in 0..Reads
      BY <2>2, MeasurementAssumption
    <3>2. read.modes \cup {mode} \in SUBSET Modes
      OBVIOUS
    <3>. QED  BY <1>16, <3>1, <3>2 DEF Return
  <2>5. /\ pc' \in Reading \cup {"median"} /\ waited' \in 0..(Timeout + 1)
        /\ UNCHANGED <<channel, by, on, open, converts, adc_value_ready, adc_value, started,
                       tick, end, measurement_, error_, sampled, mode>>
    BY <1>16, MeasurementAssumption DEF Return, Reading, adc, result
  <2>. QED  BY <2>3, <2>4, <2>5
<1>17. CASE Median
  BY <1>17 DEF Median, Drive, Pins, Modes, used, result
<1>18. CASE Done \/ Failed
  BY <1>18 DEF Done, Failed, DeInitAdc, Resting, adc, used
<1>19. CASE SendMsg
  BY <1>19 DEF SendMsg, Resting, adc, used, result
<1>20. CASE Reset
  <2>1. /\ values' \in [Kinds -> 0..Reads]
        /\ read' \in [distinct : 0..Reads, again : BOOLEAN, modes : SUBSET Modes]
        /\ measurement_' \in [Fields -> BOOLEAN]
    BY <1>20, MeasurementAssumption DEF Reset, Unread
  <2>2. mode' \in Modes /\ adc_value' \in Kinds \ {"none"}
    BY <1>20 DEF Reset, Modes, Kinds
  <2>3. /\ pc' \in Resting /\ channel' \in Channels /\ by' \in {"request", "signal"}
        /\ tick' \in 0..(MsMod - 1) /\ end' \in 0..(MsMod - 1)
        /\ waited' \in 0..(Timeout + 1)
    BY <1>20, MeasurementAssumption DEF Reset, Resting
  <2>4. /\ on' = {} /\ open' = {} /\ converts' = "none" /\ adc_value_ready' = FALSE
        /\ started' = FALSE /\ sampled' = FALSE /\ error_' = "NO"
    BY <1>20 DEF Reset
  <2>. QED  BY <2>1, <2>2, <2>3, <2>4
<1>21. CASE UNCHANGED vars
  BY <1>21 DEF vars, place, adc, used, result
<1>. QED
  BY <1>1, <1>2, <1>3, <1>4, <1>5, <1>6, <1>7, <1>8, <1>9, <1>10, <1>11, <1>12, <1>13,
     <1>14, <1>15, <1>16, <1>17, <1>18, <1>19, <1>20, <1>21 DEF Next, Work

LEMMA PinInvStep == ASSUME IInv, [Next]_vars PROVE PinInv'
<1> USE DEF IInv, PinInv, Goto, Sensor, Reading
<1>1. CASE \/ Tick \/ Sampled \/ InitAdc \/ InitAdcFails
           \/ AdcStartDma \/ Calibrated \/ CalculateFreq
           \/ AdcStart \/ ReadBegin \/ Poll \/ Late \/ Clear \/ Return \/ Done \/ Failed
           \/ SendMsg \/ UNCHANGED vars
  BY <1>1 DEF Tick, Sampled, InitAdc, InitAdcFails,
              AdcStartDma, Calibrated, CalculateFreq, AdcStart,
     ReadBegin, Poll, Late, Clear, Return, Done, Failed, DeInitAdc, SendMsg, vars, place
<1>2. ASSUME NEW kind \in Kinds \ {"none"}, Convert(kind) PROVE PinInv'
  BY <1>2 DEF Convert, place
<1>3. ASSUME NEW c \in Channels, Request(c) \/ Signal PROVE PinInv'
  BY <1>3 DEF Request, Signal, Begin
<1>4. CASE Generate \/ Generated \/ ReadData \/ AdcWaitComplete
  BY <1>4 DEF Generate, Generated, ReadData, AdcWaitComplete, Drive
<1>5. CASE GetResistance
  <2>1. on' = {Pin("MODE_1", 0), Pin("EN", channel)}
    BY <1>5 DEF GetResistance, Drive
  <2>. QED  BY <1>5, <2>1 DEF GetResistance, Drive, Modes
<1>6. CASE Median
  <2>1. PICK m \in Modes : on = {m, Pin("EN", channel)}
    BY <1>6 DEF Median, Drive
  <2>2. CASE SecondMode
    <3>1. on' = {Pin("MODE_2", 0), Pin("EN", channel)}
      BY <1>6, <2>1, <2>2, PinsDiffer DEF Median, Drive, Modes, SecondMode, TypeOK
    <3>. QED  BY <1>6, <2>2, <3>1 DEF Median, Drive, Modes
  <2>3. CASE ~SecondMode
    BY <1>6, <2>1, <2>3 DEF Median, Drive
  <2>. QED  BY <2>2, <2>3
<1>7. CASE Reset
  BY <1>7 DEF Reset
<1>. QED
  BY <1>1, <1>2, <1>3, <1>4, <1>5, <1>6, <1>7, MeasurementAssumption DEF Next, Work

LEMMA AdcInvStep == ASSUME IInv, [Next]_vars PROVE AdcInv'
<1> USE DEF IInv, AdcInv, Goto, Reading
<1>1. CASE \/ Tick \/ Sampled \/ InitAdc \/ InitAdcFails \/ CalculateFreq \/ AdcStart
           \/ ReadBegin \/ Poll \/ Late \/ Clear \/ Return \/ Done \/ Failed
           \/ SendMsg \/ Reset \/ UNCHANGED vars
  BY <1>1 DEF Tick, Sampled, InitAdc, InitAdcFails, CalculateFreq, AdcStart, adc,
     ReadBegin, Poll, Late, Clear, Return, Done, Failed, DeInitAdc, SendMsg, Reset, vars, place
<1>2. ASSUME NEW kind \in Kinds \ {"none"}, Convert(kind) PROVE AdcInv'
  BY <1>2 DEF Convert, place
<1>3. ASSUME NEW c \in Channels, Request(c) \/ Signal PROVE AdcInv'
  BY <1>3 DEF Request, Signal, Begin, adc
<1>4. CASE \/ Generate \/ Generated \/ ReadData
           \/ AdcStartDma \/ Calibrated \/ AdcWaitComplete
           \/ GetResistance \/ Median
  BY <1>4 DEF Generate, Generated, ReadData,
              AdcStartDma, Calibrated, AdcWaitComplete, GetResistance,
     Median, Drive, adc
<1>. QED
  BY <1>1, <1>2, <1>3, <1>4, MeasurementAssumption DEF Next, Work

LEMMA SampleInvStep == ASSUME IInv, [Next]_vars PROVE SampleInv'
<1> USE DEF IInv, SampleInv, Goto
<1>1. CASE InitAdc \/ InitAdcFails \/ CalculateFreq \/ AdcStart \/ ReadBegin \/ Poll \/ Late
  BY <1>1 DEF InitAdc, InitAdcFails, CalculateFreq, AdcStart, ReadBegin, Poll, Late
<1>8. CASE Clear \/ Return \/ Done \/ Failed \/ SendMsg \/ Reset
  BY <1>8 DEF Clear, Return, Done, Failed, DeInitAdc, SendMsg, Reset
<1>9. CASE Tick \/ UNCHANGED vars
  BY <1>9 DEF Tick, vars, place, adc
<1>2. CASE Sampled
  BY <1>2 DEF Sampled, place
<1>3. ASSUME NEW kind \in Kinds \ {"none"}, Convert(kind) PROVE SampleInv'
  BY <1>3 DEF Convert, place, AdcInv, Reading
<1>4. ASSUME NEW c \in Channels, Request(c) \/ Signal PROVE SampleInv'
  BY <1>4 DEF Request, Signal, Begin, adc
<1>5. CASE AdcStartDma \/ Calibrated
  BY <1>5 DEF AdcStartDma, Calibrated
<1>6. CASE AdcWaitComplete
  BY <1>6, Zenon DEF AdcWaitComplete, Drive, TypeOK
<1>7. CASE Generate \/ Generated \/ ReadData \/ GetResistance \/ Median
  BY <1>7 DEF Generate, Generated, ReadData, GetResistance, Median, Drive, adc
<1>. QED
  BY <1>1, <1>2, <1>3, <1>4, <1>5, <1>6, <1>7, <1>8, <1>9,
     MeasurementAssumption DEF Next, Work

LEMMA FieldInvStep == ASSUME IInv, [Next]_vars PROVE FieldInv'
<1> USE DEF IInv, FieldInv, Goto, Reading, Sensor, result, Fields
<1>1. CASE \/ Tick \/ Sampled \/ InitAdc \/ InitAdcFails \/ AdcStart
           \/ ReadBegin \/ Poll \/ Late \/ Clear \/ Return \/ AdcStartDma \/ Calibrated
           \/ SendMsg \/ UNCHANGED vars
  BY <1>1 DEF Tick, Sampled, InitAdc, InitAdcFails, AdcStart, AdcStartDma, Calibrated,
     ReadBegin, Poll, Late, Clear, Return, SendMsg, vars, place
<1>2. ASSUME NEW kind \in Kinds \ {"none"}, Convert(kind) PROVE FieldInv'
  BY <1>2 DEF Convert, place
<1>3. ASSUME NEW c \in Channels, Request(c) \/ Signal PROVE FieldInv'
  BY <1>3 DEF Request, Signal, Begin
<1>4. CASE \/ Generate \/ Generated \/ ReadData \/ AdcWaitComplete
           \/ GetResistance \/ Median
  BY <1>4 DEF Generate, Generated, ReadData, AdcWaitComplete, GetResistance, Median, Drive
<1>5. CASE CalculateFreq \/ Done \/ Failed \/ Reset
  BY <1>5 DEF CalculateFreq, Done, Failed, DeInitAdc, Reset, TypeOK
<1>. QED
  BY <1>1, <1>2, <1>3, <1>4, <1>5, MeasurementAssumption DEF Next, Work

LEMMA WaitInvStep == ASSUME IInv, [Next]_vars PROVE WaitInv'
<1> USE DEF IInv, WaitInv, Goto, Waiting
<1>1. CASE Tick
  <2>1. /\ UNCHANGED <<pc, end>>
        /\ tick' = (tick + 1) % MsMod
        /\ Waiting => ~Passed
        /\ waited' = IF Waiting /\ waited <= Timeout THEN waited + 1 ELSE waited
    BY <1>1 DEF Tick, place
  <2>2. SUFFICES ASSUME Waiting, end >= Timeout, waited' <= Timeout
                 PROVE  tick' = (end - Timeout) + waited'
    BY <2>1
  <2>3. waited' = waited + 1 /\ tick = (end - Timeout) + waited /\ waited + 1 <= Timeout
    BY <2>1, <2>2, MeasurementAssumption DEF TypeOK
  <2>4. tick + 1 < MsMod
    BY <2>3, MeasurementAssumption DEF TypeOK
  <2>5. tick' = tick + 1
    BY <2>1, <2>4, Wraps, MeasurementAssumption DEF TypeOK
  <2>. QED  BY <2>3, <2>5, MeasurementAssumption DEF TypeOK
<1>2. CASE ReadBegin
  <2>1. /\ end' = (tick + Timeout) % MsMod /\ waited' = 0 /\ tick' = tick
    BY <1>2 DEF ReadBegin
  <2>2. end' = IF tick + Timeout < MsMod THEN tick + Timeout ELSE tick + Timeout - MsMod
    <3>. DEFINE x == tick + Timeout
    <3>1. x \in Nat /\ x < 2 * MsMod
      BY MeasurementAssumption DEF TypeOK
    <3>2. end' = x % MsMod
      BY <2>1
    <3>. HIDE DEF x
    <3>3. end' = IF x < MsMod THEN x ELSE x - MsMod
      BY <3>1, <3>2, Wraps
    <3>. QED  BY <3>3, MeasurementAssumption DEF x, TypeOK
  <2>. QED  BY <2>1, <2>2, MeasurementAssumption DEF TypeOK
<1>3. CASE \/ Sampled \/ InitAdc \/ InitAdcFails \/ CalculateFreq \/ AdcStart
           \/ Poll \/ Late \/ Clear \/ Return \/ Done \/ Failed \/ AdcStartDma \/ Calibrated
           \/ SendMsg \/ Reset \/ UNCHANGED vars
  BY <1>3 DEF Sampled, InitAdc, InitAdcFails, CalculateFreq, AdcStart,
              AdcStartDma, Calibrated,
     Poll, Late, Clear, Return, Done, Failed, DeInitAdc, SendMsg, Reset, vars, place
<1>4. ASSUME NEW kind \in Kinds \ {"none"}, Convert(kind) PROVE WaitInv'
  BY <1>4 DEF Convert, place
<1>5. ASSUME NEW c \in Channels, Request(c) \/ Signal PROVE WaitInv'
  BY <1>5 DEF Request, Signal, Begin
<1>6. CASE \/ Generate \/ Generated \/ ReadData \/ AdcWaitComplete
           \/ GetResistance \/ Median
  BY <1>6 DEF Generate, Generated, ReadData, AdcWaitComplete, GetResistance, Median, Drive
<1>. QED
  BY <1>1, <1>2, <1>3, <1>4, <1>5, <1>6, MeasurementAssumption DEF Next, Work

\* The steps that leave what was read alone, and those that are not between
\* AdcStart() and the median.
LEMMA NotReading ==
  ASSUME IInv, \/ InitAdc \/ InitAdcFails \/ Generate \/ Generated \/ ReadData
               \/ AdcStartDma \/ Calibrated
               \/ AdcWaitComplete \/ CalculateFreq \/ GetResistance \/ Median \/ Done
               \/ Failed \/ SendMsg \/ Reset \/ Signal \/ \E c \in Channels : Request(c)
  PROVE  pc' \notin Reading \cup {"median"}
BY DEF InitAdc, InitAdcFails, Generate, Generated, ReadData,
       AdcStartDma, Calibrated, AdcWaitComplete,
   CalculateFreq, GetResistance, Median, Done, Failed, DeInitAdc, SendMsg, Reset, Signal,
   Request, Begin, Drive, Goto, Reading

LEMMA CountInvStep == ASSUME IInv, [Next]_vars PROVE CountInv'
<1> USE DEF IInv, CountInv
<1>1. CASE AdcStart
  BY <1>1, MeasurementAssumption DEF AdcStart, Goto, Reading, Valid, Kinds
<1>2. CASE Tick \/ Sampled \/ UNCHANGED vars
  BY <1>2 DEF Tick, Sampled, vars, place, used, Valid
<1>3. ASSUME NEW kind \in Kinds \ {"none"}, Convert(kind) PROVE CountInv'
  BY <1>3 DEF Convert, place, Valid
<1>4. CASE ReadBegin \/ Poll \/ Clear
  BY <1>4 DEF ReadBegin, Poll, Clear, Goto, Reading, used, Valid
<1>5. CASE Late
  <2>1. CASE Passed
    BY <1>5, <2>1, MeasurementAssumption
    DEF Late, Goto, Got, Counted, Reading, Valid, Kinds, TypeOK
  <2>2. CASE ~Passed
    BY <1>5, <2>2 DEF Late, Goto, Reading, Valid
  <2>. QED  BY <2>1, <2>2
<1>6. CASE Return
  BY <1>6, MeasurementAssumption DEF Return, Goto, Got, Counted, Reading, Valid, Kinds, TypeOK
<1>. QED
  BY <1>1, <1>2, <1>3, <1>4, <1>5, <1>6, NotReading, MeasurementAssumption DEF Next, Work

LEMMA DistinctInvStep == ASSUME IInv, [Next]_vars PROVE DistinctInv'
<1> USE DEF IInv, DistinctInv
<1>1. CASE AdcStart
  BY <1>1 DEF AdcStart, Goto, Reading, Valid, Kinds, Unread
<1>2. CASE Tick \/ UNCHANGED vars
  BY <1>2 DEF Tick, vars, place, adc, used, Valid
<1>3. CASE Sampled
  BY <1>3 DEF Sampled, AdcInv, Reading, place
<1>4. ASSUME NEW kind \in Kinds \ {"none"}, Convert(kind) PROVE DistinctInv'
  <2>1. /\ UNCHANGED <<pc, values>> /\ adc_value_ready' = TRUE
        /\ read'.distinct = read.distinct /\ read'.again = FALSE
    BY <1>4 DEF Convert, place, TypeOK
  <2>. QED  BY <2>1 DEF Valid, Reading
<1>5. CASE ReadBegin \/ Poll \/ Late
  <2>1. UNCHANGED <<read, adc_value_ready>> /\ Valid' = Valid
    BY <1>5 DEF ReadBegin, Poll, Late, Got, used, adc, Valid, Kinds, TypeOK
  <2>2. /\ pc \in {"read", "poll", "late"} /\ pc' \in {"poll", "late", "clear", "read", "median"}
        /\ pc' = "clear" => adc_value_ready
    BY <1>5 DEF ReadBegin, Poll, Late, Goto
  <2>. QED  BY <2>1, <2>2 DEF Reading
<1>6. CASE Clear
  <2>1. /\ pc = "clear" /\ pc' = "return" /\ adc_value_ready' = FALSE
        /\ read' = read /\ Valid' = Valid
    BY <1>6 DEF Clear, Goto, used, Valid
  <2>. QED  BY <2>1 DEF Reading
<1>7. CASE Return
  <2>1. /\ pc = "return" /\ pc' \in {"read", "median"}
        /\ adc_value_ready' = adc_value_ready
        /\ read'.distinct = read.distinct + (IF read.again THEN 0 ELSE 1)
        /\ read'.again = TRUE
    BY <1>7 DEF Return, Goto, adc
  <2>2. Valid' = Valid + 1 /\ Valid \in Nat
    BY <1>7, MeasurementAssumption DEF Return, Got, Valid, Kinds, TypeOK
  <2>3. read.distinct \in Nat /\ read.again \in BOOLEAN
    BY MeasurementAssumption DEF TypeOK
  <2>. QED  BY <2>1, <2>2, <2>3 DEF Reading
<1>. QED
  BY <1>1, <1>2, <1>3, <1>4, <1>5, <1>6, <1>7, NotReading, MeasurementAssumption
  DEF Next, Work, Reading

LEMMA ModeInvStep == ASSUME IInv, [Next]_vars PROVE ModeInv'
<1> USE DEF IInv, ModeInv
<1>1. CASE AdcStart
  BY <1>1 DEF AdcStart, Goto, Reading, Valid, Kinds, Unread
<1>2. CASE Tick \/ UNCHANGED vars
  <2>1. UNCHANGED <<pc, on, values, read, mode, adc_value_ready>>
    BY <1>2 DEF Tick, vars, place, adc, used
  <2>. QED  BY <2>1 DEF Valid
<1>3. CASE Sampled
  BY <1>3 DEF Sampled, AdcInv, Reading, place
<1>4. ASSUME NEW kind \in Kinds \ {"none"}, Convert(kind) PROVE ModeInv'
  <2>1. UNCHANGED <<pc, on, values>> /\ mode' = ModeOn /\ read'.modes = read.modes
    BY <1>4 DEF Convert, place, TypeOK
  <2>2. pc \in Reading => ModeOn \in on
    BY ModeIsOn DEF Sensor
  <2>. QED  BY <2>1, <2>2 DEF Valid
<1>5. CASE ReadBegin \/ Poll \/ Late \/ Clear
  <2>1. UNCHANGED <<read, mode, on>> /\ Valid' = Valid
    BY <1>5 DEF ReadBegin, Poll, Late, Clear, Got, used, Valid, Kinds, TypeOK
  <2>2. /\ pc \in Reading \ {"return"} /\ pc' \in Reading \cup {"median"}
        /\ pc' = "return" => adc_value_ready
        /\ pc # "clear" => adc_value_ready' = adc_value_ready /\ pc' # "return"
    BY <1>5 DEF ReadBegin, Poll, Late, Clear, Goto, Reading, adc, DistinctInv
  <2>3. pc = "clear" => adc_value_ready
    BY DEF DistinctInv
  <2>. QED  BY <2>1, <2>2, <2>3 DEF Reading
<1>6. CASE Return
  <2>1. /\ pc = "return" /\ pc' \in {"read", "median"}
        /\ UNCHANGED <<adc_value_ready, mode, on>>
        /\ read'.modes = read.modes \cup {mode}
    BY <1>6 DEF Return, Goto, adc
  <2>2. Valid' = Valid + 1 /\ Valid \in Nat
    BY <1>6, MeasurementAssumption DEF Return, Got, Valid, Kinds, TypeOK
  <2>3. mode \in on /\ on \cap Modes = {ModeOn} /\ mode \in Modes
    BY <2>1, ModeIsOn DEF Reading, Sensor, TypeOK
  <2>4. read'.modes = {mode} /\ on \cap Modes = {mode}
    BY <2>1, <2>3 DEF Reading
  <2>. QED  BY <2>1, <2>2, <2>3, <2>4 DEF Reading
<1>. QED
  BY <1>1, <1>2, <1>3, <1>4, <1>5, <1>6, NotReading, MeasurementAssumption
  DEF Next, Work, Reading

-----------------------------------------------------------------------------
LEMMA InitInv == ASSUME Init PROVE IInv
<1> USE DEF Init
<1>1. /\ values \in [Kinds -> 0..Reads]
      /\ read \in [distinct : 0..Reads, again : BOOLEAN, modes : SUBSET Modes]
      /\ measurement_ \in [Fields -> BOOLEAN]
  BY MeasurementAssumption DEF Unread
<1>2. mode \in Modes /\ adc_value \in Kinds \ {"none"}
  BY DEF Modes, Kinds
<1>3. TypeOK
  <2>1. /\ pc \in Resting /\ channel \in Channels /\ by \in {"request", "signal"}
        /\ tick \in 0..(MsMod - 1) /\ end \in 0..(MsMod - 1) /\ waited \in 0..(Timeout + 1)
    BY MeasurementAssumption DEF Resting
  <2>. QED  BY <1>1, <1>2, <2>1 DEF TypeOK
<1>4. PinInv /\ AdcInv /\ SampleInv /\ CountInv /\ DistinctInv /\ ModeInv
  BY DEF PinInv, AdcInv, SampleInv, CountInv, DistinctInv, ModeInv, Sensor, Reading
<1>5. WaitInv /\ FieldInv
  BY DEF WaitInv, FieldInv, Waiting, Sensor, Reading
<1>. QED  BY <1>3, <1>4, <1>5 DEF IInv

LEMMA NextInv == ASSUME IInv, [Next]_vars PROVE IInv'
BY TypeInv, PinInvStep, AdcInvStep, SampleInvStep, CountInvStep, DistinctInvStep,
   ModeInvStep, WaitInvStep, FieldInvStep DEF IInv

LEMMA Invariance == Spec => []IInv
BY InitInv, NextInv, PTL DEF Spec

\* Type correctness, for every number of readings: the array of a median is
\* never written past its end.
THEOREM TypesKept == Spec => []TypeOK
<1>1. IInv => TypeOK
  BY DEF IInv
<1>. QED  BY Invariance, <1>1, PTL

\* Every way out of a measurement leaves all pins low and both ADCs without
\* power, and no two outputs are driven against each other on the way.
THEOREM AllIsSwitchedOff == Spec => []EverythingOff
<1>1. ASSUME IInv PROVE EverythingOff
  <2> USE <1>1 DEF IInv
  <2>1. ASSUME pc \in {"idle", "sending", "ERROR"}
        PROVE  on = {} /\ open = {} /\ converts = "none"
    BY <2>1 DEF PinInv, AdcInv, Sensor, Reading, TypeOK
  <2>2. CASE pc \in Sensor
    <3>1. /\ ModeOn \in Modes /\ on \cap Modes = {ModeOn}
          /\ on = {ModeOn, Pin("EN", channel)} /\ Pin("EN", channel) \notin Modes
      BY <2>2, ModeIsOn, PinsDiffer DEF TypeOK
    <3>. QED  BY <2>1, <3>1 DEF EverythingOff
  <2>3. CASE pc \notin Sensor
    <3>1. on \subseteq {Pin("SND", channel)} \/ on \subseteq {Pin("RCV", channel)}
      BY <2>3 DEF PinInv
    <3>2. on \cap Modes = {} /\ Pin("EN", channel) \notin on
      BY <3>1, PinsDiffer DEF TypeOK, Pin
    <3>3. converts # "adc1"
      BY <2>3 DEF AdcInv, Sensor
    <3>. QED  BY <2>1, <3>1, <3>2, <3>3 DEF EverythingOff
  <2>. QED  BY <2>2, <2>3
<1>. QED  BY Invariance, <1>1, PTL

\* A frequency is never computed from the samples of an earlier measurement,
\* unless the transfer was not started.
THEOREM SamplesAreNew == Spec => SamplesAreFresh
<1>1. ASSUME IInv, CalculateFreq PROVE sampled \/ ~started
  BY <1>1 DEF IInv, SampleInv, CalculateFreq, Goto
<1>. QED  BY Invariance, <1>1, PTL DEF SamplesAreFresh

\* A resistance rests on a majority of the readings, on at least half as many
\* conversions, all made with the resistor it is computed with.
THEOREM ResistanceRests == Spec => ResistanceIsMeasured
<1>1. ASSUME IInv, [Next]_vars, pc = "median", pc' = "done"
      PROVE  /\ 2 * (values["low"] + values["good"]) > Reads
             /\ 2 * read.distinct >= values["low"] + values["good"]
             /\ read.modes = on \cap Modes
  <2> USE <1>1 DEF IInv
  <2>1. MedianValue # "none"
    <3>1. Median
      BY MeasurementAssumption
      DEF Next, Work, vars, place, Goto, Drive, DeInitAdc, Begin, Tick, Sampled, Convert, Request,
          Signal, InitAdc, InitAdcFails, Generate, Generated, ReadData,
          AdcStartDma, Calibrated,
          AdcWaitComplete, CalculateFreq, GetResistance, AdcStart, ReadBegin, Poll, Late,
          Clear, Return, Done, Failed, SendMsg, Reset
    <3>. QED  BY <3>1 DEF Median, Drive, Goto
  <2>2. 2 * Valid > Reads
    BY <2>1, MeasurementAssumption DEF MedianValue, Valid, TypeOK, Kinds
  <2>3. 2 * read.distinct >= Valid
    BY DEF DistinctInv
  <2>4. read.modes = on \cap Modes
    BY <2>2, MeasurementAssumption DEF ModeInv
  <2>. QED  BY <2>2, <2>3, <2>4 DEF Valid
<1>. QED  BY Invariance, <1>1, PTL DEF Spec, ResistanceIsMeasured

\* A reading waits for the whole of its timeout, unless its deadline wraps.
THEOREM TimeoutIsWhole == Spec => GivesUpLate
<1>1. ASSUME IInv, [Next]_vars, values'["none"] > values["none"]
      PROVE  waited > Timeout \/ end < Timeout
  <2> USE <1>1 DEF IInv
  <2>1. Late /\ Passed
    <3>1. values' # values /\ values["none"] \in Nat
      BY DEF TypeOK, Kinds
    <3>2. AdcStart \/ Late \/ Return \/ Reset
      BY <3>1, MeasurementAssumption
      DEF Next, Work, vars, Drive, DeInitAdc, Begin, Tick, Sampled, Convert, Request,
          Signal, InitAdc, InitAdcFails, Generate, Generated, ReadData,
          AdcStartDma, Calibrated,
          AdcWaitComplete, CalculateFreq, GetResistance, ReadBegin, Poll,
          Clear, Median, Done, Failed, SendMsg, used
    <3>3. ~AdcStart /\ ~Reset
      BY <3>1 DEF AdcStart, Reset, Kinds
    <3>4. ~Return
      BY DEF Return, Got, TypeOK, Kinds
    <3>. QED  BY <3>1, <3>2, <3>3, <3>4 DEF Late
  <2>2. Waiting
    BY <2>1 DEF Late, Goto, Waiting
  <2>. QED  BY <2>1, <2>2, MeasurementAssumption DEF WaitInv, Passed, TypeOK
<1>. QED  BY Invariance, <1>1, PTL DEF Spec, GivesUpLate

\* What is sent is the result of one measurement, whatever failed before.
THEOREM WholeIsSent == Spec => SentIsWhole
<1>1. ASSUME IInv, SendMsg PROVE \A f \in Fields : measurement_[f]
  BY <1>1 DEF IInv, FieldInv, SendMsg, Goto
<1>. QED  BY Invariance, <1>1, PTL DEF SentIsWhole

=============================================================================
