--------------------------- MODULE AppCoreProofs ---------------------------
(***************************************************************************)
(* Proofs about AppCore, for any number of channels, any set of requests,  *)
(* any number of them, and any two periods of which the sleep's is the     *)
(* shorter.                                                                *)
(*                                                                         *)
(* None of the properties is inductive: each depends on which states of    *)
(* the application go with which step of the loop.  LoopInv says that; the *)
(* rest follows the accepted request (RequestInv) and the time since the   *)
(* watchdog was refreshed (WatchdogInv).                                   *)
(***************************************************************************)
EXTENDS AppCore, SequenceTheorems, TLAPS

\* The states of the application at the steps of the loop.  A measurement is
\* accepted, or ordered by a signal, and begun in one call of app::Work(), so
\* that no call begins with one to be started.
LoopInv ==
  /\ pc = "measure" => state_ = "START_MEASUREMENT"
  /\ pc = "measureSignal" => state_ = "MEASUREMENT_BY_SIGNAL"
  /\ pc \in {"wfi", "asleep", "awake"} => state_ = "SLEEP"
  /\ pc = "receive" => state_ \notin {"START_MEASUREMENT", "MEASUREMENT_BY_SIGNAL"}

\* channel_ is that of the request to be answered until it is measured.
RequestInv == /\ state_ = "START_MEASUREMENT" => channel_ + 1 = owed
              /\ AnswerMatchesRequest

\* The alarm was over when it was set, or came before WFI.
Lost == lost # "no" /\ alarm = Never

WatchdogInv ==
  /\ pc \in {"receive", "signal", "switch"} => wdg = 0
  /\ pc \in {"measure", "measureSignal", "wfi"} => wdg <= 1
  /\ pc \in {"wfi", "asleep"} => Lost \/ (alarm # Never /\ wdg + alarm <= LedPeriod)
  /\ pc = "awake" => Lost \/ wdg <= LedPeriod

IInv == TypeOK /\ LoopInv /\ RequestInv /\ PausedOnlyWhileMeasuring /\ WatchdogInv

-----------------------------------------------------------------------------
LEMMA PartSequences ==
  /\ << >> \in Seq(Parts)
  /\ \A s \in Seq(Parts) : s # << >> => Head(s) \in Parts /\ Tail(s) \in Seq(Parts)
  /\ \A s \in Seq(Parts), p \in Parts : Append(s, p) \in Seq(Parts)
  BY HeadTailProperties, AppendProperties

\* The values of the first state are in their types.
LEMMA InitialTypes ==
  /\ NoMsg \in [cmd : Cmds \cup {"NO"}, channel : Channels]
  /\ 0 \in Channels /\ 0 \in 0..(NChannels + 1) /\ 0 \in 0..WdgPeriod
  /\ 0 \in 0..LedPeriod /\ 0 \in 0..MaxSends
  BY AppCoreAssumption DEF NoMsg, Channels

LEMMA InitInv == Init => IInv
<1> SUFFICES ASSUME Init PROVE IInv
  OBVIOUS
<1>1. TypeOK
  BY PartSequences, InitialTypes DEF Init, TypeOK, AppStates, Steps, Deadlines
<1>. QED
  BY <1>1
  DEF Init, IInv, LoopInv, RequestInv, AnswerMatchesRequest,
      PausedOnlyWhileMeasuring, WatchdogInv

\* A reset leads back to the initial state, whatever there was before.
LEMMA BootInv == ASSUME IInv, Boot PROVE IInv'
<1>1. TypeOK'
  BY PartSequences, InitialTypes DEF Boot, IInv, TypeOK, AppStates, Steps,
                                      Deadlines
<1>. QED
  BY <1>1
  DEF Boot, IInv, LoopInv, RequestInv, AnswerMatchesRequest,
      PausedOnlyWhileMeasuring, WatchdogInv

\* The command processor, without the application's handler.
LEMMA ReceiveInv ==
  ASSUME IInv,
         Restart \/ ReadMarker \/ ReadTimeout \/ ReadMessage \/ Transmit
                 \/ Transmitted \/ NothingToDo
  PROVE  IInv'
<1> USE DEF IInv
<1>1. /\ pc = "receive" /\ pc' = "signal"
      /\ UNCHANGED <<wdg, rtcVars, sends, appVars, signalVars, owed>>
      /\ ~paused /\ (paused' = FALSE \/ paused' = paused)
  BY DEF Restart, ReadMarker, ReadTimeout, ReadMessage, Transmit, Transmitted,
         NothingToDo, Receive, PausedOnlyWhileMeasuring, portVars
<1>2. TypeOK'
  <2>1. CASE Restart
    BY <2>1, PartSequences DEF TypeOK, Restart, Receive, Steps, appVars,
                               signalVars, rtcVars, Deadlines
  <2>2. CASE ReadMarker
    <3>1. inbox' \in Seq(Parts)
      BY <2>2, PartSequences DEF TypeOK, ReadMarker
    <3>2. link' \in {"NO", "READING"} /\ end_read_time_ms_' \in Deadlines
      BY <2>2 DEF TypeOK, ReadMarker
    <3>3. UNCHANGED <<bus, portError, paused, writing, request, answer>>
      BY <2>2 DEF ReadMarker
    <3>. QED
      BY <1>1, <3>1, <3>2, <3>3 DEF TypeOK, Steps, appVars, signalVars, rtcVars
  <2>3. CASE ReadTimeout
    BY <2>3 DEF TypeOK, ReadTimeout, Receive, Steps, appVars, signalVars, rtcVars,
                portVars
  <2>4. CASE ReadMessage
    <3>1. Head(inbox) \in Parts /\ inbox' \in Seq(Parts)
      BY <2>4, PartSequences DEF TypeOK, ReadMessage
    <3>2. request' \in Requests \cup {NoMsg} /\ link' \in {"NO", "CMD_RECEIVED"}
      BY <2>4, <3>1 DEF TypeOK, ReadMessage, Parts
    <3>3. /\ UNCHANGED <<bus, portError, paused, writing, answer>>
          /\ end_read_time_ms_' \in Deadlines
      BY <2>4 DEF ReadMessage, Deadlines
    <3>. QED
      BY <1>1, <3>1, <3>2, <3>3 DEF TypeOK, Steps, appVars, signalVars, rtcVars
  <2>5. CASE Transmit
    BY <2>5 DEF TypeOK, Transmit, Receive, Steps, appVars, signalVars, rtcVars
  <2>6. CASE Transmitted
    BY <2>6 DEF TypeOK, Transmitted, Receive, Steps, appVars, signalVars, rtcVars,
                portVars
  <2>7. CASE NothingToDo
    BY <2>7 DEF TypeOK, NothingToDo, Receive, Steps, appVars, signalVars, rtcVars,
                portVars, linkVars
  <2>. QED  BY <2>1, <2>2, <2>3, <2>4, <2>5, <2>6, <2>7
<1>3. LoopInv' /\ RequestInv' /\ WatchdogInv'
  BY <1>1 DEF LoopInv, RequestInv, AnswerMatchesRequest, WatchdogInv, appVars
<1>4. PausedOnlyWhileMeasuring'
  BY <1>1 DEF PausedOnlyWhileMeasuring
<1>. QED  BY <1>2, <1>3, <1>4

\* The handler: an accepted measurement is the one that is owed.
LEMMA HandleInv == ASSUME IInv, Handle PROVE IInv'
<1> USE AppCoreAssumption DEF IInv
<1>1. /\ pc = "receive" /\ pc' = "signal"
      /\ UNCHANGED <<wdg, rtcVars, sends, portVars, request, end_read_time_ms_, error_,
                     measurement_, end_wait_time_ms, signalVars>>
      /\ answer' = request /\ link' \in {"SEND_MSG", "NO"}
  BY DEF Handle, Receive
<1>2. state_ \notin {"START_MEASUREMENT", "MEASUREMENT_BY_SIGNAL"}
  BY <1>1 DEF LoopInv
<1>3. CASE UNCHANGED <<state_, channel_, owed>>
  <2>1. TypeOK'
    BY <1>1, <1>3 DEF TypeOK, Steps, portVars, signalVars, rtcVars, NoMsg, Channels
  <2>. QED
    BY <1>1, <1>3, <2>1
    DEF LoopInv, RequestInv, AnswerMatchesRequest, PausedOnlyWhileMeasuring,
        WatchdogInv, portVars
<1>4. CASE request.cmd = "MEASUREMENT" /\ state_ # "ERROR"
  <2>1. request \in Requests
    BY <1>4 DEF TypeOK, NoMsg
  <2>2. request.channel \in 0..(NChannels + 2)
    BY <2>1
  <2>3. /\ channel_' = NewChannel
        /\ IF NewChannel > NChannels
           THEN UNCHANGED <<state_, owed>>
           ELSE state_' = "START_MEASUREMENT" /\ owed' = request.channel
    BY <1>4 DEF Handle, HandleMeasurement
  <2>4. /\ NewChannel \in 0..(NChannels + 1) \cup {Huge}
        /\ NewChannel <= NChannels => NewChannel + 1 = request.channel
    BY <2>2 DEF NewChannel, Huge
  <2>5. TypeOK'
    BY <1>1, <2>1, <2>2, <2>3, <2>4
    DEF TypeOK, Steps, portVars, signalVars, rtcVars, Channels, AppStates
  <2>6. RequestInv'
    BY <1>1, <1>2, <2>2, <2>3, <2>4 DEF RequestInv, AnswerMatchesRequest, Huge
  <2>. QED
    BY <1>1, <2>5, <2>6
    DEF LoopInv, PausedOnlyWhileMeasuring, WatchdogInv, portVars
<1>. QED
  BY <1>3, <1>4 DEF Handle, HandleMeasurement

\* The look at the signal; a pass begins with the watchdog refreshed.
LEMMA SignalInv == ASSUME IInv, LookAtSignal PROVE IInv'
<1> USE DEF IInv
<1>1. /\ pc = "signal" /\ pc' = "switch"
      /\ UNCHANGED <<portVars, linkVars, error_, channel_, measurement_, end_wait_time_ms,
                     is_signal_, wdg, rtcVars, owed, sends>>
      /\ \/ UNCHANGED <<state_, is_on_>>
         \/ state_' = "MEASUREMENT_BY_SIGNAL" /\ is_on_' = FALSE
  BY DEF LookAtSignal
<1>2. TypeOK'
  <2>1. state_' \in AppStates /\ is_on_' \in BOOLEAN
    BY <1>1 DEF TypeOK, AppStates
  <2>. QED
    BY <1>1, <2>1 DEF TypeOK, Steps, portVars, linkVars, rtcVars
<1>. QED
  BY <1>1, <1>2
  DEF LoopInv, RequestInv, AnswerMatchesRequest, PausedOnlyWhileMeasuring,
      WatchdogInv, portVars, rtcVars

-----------------------------------------------------------------------------
(***************************************************************************)
(* The switch over the states.                                             *)
(***************************************************************************)

\* The states that end the call at once, without measuring.
LEMMA PassInv ==
  ASSUME IInv, Idle \/ LedOn \/ WakeUp \/ SendMeasurement
  PROVE  IInv'
<1> USE DEF IInv
<1>1. /\ UNCHANGED <<portVars, request, end_read_time_ms_, error_, channel_, measurement_,
                     signalVars, alarm, sinceAlarm, sends>>
      /\ lost' \in {"no", lost}
      /\ pc' = "receive" /\ wdg' = 0
      /\ state_' \in {"IDLE", "LED_ON", "SLEEP", "SENDING_MEASUREMENT"}
  BY DEF Idle, LedOn, WakeUp, SendMeasurement, EndPass, linkVars, rtcVars
<1>2. TypeOK'
  <2>1. link' \in {"NO", "READING", "CMD_RECEIVED", "SEND_MSG", "SENDING_MSG"}
    BY DEF Idle, LedOn, WakeUp, SendMeasurement, TypeOK, linkVars
  <2>2. answer' \in [cmd : Cmds \cup {"NO"}, channel : Channels]
    BY DEF Idle, LedOn, WakeUp, SendMeasurement, TypeOK, linkVars, Cmds
  <2>3. owed' \in Channels
    BY InitialTypes DEF Idle, LedOn, WakeUp, SendMeasurement, TypeOK
  <2>4. end_wait_time_ms' \in Deadlines
    BY DEF Idle, LedOn, WakeUp, SendMeasurement, TypeOK
  <2>5. wdg' \in 0..WdgPeriod
    BY <1>1, InitialTypes
  <2>. QED
    BY <1>1, <2>1, <2>2, <2>3, <2>4, <2>5
    DEF TypeOK, Steps, AppStates, portVars, signalVars
<1>3. RequestInv'
  <2>1. state_' = "SENDING_MEASUREMENT" => state_ = state_' /\ owed' = owed
    BY DEF Idle, LedOn, WakeUp, SendMeasurement
  <2>. QED
    BY <1>1, <2>1 DEF RequestInv, AnswerMatchesRequest
<1>4. ~paused
  BY DEF PausedOnlyWhileMeasuring, Idle, LedOn, WakeUp, SendMeasurement
<1>. QED
  BY <1>1, <1>2, <1>3, <1>4
  DEF LoopInv, PausedOnlyWhileMeasuring, WatchdogInv, portVars

\* Going to sleep, with the watchdog just refreshed: the alarm is nearer than
\* the watchdog's period, unless the context was too old.
LEMMA SleepInv == ASSUME IInv, StartSleep \/ EnterSleep PROVE IInv'
<1> USE AppCoreAssumption DEF IInv
<1>1. CASE StartSleep
  <2>1. /\ pc = "switch" /\ state_ = "SLEEP" /\ pc' = "wfi"
        /\ UNCHANGED <<portVars, linkVars, appVars, signalVars, wdg, sinceAlarm,
                       owed, sends>>
        /\ IF sinceAlarm < LedPeriod
           THEN alarm' = LedPeriod - sinceAlarm /\ lost' = "no"
           ELSE alarm' = Never /\ lost' = "over"
    BY <1>1 DEF StartSleep
  <2>2. wdg = 0 /\ sinceAlarm \in 0..LedPeriod
    BY <2>1 DEF WatchdogInv, TypeOK
  <2>3. /\ \/ alarm' \in 1..LedPeriod
           \/ alarm' = Never /\ lost' = "over"
        /\ lost' \in {"no", "over"}
    BY <2>1, <2>2
  <2>4. TypeOK'
    BY <2>1, <2>3 DEF TypeOK, Steps, portVars, linkVars, appVars, signalVars
  <2>5. WatchdogInv'
    BY <2>1, <2>2, <2>3 DEF WatchdogInv, Lost, Never
  <2>. QED
    BY <2>1, <2>4, <2>5
    DEF LoopInv, RequestInv, AnswerMatchesRequest, PausedOnlyWhileMeasuring,
        portVars, appVars
<1>2. CASE EnterSleep
  <2>1. /\ pc = "wfi" /\ pc' = "asleep"
        /\ UNCHANGED <<portVars, linkVars, appVars, signalVars, wdg, alarm,
                       sinceAlarm, lost, owed, sends>>
    BY <1>2 DEF EnterSleep, rtcVars
  <2>2. TypeOK'
    BY <2>1 DEF TypeOK, Steps, portVars, linkVars, appVars, signalVars
  <2>3. WatchdogInv'
    BY <2>1 DEF WatchdogInv, Lost, Never
  <2>. QED
    BY <2>1, <2>2, <2>3
    DEF LoopInv, RequestInv, AnswerMatchesRequest, PausedOnlyWhileMeasuring,
        portVars, appVars
<1>. QED  BY <1>1, <1>2

\* The start of a measurement, in the pass that ordered it; a hang in one.
LEMMA StartInv ==
  ASSUME IInv, StartMeasurement \/ StartSignalMeasurement \/ Hang
  PROVE  IInv'
<1> USE DEF IInv
<1>1. /\ UNCHANGED <<bus, inbox, portError, writing, linkVars, appVars,
                     signalVars, wdg, rtcVars, owed, sends>>
      /\ paused' \in BOOLEAN
      /\ \/ pc = "switch" /\ state_ = "START_MEASUREMENT" /\ pc' = "measure"
         \/ /\ pc = "switch" /\ state_ = "MEASUREMENT_BY_SIGNAL"
            /\ pc' = "measureSignal" /\ paused' = paused
         \/ /\ pc \in {"measure", "measureSignal"} /\ pc' = "hung"
            /\ paused' = paused
  BY DEF StartMeasurement, StartSignalMeasurement, Hang, TypeOK, portVars
<1>2. TypeOK'
  BY <1>1 DEF TypeOK, Steps, linkVars, appVars, signalVars, rtcVars
<1>. QED
  BY <1>1, <1>2
  DEF LoopInv, RequestInv, AnswerMatchesRequest, PausedOnlyWhileMeasuring,
      WatchdogInv, appVars

\* The result of a measurement is that of the channel asked for.
LEMMA MeasuredInv ==
  ASSUME IInv, NEW e \in {"NO", "ADC_ERROR"}, Measured(e)
  PROVE  IInv'
<1> USE DEF IInv
<1>1. /\ pc = "measure" /\ state_ = "START_MEASUREMENT"
      /\ pc' = "receive" /\ wdg' = 0 /\ paused' = FALSE /\ error_' = e
      /\ UNCHANGED <<bus, inbox, portError, writing, linkVars, channel_, end_wait_time_ms,
                     signalVars, rtcVars, owed, sends>>
  BY DEF Measured, EndPass, LoopInv
<1>2. channel_ + 1 = owed /\ owed \in Channels
  BY <1>1 DEF RequestInv, TypeOK
<1>3. \/ measurement_' = owed /\ state_' = "SENDING_MEASUREMENT"
      \/ measurement_' = measurement_ /\ state_' = "ERROR"
  BY <1>2 DEF Measured
<1>4. TypeOK'
  <2>1. measurement_' \in Channels /\ state_' \in AppStates
    BY <1>2, <1>3 DEF TypeOK, AppStates
  <2>2. wdg' \in 0..WdgPeriod /\ pc' \in Steps /\ paused' \in BOOLEAN
    BY <1>1, InitialTypes DEF Steps
  <2>3. channel_' \in 0..(NChannels + 1) \cup {Huge} /\ owed' \in Channels
    BY <1>1 DEF TypeOK
  <2>. QED
    BY <1>1, <2>1, <2>2, <2>3 DEF TypeOK, linkVars, signalVars, rtcVars
<1>. QED
  BY <1>1, <1>3, <1>4
  DEF LoopInv, RequestInv, AnswerMatchesRequest, PausedOnlyWhileMeasuring,
      WatchdogInv

\* The measurement by the signal forgets the one the master asked for.
LEMMA SignalMeasuredInv ==
  ASSUME IInv, NEW e \in {"NO", "ADC_ERROR"}, SignalMeasured(e)
  PROVE  IInv'
<1> USE DEF IInv
<1>1. /\ pc = "measureSignal" /\ pc' = "receive" /\ wdg' = 0 /\ state_' = "IDLE"
      /\ error_' = e /\ is_on_' = TRUE /\ is_signal_' = FALSE
      /\ UNCHANGED <<portVars, linkVars, channel_, end_wait_time_ms, rtcVars, owed, sends>>
      /\ measurement_' = IF e = "NO" THEN NChannels ELSE measurement_
  BY DEF SignalMeasured, EndPass
<1>2. TypeOK'
  <2>1. measurement_' \in Channels /\ state_' \in AppStates
    BY <1>1, AppCoreAssumption DEF TypeOK, AppStates, Channels
  <2>2. wdg' \in 0..WdgPeriod /\ pc' \in Steps /\ error_' \in {"NO", "ADC_ERROR"}
    BY <1>1, AppCoreAssumption DEF Steps
  <2>3. channel_' \in 0..(NChannels + 1) \cup {Huge} /\ owed' \in Channels
    BY <1>1 DEF TypeOK
  <2>. QED
    BY <1>1, <2>1, <2>2, <2>3 DEF TypeOK, portVars, linkVars, rtcVars
<1>3. ~paused'
  BY <1>1 DEF PausedOnlyWhileMeasuring, portVars
<1>. QED
  BY <1>1, <1>2, <1>3
  DEF LoopInv, RequestInv, AnswerMatchesRequest, PausedOnlyWhileMeasuring,
      WatchdogInv

\* The state ERROR waits, and ends in a reset.
LEMMA ErrorStateInv == ASSUME IInv, ErrorState PROVE IInv'
<1> USE DEF IInv
<1>1. /\ pc = "switch" /\ state_ = "ERROR"
      /\ UNCHANGED <<portVars, linkVars, appVars, signalVars, rtcVars, owed, sends>>
      /\ pc' \in {"boot", "receive"} /\ wdg' \in {wdg, 0}
  BY DEF ErrorState, EndPass
<1>2. wdg = 0 /\ wdg' = 0
  BY <1>1 DEF WatchdogInv
<1>3. TypeOK'
  BY <1>1, <1>2
  DEF TypeOK, Steps, portVars, linkVars, appVars, signalVars, rtcVars
<1>. QED
  BY <1>1, <1>2, <1>3
  DEF LoopInv, RequestInv, AnswerMatchesRequest, PausedOnlyWhileMeasuring,
      WatchdogInv, portVars, appVars

-----------------------------------------------------------------------------
(***************************************************************************)
(* Interrupts.                                                             *)
(***************************************************************************)

\* What keeps the application's state, wakes the core at most, and leaves the
\* watchdog and the clock alone, keeps everything but the types.
LEMMA WakeKeeps ==
  ASSUME LoopInv, RequestInv, PausedOnlyWhileMeasuring, WatchdogInv, TypeOK, Wake,
         UNCHANGED <<paused, appVars, wdg, rtcVars, owed>>
  PROVE  /\ LoopInv' /\ RequestInv' /\ PausedOnlyWhileMeasuring' /\ WatchdogInv'
         /\ pc' \in Steps
<1>1. /\ pc' = pc \/ (pc = "asleep" /\ pc' = "awake")
      /\ UNCHANGED <<paused, state_, channel_, measurement_, wdg, alarm, sinceAlarm,
                     lost, owed>>
  BY DEF Wake, appVars, rtcVars
<1>2. pc' \in Steps
  BY <1>1 DEF TypeOK, Steps
<1>3. LoopInv' /\ RequestInv' /\ PausedOnlyWhileMeasuring'
  BY <1>1
  DEF LoopInv, RequestInv, AnswerMatchesRequest, PausedOnlyWhileMeasuring
<1>4. WatchdogInv'
  <2>1. CASE pc' = pc
    BY <1>1, <2>1 DEF WatchdogInv, Lost
  <2>2. CASE pc = "asleep" /\ pc' = "awake"
    <3>1. wdg \in Nat /\ alarm \in {Never} \cup Nat /\ LedPeriod \in Nat
      BY AppCoreAssumption DEF TypeOK
    <3>2. Lost \/ wdg <= LedPeriod
      BY <2>2, <3>1 DEF WatchdogInv
    <3>. QED
      BY <1>1, <2>2, <3>2 DEF WatchdogInv, Lost
  <2>. QED  BY <1>1, <2>1, <2>2
<1>. QED  BY <1>2, <1>3, <1>4

\* The interrupts of the port and of the signal.
LEMMA PortInv ==
  ASSUME IInv, Arrive \/ Lose \/ TxComplete \/ ExternalSignal
  PROVE  IInv'
<1> USE DEF IInv
<1>1. /\ Wake
      /\ UNCHANGED <<paused, linkVars, appVars, is_on_, wdg, rtcVars, owed, sends>>
  BY DEF Arrive, Lose, TxComplete, ExternalSignal, portVars, signalVars
<1>2. /\ LoopInv' /\ RequestInv' /\ PausedOnlyWhileMeasuring' /\ WatchdogInv'
      /\ pc' \in Steps
  BY <1>1, WakeKeeps
<1>3. bus' \in Seq(Parts) /\ inbox' \in Seq(Parts)
  BY PartSequences DEF TypeOK, Arrive, Lose, TxComplete, ExternalSignal, portVars
<1>4. portError' \in BOOLEAN /\ writing' \in BOOLEAN /\ is_signal_' \in BOOLEAN
  BY DEF TypeOK, Arrive, Lose, TxComplete, ExternalSignal, portVars, signalVars
<1>5. TypeOK'
  BY <1>1, <1>2, <1>3, <1>4 DEF TypeOK, linkVars, appVars, rtcVars
<1>. QED  BY <1>2, <1>5

\* The alarm: the sleep has lasted less than the watchdog's period.
LEMMA RtcAlarmInv == ASSUME IInv, RtcAlarm PROVE IInv'
<1> USE DEF IInv
<1>1. /\ alarm = 0 /\ alarm' = Never /\ sinceAlarm' = 0 /\ Wake
      /\ UNCHANGED <<portVars, linkVars, appVars, signalVars, wdg, owed, sends>>
  BY DEF RtcAlarm
<1>2. wdg \in Nat /\ LedPeriod \in Nat /\ ~Lost
  BY <1>1, AppCoreAssumption DEF TypeOK, Lost, Never
<1>3. \/ pc' = pc /\ pc \notin {"wfi", "asleep"} /\ lost' = lost
      \/ pc' = pc /\ pc = "wfi" /\ lost' = "early"
      \/ pc = "asleep" /\ pc' = "awake" /\ wdg <= LedPeriod /\ lost' = lost
  BY <1>1, <1>2 DEF WatchdogInv, Wake, RtcAlarm
<1>4. TypeOK'
  BY <1>1, <1>3, InitialTypes DEF TypeOK, Steps, portVars, linkVars, appVars, signalVars
<1>5. WatchdogInv'
  BY <1>1, <1>2, <1>3 DEF WatchdogInv, Lost
<1>. QED
  BY <1>1, <1>3, <1>4, <1>5
  DEF LoopInv, RequestInv, AnswerMatchesRequest, PausedOnlyWhileMeasuring,
      portVars, appVars

\* The deadlines and the tick.
LEMMA DeadlineInv ==
  ASSUME IInv,
         \/ \E end \in {"ahead", "beyond"} : ReadDeadline(end) \/ WaitDeadline(end)
         \/ ClockWraps
  PROVE  IInv'
<1> USE DEF IInv
<1>1. /\ UNCHANGED <<portVars, link, request, answer, state_, error_, channel_,
                     measurement_, signalVars, pc, wdg, rtcVars, owed, sends>>
      /\ end_read_time_ms_' \in {end_read_time_ms_, "passed", "beyond"}
      /\ end_wait_time_ms' \in {end_wait_time_ms, "passed", "beyond"}
  BY DEF ReadDeadline, WaitDeadline, ClockWraps, Wrapped, linkVars, appVars
<1>2. TypeOK'
  <2>1. end_read_time_ms_' \in Deadlines /\ end_wait_time_ms' \in Deadlines
    BY <1>1 DEF TypeOK, Deadlines
  <2>. QED
    BY <1>1, <2>1 DEF TypeOK, portVars, signalVars, rtcVars
<1>. QED
  BY <1>1, <1>2
  DEF LoopInv, RequestInv, AnswerMatchesRequest, PausedOnlyWhileMeasuring,
      WatchdogInv, Lost, portVars, rtcVars

\* A unit of time brings the watchdog and the alarm nearer together.
LEMMA ElapseInv == ASSUME IInv, Elapse PROVE IInv'
<1> USE DEF IInv
<1>1. /\ UNCHANGED <<portVars, linkVars, appVars, signalVars, pc, lost, owed, sends>>
      /\ alarm' = IF alarm = Never THEN Never ELSE alarm - 1
      /\ sinceAlarm' = IF sinceAlarm = LedPeriod THEN sinceAlarm ELSE sinceAlarm + 1
      /\ alarm # 0
      /\ \/ pc = "receive" /\ wdg' = wdg
         \/ pc \in {"measure", "measureSignal", "wfi"} /\ wdg = 0 /\ wdg' = 1
         \/ pc \in {"asleep", "hung"} /\ wdg < WdgPeriod /\ wdg' = wdg + 1
  BY DEF Elapse
<1>2. /\ wdg \in 0..WdgPeriod /\ sinceAlarm \in 0..LedPeriod
      /\ alarm \in {Never} \cup 0..LedPeriod
      /\ LedPeriod \in Nat \ {0} /\ WdgPeriod \in Nat /\ LedPeriod < WdgPeriod
  BY AppCoreAssumption DEF TypeOK
<1>3. wdg' \in 0..WdgPeriod /\ sinceAlarm' \in 0..LedPeriod
  BY <1>1, <1>2
<1>4. \/ alarm = Never /\ alarm' = Never
      \/ alarm \in 1..LedPeriod /\ alarm' = alarm - 1 /\ alarm' \in 0..LedPeriod
  BY <1>1, <1>2
<1>5. TypeOK'
  BY <1>1, <1>3, <1>4 DEF TypeOK, portVars, linkVars, appVars, signalVars
<1>6. Lost => Lost'
  BY <1>1, <1>4, <1>2 DEF Lost, Never
<1>7. WatchdogInv'
  <2>1. CASE pc \in {"wfi", "asleep"}
    <3>1. Lost \/ (alarm # Never /\ wdg + alarm <= LedPeriod)
      BY <2>1 DEF WatchdogInv
    <3>2. alarm # Never => alarm' # Never /\ wdg' + alarm' = wdg + alarm
      BY <1>1, <1>2, <1>4, <2>1 DEF Never
    <3>. QED
      BY <1>1, <1>6, <2>1, <3>1, <3>2 DEF WatchdogInv
  <2>2. CASE pc \notin {"wfi", "asleep"}
    BY <1>1, <2>2 DEF WatchdogInv
  <2>. QED  BY <2>1, <2>2
<1>. QED
  BY <1>1, <1>5, <1>7
  DEF LoopInv, RequestInv, AnswerMatchesRequest, PausedOnlyWhileMeasuring,
      portVars, appVars

LEMMA WatchdogResetInv == ASSUME IInv, WatchdogReset PROVE IInv'
<1> USE DEF IInv
<1>1. /\ pc # "boot" /\ pc' = "boot"
      /\ UNCHANGED <<portVars, linkVars, appVars, signalVars, wdg, rtcVars, owed, sends>>
  BY DEF WatchdogReset
<1>2. TypeOK'
  BY <1>1 DEF TypeOK, Steps, portVars, linkVars, appVars, signalVars, rtcVars
<1>. QED
  BY <1>1, <1>2
  DEF LoopInv, RequestInv, AnswerMatchesRequest, PausedOnlyWhileMeasuring,
      WatchdogInv, portVars, appVars

LEMMA SendInv == ASSUME IInv, NEW r \in Requests, Send(r) PROVE IInv'
<1> USE DEF IInv
<1>1. /\ bus' = <<Marker, r>> /\ sends < MaxSends /\ sends' = sends + 1
      /\ UNCHANGED <<inbox, portError, paused, writing, linkVars, appVars,
                     signalVars, pc, wdg, rtcVars, owed>>
  BY DEF Send
<1>2. bus' \in Seq(Parts)
  BY <1>1 DEF Parts
<1>3. sends' \in 0..MaxSends
  BY <1>1, AppCoreAssumption DEF TypeOK
<1>4. TypeOK'
  BY <1>1, <1>2, <1>3 DEF TypeOK, linkVars, appVars, signalVars, rtcVars
<1>. QED
  BY <1>1, <1>4
  DEF LoopInv, RequestInv, AnswerMatchesRequest, PausedOnlyWhileMeasuring,
      WatchdogInv, Lost, appVars, rtcVars

LEMMA StutterInv == ASSUME IInv, UNCHANGED vars PROVE IInv'
  BY DEF IInv, TypeOK, LoopInv, RequestInv, AnswerMatchesRequest,
         PausedOnlyWhileMeasuring, WatchdogInv, Lost, vars, portVars, linkVars,
         appVars, signalVars, rtcVars

LEMMA NextInv == ASSUME IInv, [Next]_vars PROVE IInv'
<1>1. CASE Loop
  BY <1>1, BootInv, ReceiveInv, HandleInv, SignalInv, PassInv, SleepInv, StartInv,
     MeasuredInv, SignalMeasuredInv, ErrorStateInv
  DEF Loop, CommandProcessorWork
<1>2. CASE Interrupt
  BY <1>2, PortInv, RtcAlarmInv, DeadlineInv, ElapseInv, WatchdogResetInv
  DEF Interrupt
<1>. QED
  BY <1>1, <1>2, SendInv, StutterInv DEF Next

-----------------------------------------------------------------------------
\* The inductive invariant: the loop's states, the accepted request and the
\* time since the watchdog was refreshed go together in every reachable state.
THEOREM Invariant == Spec => []IInv
<1>1. IInv /\ [Next]_vars => IInv'
  BY NextInv
<1>. QED  BY InitInv, <1>1, PTL DEF Spec

\* Every variable of the application keeps its type.
THEOREM TypeCorrect == Spec => []TypeOK
<1>1. IInv => TypeOK
  BY DEF IInv
<1>. QED  BY Invariant, <1>1, PTL

\* The measurement sent is that of the channel asked for last (app_core.cpp:
\* 133-156, 211-223), for any number of channels and of requests.
THEOREM AnswersMatch == Spec => []AnswerMatchesRequest
<1>1. IInv => AnswerMatchesRequest
  BY DEF IInv, RequestInv
<1>. QED  BY Invariant, <1>1, PTL

\* No path out of a measurement leaves the reader paused (app_core.cpp:
\* 133-146).
THEOREM NeverLeftPaused == Spec => []PausedOnlyWhileMeasuring
<1>1. IInv => PausedOnlyWhileMeasuring
  BY DEF IInv
<1>. QED  BY Invariant, <1>1, PTL

\* ERROR is left only by a reset (app_core.cpp:107, 157-167).
THEOREM ErrorIsFinal == Spec => ErrorUntilReset
<1>1. IInv /\ [Next]_vars => [state_ = "ERROR" => state_' = "ERROR" \/ pc = "boot"]_vars
  <2> SUFFICES ASSUME IInv, Next, state_ = "ERROR", pc # "boot"
               PROVE  state_' = "ERROR"
    OBVIOUS
  <2>1. CASE CommandProcessorWork
    BY <2>1 DEF CommandProcessorWork, Restart, ReadMarker, ReadTimeout, ReadMessage,
                Handle, HandleMeasurement, Transmit, Transmitted, NothingToDo, appVars
  <2>2. CASE LookAtSignal
    BY <2>2 DEF LookAtSignal, SignalSeen
  <2>3. CASE \E e \in {"NO", "ADC_ERROR"} : Measured(e) \/ SignalMeasured(e)
    BY <2>3 DEF Measured, SignalMeasured, IInv, LoopInv
  <2>4. CASE WakeUp
    BY <2>4 DEF WakeUp, IInv, LoopInv
  <2>5. CASE \/ Boot \/ Idle \/ LedOn \/ StartSleep \/ EnterSleep
             \/ StartMeasurement \/ SendMeasurement \/ ErrorState
             \/ StartSignalMeasurement \/ Hang
    BY <2>5 DEF Boot, Idle, LedOn, StartSleep, EnterSleep, StartMeasurement,
                SendMeasurement, ErrorState, StartSignalMeasurement, Hang, appVars
  <2>6. CASE Interrupt
    BY <2>6 DEF Interrupt, Arrive, Lose, TxComplete, ExternalSignal, RtcAlarm,
                ReadDeadline, WaitDeadline, ClockWraps, Elapse, WatchdogReset, appVars
  <2>7. CASE \E r \in Requests : Send(r)
    BY <2>7 DEF Send, appVars
  <2>. QED  BY <2>1, <2>2, <2>3, <2>4, <2>5, <2>6, <2>7 DEF Next, Loop
<1>. QED  BY Invariant, <1>1, PTL DEF Spec, ErrorUntilReset

\* The watchdog spares every program but one that hangs and one asleep with no alarm
\* to come, which was over when it was set or came before WFI (app_config.h:10-11,
\* app_core.cpp:128-129, board-rtc.cpp:281-360): every other sleep, however old its
\* context, is ended by its alarm before the watchdog's period.
THEOREM SoundIsSpared == Spec => WatchdogSparesTheSound
<1>1. IInv => [WatchdogReset => pc = "hung" \/ (lost # "no" /\ alarm = Never)]_vars
  <2> SUFFICES ASSUME IInv, WatchdogReset, pc # "hung"
               PROVE  Lost
    BY DEF Lost
  <2>1. wdg = WdgPeriod /\ pc # "boot"
    BY DEF WatchdogReset
  <2>2. /\ WdgPeriod \in Nat /\ LedPeriod \in Nat \ {0} /\ LedPeriod < WdgPeriod
        /\ alarm \in {Never} \cup 0..LedPeriod /\ pc \in Steps
    BY AppCoreAssumption DEF IInv, TypeOK
  <2>3. wdg > 1 /\ wdg > LedPeriod
    BY <2>1, <2>2
  <2>4. pc \in {"asleep", "awake"}
    BY <2>1, <2>3 DEF IInv, TypeOK, Steps, WatchdogInv
  <2>5. Lost \/ (alarm # Never /\ wdg + alarm <= LedPeriod) \/ wdg <= LedPeriod
    BY <2>4 DEF IInv, WatchdogInv
  <2>. QED
    BY <2>1, <2>2, <2>3, <2>5
<1>. QED  BY Invariant, <1>1, PTL DEF WatchdogSparesTheSound
=============================================================================
