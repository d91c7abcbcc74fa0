---------------------------- MODULE CmdProcessor ----------------------------
(***************************************************************************)
(* app::CmdProcessor (apps/tensometer/cmd-processor.cpp): the device's     *)
(* side of the request and answer protocol, on top of the port.  The main  *)
(* loop calls Work() again and again; each call makes one step of the      *)
(* state machine below.  A request on the bus is a marker, an address, the *)
(* rest of the header and the data.                                        *)
(*                                                                         *)
(* The application is represented by what it does to this component: the   *)
(* handler's result, the pause of reception while it measures, and the     *)
(* answer to a measurement request, which it hands over later.             *)
(***************************************************************************)
EXTENDS Rs485

CONSTANTS Marker, Own, All,   \* the marker, the device's address, address 0
          Frames,      \* the requests on the bus; as a symbol, a frame stands
                       \* for its command, size and CRC, the rest of its header
          Id, Cmd,     \* the address and the command of each frame
          Data,        \* the data symbols of each frame
          SizeOf,      \* the size field each symbol spells when it is read as
                       \* the rest of a header
          MaxData,     \* the largest value of the size field
          MsMod,       \* GetSysMs() counts modulo this (2^32 on the target)
          ReadTimeMs,  \* kReadCmdTimeMs
          MaxSends     \* bound: how often each frame is sent

ASSUME CmdProcessorAssumption ==
  /\ Frames \subseteq Symbols /\ {Marker, Own, All} \subseteq Symbols
  /\ MaxData \in Nat /\ MaxSends \in Nat
  /\ SizeOf \in [Symbols -> 0..MaxData]
  /\ Id \in [Frames -> Symbols]
  /\ \A f \in Frames : /\ Data[f] \in Seq(Symbols)
                       /\ SizeOf[f] = Len(Data[f])
  /\ MsMod \in Nat /\ ReadTimeMs \in 1..(MsMod - 1)

\* A symbol that stands for a frame is on the bus only where that frame's
\* header is: no other field spells the rest of a header with a right CRC.
ASSUME OnlyHeadersSpellFrames ==
  /\ {Marker, Own, All, Noise} \cap Frames = {}
  /\ \A f \in Frames : Id[f] \notin Frames /\ Data[f] \in Seq(Symbols \ Frames)

VARIABLES state_,
          buf_rx_,            \* the message read last, over what was there
          end_read_time_ms_,
          buf_tx_,            \* the command and the answer flag of the answer
          now,                \* GetSysMs()
          polled,             \* Work() has run in this millisecond
          later,              \* the measurement request to answer later
          sent, handled,      \* history: how often a frame was sent, handled
          torn,               \* history: a read came up short
          skipped,            \* history: the clock wrapped with this message's
                              \* deadline over and nobody looking, and has not
                              \* passed the deadline again
          disturbed           \* history: a symbol was damaged, lost, dropped or
                              \* came too late, or a read came up short

procVars == <<state_, buf_rx_, end_read_time_ms_, buf_tx_>>
historyVars == <<sent, handled, torn, skipped, disturbed>>
vars == <<rs485Vars, procVars, now, polled, later, historyVars>>

HdrLen == 2
States == {"NO", "BAD_CRC", "MSG_SENDED", "READING_HDR", "READING_DATA",
           "CMD_RECEIVED", "SEND_MSG", "SENDING_MSG"}

TypeOK == /\ Rs485TypeOK
          /\ state_ \in States
          /\ buf_rx_ \in [1..(HdrLen + MaxData) -> Symbols]
          /\ end_read_time_ms_ \in 0..(MsMod - 1)
          /\ buf_tx_ \in [cmd : {"NO"} \cup {Cmd[f] : f \in Frames},
                          answer_flag : 0..1]
          /\ now \in 0..(MsMod - 1)
          /\ polled \in BOOLEAN
          /\ later \in {"none", "accepted", "measuring", "measured"}
          /\ sent \in [Frames -> 0..MaxSends]
          /\ handled \in [Frames -> Nat]
          /\ torn \in BOOLEAN /\ skipped \in BOOLEAN /\ disturbed \in BOOLEAN

-----------------------------------------------------------------------------
Wire(f) == <<Marker, Id[f], f>> \o Data[f]

\* The message in buf_rx_: its size, whom it is for, whether its CRC is right.
MsgSize == SizeOf[buf_rx_[HdrLen]]

IsOurCmd == \/ /\ buf_rx_[1] = All
               /\ \E f \in Frames : buf_rx_[HdrLen] = f /\ Cmd[f] = "INFO"
            \/ buf_rx_[1] = Own

CrcMatches(f) == /\ buf_rx_[HdrLen] = f
                 /\ buf_rx_[1] = Id[f]
                 /\ \A i \in 1..Len(Data[f]) : buf_rx_[HdrLen + i] = Data[f][i]

IsCanSend == state_ \in {"NO", "BAD_CRC", "MSG_SENDED"}
Reading == state_ \in {"READING_HDR", "READING_DATA"}

\* Mutant of Expired: no time limit for the data of a message.
ExpiredHdrOnly == state_ = "READING_HDR" /\ now > end_read_time_ms_

Expired == now > end_read_time_ms_

Overlay(at, got) == [j \in DOMAIN buf_rx_ |->
                       IF j \in (at + 1)..(at + Len(got)) THEN got[j - at]
                                                          ELSE buf_rx_[j]]

Init == /\ Rs485Init
        /\ state_ = "NO"
        /\ buf_rx_ = [j \in 1..(HdrLen + MaxData) |-> Noise]
        /\ end_read_time_ms_ = 0
        /\ buf_tx_ = [cmd |-> "NO", answer_flag |-> 0]
        /\ now \in 0..(MsMod - 1)
        /\ polled = FALSE
        /\ later = "none"
        /\ sent = [f \in Frames |-> 0]
        /\ handled = [f \in Frames |-> 0]
        /\ torn = FALSE /\ skipped = FALSE /\ disturbed = FALSE

-----------------------------------------------------------------------------
\* The calls of Work().  None is made between the acceptance of a measurement
\* request and the end of the measurement, which is one call of app::Work().
Polls == /\ later \notin {"accepted", "measuring"}
         /\ polled' = TRUE
         /\ UNCHANGED now

\* The port reported an error: it is opened again, whatever was in progress.
Restart == /\ Polls
           /\ error_ # "NO"
           /\ Reopen
           /\ state_' = "NO"
           /\ UNCHANGED <<buf_rx_, end_read_time_ms_, buf_tx_, later, historyVars>>

Step == Polls /\ error_ = "NO"

\* Looks for the marker, one symbol per call.
FindMarker ==
  /\ Step
  /\ IsCanSend
  /\ rx_buf_ # << >>
  /\ rx_buf_' = Tail(rx_buf_)
  /\ IF Head(rx_buf_) = Marker
     THEN /\ state_' = "READING_HDR"
          /\ end_read_time_ms_' = (now + ReadTimeMs) % MsMod
          /\ skipped' = FALSE
     ELSE UNCHANGED <<state_, end_read_time_ms_, skipped>>
  /\ UNCHANGED <<line, wpos, error_, is_read_pause_, is_writing, buf_rx_,
                 buf_tx_, later, sent, handled, torn, disturbed>>

\* The time for reading a message is over; its symbols stay in the buffer.
ReadTimeout ==
  /\ Step
  /\ Reading /\ Expired
  /\ state_' = "NO"
  /\ disturbed' = (disturbed \/ line # << >> \/ rx_buf_ # << >>)
  /\ UNCHANGED <<rs485Vars, buf_rx_, end_read_time_ms_, buf_tx_, later, sent,
                 handled, torn, skipped>>

\* Mutant of ReadPart: the size in the buffer is not looked at.
ReadPartAnySize(from, at, n) ==
  /\ Step
  /\ state_ = from /\ ~Expired
  /\ rx_buf_ # << >>
  /\ LET got == SubSeq(rx_buf_, 1, IF n < Len(rx_buf_) THEN n ELSE Len(rx_buf_))
     IN  /\ buf_rx_' = Overlay(at, got)
         /\ rx_buf_' = SubSeq(rx_buf_, Len(got) + 1, Len(rx_buf_))
  /\ UNCHANGED <<line, wpos, error_, is_read_pause_, is_writing,
                 end_read_time_ms_, buf_tx_, later, historyVars>>

\* One part of the message, of n symbols, to its place in buf_rx_.
ReadPart(from, at, n) ==
  /\ Step
  /\ state_ = from /\ ~Expired
  /\ HasRxData(n)
  /\ ReadRxData(n)
  /\ buf_rx_' = Overlay(at, RxData(n))
  /\ torn' = (torn \/ Len(RxData(n)) < n)
  /\ disturbed' = (disturbed \/ Len(RxData(n)) < n)
  /\ UNCHANGED <<end_read_time_ms_, buf_tx_, later, sent, handled, skipped>>

ReadHdr == /\ ReadPart("READING_HDR", 0, HdrLen)
           /\ state_' = IF SizeOf[buf_rx_'[HdrLen]] > 0 THEN "READING_DATA"
                                                        ELSE "CMD_RECEIVED"

ReadData == /\ ReadPart("READING_DATA", HdrLen, MsgSize)
            /\ state_' = "CMD_RECEIVED"

\* A message for another device, or damaged, is ignored.
Ignore ==
  /\ Step
  /\ state_ = "CMD_RECEIVED"
  /\ ~(IsOurCmd /\ \E f \in Frames : CrcMatches(f))
  /\ state_' = IF IsOurCmd THEN "BAD_CRC" ELSE "NO"
  /\ UNCHANGED <<rs485Vars, buf_rx_, end_read_time_ms_, buf_tx_, later, historyVars>>

\* A handler that does not answer has refused, or accepted a measurement.
AnswersLater(f) == \/ UNCHANGED later
                   \/ Cmd[f] = "MEASUREMENT" /\ later' = "accepted"

\* Mutant of Handle: the answer flag is set only with an answer.
HandleFlagWithAnswer(f) ==
  /\ Step
  /\ state_ = "CMD_RECEIVED"
  /\ IsOurCmd /\ CrcMatches(f)
  /\ handled' = [handled EXCEPT ![f] = @ + 1]
  /\ \/ /\ state_' = "SEND_MSG" /\ UNCHANGED later
        /\ buf_tx_' = [cmd |-> Cmd[f], answer_flag |-> 1]
     \/ state_' = "NO" /\ AnswersLater(f) /\ UNCHANGED buf_tx_
  /\ UNCHANGED <<rs485Vars, buf_rx_, end_read_time_ms_, sent, torn, skipped,
                 disturbed>>

\* The handler runs: it answers, or does not, or will answer later.  The
\* answer's header is filled in before the handler is called, also when the
\* handler returns false.
Handle(f) ==
  /\ Step
  /\ state_ = "CMD_RECEIVED"
  /\ IsOurCmd /\ CrcMatches(f)
  /\ buf_tx_' = [cmd |-> Cmd[f], answer_flag |-> 1]
  /\ handled' = [handled EXCEPT ![f] = @ + 1]
  /\ \/ state_' = "SEND_MSG" /\ UNCHANGED later
     \/ state_' = "NO" /\ AnswersLater(f)
  /\ UNCHANGED <<rs485Vars, buf_rx_, end_read_time_ms_, sent, torn, skipped,
                 disturbed>>

\* StartWrite() refuses while a transmission is under way.
StartWrite ==
  /\ Step
  /\ state_ = "SEND_MSG"
  /\ IF is_writing THEN UNCHANGED <<state_, is_writing>>
                   ELSE is_writing' = TRUE /\ state_' = "SENDING_MSG"
  /\ UNCHANGED <<line, rx_buf_, wpos, error_, is_read_pause_, buf_rx_,
                 end_read_time_ms_, buf_tx_, later, historyVars>>

\* Mutant of Sent: empties the receive buffer.
SentClears ==
  /\ Step
  /\ state_ = "SENDING_MSG" /\ ~is_writing
  /\ state_' = "MSG_SENDED"
  /\ rx_buf_' = << >>
  /\ UNCHANGED <<line, wpos, error_, is_read_pause_, is_writing, buf_rx_,
                 end_read_time_ms_, buf_tx_, later, historyVars>>

Sent ==
  /\ Step
  /\ state_ = "SENDING_MSG" /\ ~is_writing
  /\ state_' = "MSG_SENDED"
  /\ UNCHANGED <<rs485Vars, buf_rx_, end_read_time_ms_, buf_tx_, later, historyVars>>

\* A call that finds nothing to do.
Nothing ==
  /\ Step
  /\ \/ IsCanSend /\ rx_buf_ = << >>
     \/ state_ = "READING_HDR" /\ ~Expired /\ Len(rx_buf_) < HdrLen
     \/ state_ = "READING_DATA" /\ ~Expired /\ Len(rx_buf_) < MsgSize
     \/ state_ = "SENDING_MSG" /\ is_writing
  /\ UNCHANGED <<rs485Vars, procVars, later, historyVars>>

Work == \/ Restart \/ FindMarker \/ ReadTimeout \/ ReadHdr \/ ReadData
        \/ Ignore \/ (\E f \in Frames : Handle(f)) \/ StartWrite \/ Sent \/ Nothing

-----------------------------------------------------------------------------
\* What app::Work() does to this component about a measurement request: it pauses
\* reception and measures in the call that accepted the request, and hands over the
\* answer in a later call unless the measurement failed.
Becomes(to) == /\ later' = to
               /\ UNCHANGED <<line, rx_buf_, wpos, error_, is_writing, procVars, now,
                              polled, historyVars>>

Pause == later = "accepted" /\ is_read_pause_' = TRUE /\ Becomes("measuring")

Resume == /\ later = "measuring"
          /\ is_read_pause_' = FALSE
          /\ Becomes("measured") \/ Becomes("none")

\* So many milliseconds pass without a call of Work().
Pass(ms) ==
  /\ now' = (now + ms) % MsMod
  /\ polled' = FALSE
  /\ skipped' = /\ Reading /\ now' <= end_read_time_ms_
                /\ skipped \/ \E i \in 0..ms : (now + i) % MsMod > end_read_time_ms_
  /\ UNCHANGED <<rs485Vars, procVars, sent, handled, torn, disturbed>>

\* The signal overrides a request, before or after its measurement.  It is looked at
\* after each Work(); its own measurement is one call of app::Work() that takes from
\* 50 ms to seconds, whatever this component is reading.  Reception is not paused: as
\* nothing here looks at the port meanwhile, what arrives during it arrives in this
\* model just before it or just after it.
MeasureBySignal == /\ later = "accepted" \/ (later # "measuring" /\ polled)
                   /\ \E ms \in 1..(MsMod - 1) : Pass(ms)
                   /\ later' = "none"

\* Mutant of SendMsg: does not wait until the processor can send.
SendMsgAnyTime ==
  /\ later = "measured"
  /\ later' = "none"
  /\ buf_tx_' = [buf_tx_ EXCEPT !.cmd = "MEASUREMENT"]
  /\ state_' = "SEND_MSG"
  /\ UNCHANGED <<rs485Vars, buf_rx_, end_read_time_ms_, now, polled, historyVars>>

\* SendMsg(), which leaves the answer flag as it is in buf_tx_.
SendMsg == /\ later = "measured" /\ IsCanSend
           /\ later' = "none"
           /\ buf_tx_' = [buf_tx_ EXCEPT !.cmd = "MEASUREMENT"]
           /\ state_' = "SEND_MSG"
           /\ UNCHANGED <<rs485Vars, buf_rx_, end_read_time_ms_, now, polled,
                          historyVars>>

App == Pause \/ Resume \/ MeasureBySignal \/ SendMsg

\* The master sends a request when the bus is free.
Send(f) == /\ line = << >> /\ sent[f] < MaxSends
           /\ line' = Wire(f)
           /\ sent' = [sent EXCEPT ![f] = @ + 1]
           /\ UNCHANGED <<rx_buf_, wpos, error_, is_read_pause_, is_writing,
                          procVars, now, polled, later, handled, torn, skipped,
                          disturbed>>

\* A millisecond passes; the main loop is much faster, except while it measures.
Tick == /\ polled \/ later = "measuring"
        /\ Pass(1)
        /\ UNCHANGED later

Port == /\ \/ Arrive /\ disturbed' = (disturbed \/ UNCHANGED rx_buf_)
           \/ (Damage \/ Lose \/ IrqHandleErr) /\ disturbed' = TRUE
           \/ IrqHandleTx /\ UNCHANGED disturbed
        /\ UNCHANGED <<procVars, now, polled, later, sent, handled, torn, skipped>>

Next == Work \/ App \/ (\E f \in Frames : Send(f)) \/ Tick \/ Port

Spec == Init /\ [][Next]_vars

\* The main loop keeps calling Work(), time passes and the DMA completes.
Fairness == /\ WF_vars(Work)
            /\ WF_vars(Tick)
            /\ WF_vars(IrqHandleTx /\ UNCHANGED <<procVars, now, polled, later,
                                                  historyVars>>)

FairSpec == Spec /\ Fairness

-----------------------------------------------------------------------------
ForUs(f) == Id[f] = Own \/ (Id[f] = All /\ Cmd[f] = "INFO")

\* No command is carried out that was not sent to this device, and none more
\* often than it was sent (doc/rd-protocol.md:13: a message that is not right
\* is ignored).
NoReplay == \A f \in Frames : /\ handled[f] <= sent[f]
                              /\ handled[f] > 0 => ForUs(f)

\* The same, as long as no read came up short because the size check was
\* fooled: whatever is damaged, lost, overrun or left in the buffer by a
\* timeout, the pieces never add up to an old command.
NoReplayUnlessTorn == ~torn => NoReplay

\* The reverse, as long as the bus and the timing are good: when nothing is on
\* its way, every request to this device was carried out.  None was lost in the
\* buffers while an earlier one was answered, or read from the wrong symbol on.
NothingMissed ==
  /\ ~disturbed /\ line = << >> /\ rx_buf_ = << >> /\ state_ # "CMD_RECEIVED"
  => \A f \in Frames : ForUs(f) => handled[f] = sent[f]

\* The port transmits only while the state machine waits for the end of the
\* transmission, so that SEND_MSG always finds it free and no answer is put in
\* the transmit buffer over one that is going out.
WritingIsSending == is_writing => state_ = "SENDING_MSG"

\* Every message the device sends has the answer flag (doc/rd-protocol.md:22),
\* although SendMsg() does not set it: the measurement's answer relies on what
\* the handling of an earlier request left in buf_tx_.
AnswerFlagSet == state_ \in {"SEND_MSG", "SENDING_MSG"} => buf_tx_.answer_flag = 1

\* A message waits for 49 days or for ever if its deadline is the largest value of the
\* clock, which now > end never exceeds, or if the clock wrapped past the deadline
\* during a measurement by the signal, when nobody looked (cmd-processor.cpp:54, 69).
NoDeadline == Reading /\ (end_read_time_ms_ = MsMod - 1 \/ skipped)

\* The state machine always comes back to where it looks for a marker and can send,
\* however the bus failed it and however long the signal's measurements keep it from
\* looking, except from a message without a deadline.
ComesBack == []<>(IsCanSend \/ NoDeadline)
=============================================================================
