-------------------------- MODULE CmdProcessorProofs --------------------------
(***************************************************************************)
(* What CmdProcessor promises for every set of requests, every size of the *)
(* ring, every clock and every time limit.                                 *)
(*                                                                         *)
(* The types, WritingIsSending and AnswerFlagSet are proved together with  *)
(* LaterIsFlagged, which says where the answer flag of a measurement's     *)
(* answer comes from; without it SendMsg() could not be shown to send a    *)
(* message with the flag.                                                  *)
(*                                                                         *)
(* NoReplayUnlessTorn counts: the headers of a request that are still on   *)
(* the bus, in the receive buffer or in the message buffer, and those that *)
(* were handled, are together no more than were sent.                      *)
(*                                                                         *)
(* NothingMissed counts the other way.  It needs to know, as long as       *)
(* nothing was disturbed, that what is still to be read is whole requests  *)
(* one after another, and that the state machine is at the place in them   *)
(* where it believes to be (CleanInv).                                     *)
(*                                                                         *)
(* Last, all of it is a behaviour of the port that module Uart implements. *)
(***************************************************************************)
EXTENDS CmdProcessor, FiniteSetTheorems, SequenceTheorems, TLAPS

\* A measurement to answer later was a request, whose handling set the flag.
LaterIsFlagged == later # "none" => /\ buf_tx_.answer_flag = 1
                                    /\ \E f \in Frames : Cmd[f] = "MEASUREMENT"

CmdInv == TypeOK /\ WritingIsSending /\ AnswerFlagSet /\ LaterIsFlagged

-----------------------------------------------------------------------------
(* The port: every operation keeps its types.                              *)

LEMMA NextPosIn == ASSUME wpos \in 0..(RxSize - 1) PROVE NextPos \in 0..(RxSize - 1)
  BY Rs485Assumption DEF NextPos, Rs485Assumption

LEMMA TailIsSeq == ASSUME NEW s \in Seq(Symbols), s # << >>
                   PROVE  /\ Head(s) \in Symbols /\ Tail(s) \in Seq(Symbols)
                          /\ Len(Tail(s)) = Len(s) - 1
  BY HeadTailProperties

LEMMA CutIsSeq == ASSUME NEW s \in Seq(Symbols), NEW m \in Nat, m <= Len(s)
                  PROVE  /\ SubSeq(s, m + 1, Len(s)) \in Seq(Symbols)
                         /\ Len(SubSeq(s, m + 1, Len(s))) = Len(s) - m
  <1>1. Len(s) \in Nat BY LenProperties
  <1>2. /\ m + 1 \in 1..(Len(s) + 1) /\ Len(s) \in (m + 1) - 1 .. Len(s) BY <1>1
  <1>3. CASE m + 1 <= Len(s) BY <1>1, <1>2, <1>3, SubSeqProperties
  <1>4. CASE m + 1 > Len(s) BY <1>1, <1>2, <1>4, SubSeqProperties
  <1> QED BY <1>1, <1>3, <1>4

LEMMA ArriveTypes == ASSUME Rs485TypeOK, Arrive PROVE Rs485TypeOK'
  <1>1. /\ Head(line) \in Symbols /\ line' \in Seq(Symbols)
    BY TailIsSeq DEF Rs485TypeOK, Arrive
  <1>2. CASE ~is_read_pause_ /\ HasRoom
    <2>1. /\ rx_buf_' = Append(rx_buf_, Head(line)) /\ wpos' = NextPos
          /\ UNCHANGED <<error_, is_read_pause_, is_writing>>
      BY <1>2 DEF Arrive, IrqHandleRx
    <2>2. rx_buf_' \in Seq(Symbols) /\ Len(rx_buf_') = Len(rx_buf_) + 1
      BY <1>1, <2>1, AppendProperties DEF Rs485TypeOK
    <2>3. Len(rx_buf_') < RxSize
      BY <1>2, <2>2, LenProperties, Rs485Assumption
      DEF HasRoom, Rs485TypeOK, Rs485Assumption
    <2> QED BY <1>1, <2>1, <2>2, <2>3, NextPosIn DEF Rs485TypeOK
  <1>3. CASE ~(~is_read_pause_ /\ HasRoom)
    BY <1>1, <1>3 DEF Rs485TypeOK, Arrive, IrqHandleRx, Errors
  <1> QED BY <1>2, <1>3

LEMMA DamageTypes == ASSUME Rs485TypeOK, Damage \/ Lose PROVE Rs485TypeOK'
  <1>1. CASE Damage
    <2>1. PICK i \in DOMAIN line : line' = [line EXCEPT ![i] = Noise]
      BY <1>1 DEF Damage
    <2>2. line' \in Seq(Symbols)
      BY <2>1, ExceptSeq, Rs485Assumption DEF Rs485TypeOK, Rs485Assumption
    <2> QED BY <1>1, <2>2 DEF Rs485TypeOK, Damage
  <1>2. CASE Lose
    <2>1. PICK i \in DOMAIN line :
            line' = SubSeq(line, 1, i - 1) \o SubSeq(line, i + 1, Len(line))
      BY <1>2 DEF Lose
    <2>2. i \in 1..Len(line) /\ Len(line) \in Nat
      BY <2>1, LenProperties DEF Rs485TypeOK
    <2>3. SubSeq(line, 1, i - 1) \in Seq(Symbols)
      BY <2>2, SubSeqProperties DEF Rs485TypeOK
    <2>4. SubSeq(line, i + 1, Len(line)) \in Seq(Symbols)
      BY <2>2, CutIsSeq DEF Rs485TypeOK
    <2>5. line' \in Seq(Symbols) BY <2>1, <2>3, <2>4, ConcatProperties
    <2> QED BY <1>2, <2>5 DEF Rs485TypeOK, Lose
  <1> QED BY <1>1, <1>2

LEMMA IrqErrTypes == ASSUME Rs485TypeOK, IrqHandleErr PROVE Rs485TypeOK'
  <1>1. CASE UNCHANGED <<line, rx_buf_, wpos>>
    BY <1>1 DEF Rs485TypeOK, IrqHandleErr, Errors
  <1>2. CASE /\ line # << >> /\ line' = Tail(line)
             /\ ~is_read_pause_ /\ HasRoom
             /\ rx_buf_' = Append(rx_buf_, Head(line)) /\ wpos' = NextPos
    <2>1. /\ Head(line) \in Symbols /\ line' \in Seq(Symbols)
      BY <1>2, TailIsSeq DEF Rs485TypeOK
    <2>2. rx_buf_' \in Seq(Symbols) /\ Len(rx_buf_') = Len(rx_buf_) + 1
      BY <1>2, <2>1, AppendProperties DEF Rs485TypeOK
    <2>3. Len(rx_buf_') < RxSize
      BY <1>2, <2>2, LenProperties, Rs485Assumption
      DEF HasRoom, Rs485TypeOK, Rs485Assumption
    <2> QED BY <1>2, <2>1, <2>2, <2>3, NextPosIn DEF Rs485TypeOK, IrqHandleErr, Errors
  <1>3. CASE /\ line # << >> /\ line' = Tail(line)
             /\ UNCHANGED <<rx_buf_, wpos>>
    BY <1>3, TailIsSeq DEF Rs485TypeOK, IrqHandleErr, Errors
  <1> QED BY <1>1, <1>2, <1>3 DEF IrqHandleErr

LEMMA EmptyFits == /\ << >> \in Seq(Symbols) /\ Len(<< >>) < RxSize
                   /\ 0 \in 0..(RxSize - 1)
  <1>1. << >> \in Seq(Symbols) /\ Len(<< >>) = 0 BY EmptySeq
  <1>2. 0 < RxSize /\ 0 \in 0..(RxSize - 1) BY Rs485Assumption DEF Rs485Assumption
  <1> QED BY <1>1, <1>2

LEMMA ReopenTypes == ASSUME Rs485TypeOK, Reopen PROVE Rs485TypeOK'
  <1>1. PICK n \in 0..ClearMax : n <= Len(line) /\ line' = SubSeq(line, n + 1, Len(line))
    BY DEF Reopen
  <1>2. line' \in Seq(Symbols)
    BY <1>1, CutIsSeq, Rs485Assumption DEF Rs485TypeOK, Rs485Assumption
  <1>3. rx_buf_' \in Seq(Symbols) /\ Len(rx_buf_') < RxSize /\ wpos' \in 0..(RxSize - 1)
    BY EmptyFits DEF Reopen
  <1> QED BY <1>2, <1>3 DEF Rs485TypeOK, Reopen, Errors

\* A read of n symbols returns symbols and keeps the port's types.
LEMMA ReadTypes ==
  ASSUME Rs485TypeOK, NEW n \in Nat, HasRxData(n), ReadRxData(n)
  PROVE  Rs485TypeOK' /\ RxData(n) \in Seq(Symbols)
  <1>0. Len(rx_buf_) \in Nat BY LenProperties DEF Rs485TypeOK
  <1>1. CASE Len(rx_buf_) >= n
    <2>1. /\ rx_buf_' \in Seq(Symbols) /\ Len(rx_buf_') = Len(rx_buf_) - n
      BY <1>0, <1>1, CutIsSeq DEF ReadRxData, Rs485TypeOK
    <2>2. Len(rx_buf_') < RxSize
      BY <1>0, <2>1, Rs485Assumption DEF Rs485TypeOK, Rs485Assumption
    <2>3. SubSeq(rx_buf_, 1, n) \in Seq(Symbols)
      <3>1. CASE n = 0
        BY <1>0, <3>1, SubSeqProperties DEF Rs485TypeOK
      <3>2. CASE n > 0
        BY <1>0, <1>1, <3>2, SubSeqProperties DEF Rs485TypeOK
      <3> QED BY <3>1, <3>2
    <2>4. RxData(n) \in Seq(Symbols) BY <1>1, <2>3 DEF RxData
    <2> QED BY <1>1, <2>1, <2>2, <2>4 DEF Rs485TypeOK, ReadRxData
  <1>2. CASE ~(Len(rx_buf_) >= n)
    <2>1. line # << >> BY <1>2 DEF HasRxData, SizeFooled
    <2>2. Head(line) \in Symbols /\ Tail(line) \in Seq(Symbols)
      BY <2>1, TailIsSeq DEF Rs485TypeOK
    <2>3. RxData(n) \in Seq(Symbols)
      BY <1>2, <2>2, AppendProperties DEF RxData, Rs485TypeOK
    <2>4. rx_buf_' \in Seq(Symbols) /\ Len(rx_buf_') < RxSize /\ wpos' \in 0..(RxSize - 1)
      BY <1>2, EmptyFits DEF ReadRxData
    <2> QED BY <1>2, <2>2, <2>3, <2>4 DEF Rs485TypeOK, ReadRxData
  <1> QED BY <1>1, <1>2

-----------------------------------------------------------------------------
(* The processor: one lemma per step of Work().                            *)

LEMMA Wraps == ASSUME NEW i \in Nat PROVE i % MsMod \in 0..(MsMod - 1)
  <1>1. MsMod \in Nat /\ MsMod > 0 BY CmdProcessorAssumption DEF CmdProcessorAssumption
  <1> QED BY <1>1, Z3

LEMMA ClockIsNat == ASSUME TypeOK PROVE now \in Nat /\ ReadTimeMs \in Nat
  BY CmdProcessorAssumption DEF TypeOK, CmdProcessorAssumption

LEMMA OverlayIsMessage ==
  ASSUME TypeOK, NEW at \in Nat, NEW got \in Seq(Symbols)
  PROVE  Overlay(at, got) \in [1..(HdrLen + MaxData) -> Symbols]
  <1>1. DOMAIN buf_rx_ = 1..(HdrLen + MaxData)
        /\ \A j \in 1..(HdrLen + MaxData) : buf_rx_[j] \in Symbols
    BY DEF TypeOK
  <1>2. MaxData \in Nat /\ HdrLen \in Nat
    BY CmdProcessorAssumption DEF CmdProcessorAssumption, HdrLen
  <1>3. Len(got) \in Nat /\ \A i \in 1..Len(got) : got[i] \in Symbols
    BY LenProperties, ElementOfSeq
  <1>4. ASSUME NEW j \in 1..(HdrLen + MaxData)
        PROVE  (IF j \in (at + 1)..(at + Len(got)) THEN got[j - at]
                                                   ELSE buf_rx_[j]) \in Symbols
    <2>1. CASE j \in (at + 1)..(at + Len(got))
      <3>1. j - at \in 1..Len(got) BY <1>2, <1>3, <2>1
      <3> QED BY <1>3, <2>1, <3>1
    <2>2. CASE ~(j \in (at + 1)..(at + Len(got))) BY <1>1, <2>2
    <2> QED BY <2>1, <2>2
  <1> QED BY <1>1, <1>4 DEF Overlay

LEMMA WireIsSeq == ASSUME NEW f \in Frames PROVE Wire(f) \in Seq(Symbols)
  <1>1. /\ Marker \in Symbols /\ Id[f] \in Symbols /\ f \in Symbols
        /\ Data[f] \in Seq(Symbols)
    BY CmdProcessorAssumption DEF CmdProcessorAssumption
  <1>2. <<Marker, Id[f], f>> \in Seq(Symbols) BY <1>1
  <1> QED BY <1>1, <1>2, ConcatProperties DEF Wire

LEMMA SizeIsNat == ASSUME TypeOK PROVE MsgSize \in Nat
  <1>1. HdrLen \in 1..(HdrLen + MaxData)
    BY CmdProcessorAssumption DEF CmdProcessorAssumption, HdrLen
  <1>2. buf_rx_[HdrLen] \in Symbols BY <1>1 DEF TypeOK
  <1> QED BY <1>2, CmdProcessorAssumption DEF MsgSize, CmdProcessorAssumption

LEMMA RestartKeeps == ASSUME CmdInv, Restart PROVE CmdInv'
  <1>1. Rs485TypeOK' BY ReopenTypes DEF CmdInv, TypeOK, Restart
  <1>2. /\ state_' = "NO" /\ is_writing' = FALSE /\ polled' = TRUE
        /\ UNCHANGED <<buf_rx_, end_read_time_ms_, buf_tx_, later, now, historyVars>>
    BY DEF Restart, Reopen, Polls
  <1>3. TypeOK' BY <1>1, <1>2 DEF CmdInv, TypeOK, States, historyVars
  <1> QED BY <1>2, <1>3 DEF CmdInv, WritingIsSending, AnswerFlagSet, LaterIsFlagged

LEMMA FindMarkerKeeps == ASSUME CmdInv, FindMarker PROVE CmdInv'
  <1>1. /\ rx_buf_' \in Seq(Symbols) /\ Len(rx_buf_') = Len(rx_buf_) - 1
    BY TailIsSeq DEF CmdInv, TypeOK, Rs485TypeOK, FindMarker
  <1>2. Len(rx_buf_') < RxSize
    BY <1>1, LenProperties, Rs485Assumption
    DEF CmdInv, TypeOK, Rs485TypeOK, Rs485Assumption
  <1>3. Rs485TypeOK'
    BY <1>1, <1>2 DEF CmdInv, TypeOK, Rs485TypeOK, FindMarker
  <1>4. end_read_time_ms_' \in 0..(MsMod - 1)
    <2>1. now + ReadTimeMs \in Nat BY ClockIsNat DEF CmdInv
    <2>2. (now + ReadTimeMs) % MsMod \in 0..(MsMod - 1) BY <2>1, Wraps
    <2> QED BY <2>2 DEF FindMarker, CmdInv, TypeOK
  <1>5. /\ state_' \in {state_, "READING_HDR"} /\ IsCanSend /\ polled' = TRUE
        /\ UNCHANGED <<buf_rx_, buf_tx_, later, now, is_writing, sent, handled, torn,
                       disturbed>>
        /\ skipped' \in {skipped, FALSE}
    BY DEF FindMarker, Step, Polls
  <1>6. TypeOK' BY <1>3, <1>4, <1>5 DEF CmdInv, TypeOK, States
  <1> QED BY <1>5, <1>6
          DEF CmdInv, WritingIsSending, AnswerFlagSet, LaterIsFlagged, IsCanSend

LEMMA ReadTimeoutKeeps == ASSUME CmdInv, ReadTimeout \/ Ignore PROVE CmdInv'
  <1>1. /\ state_' \in {"NO", "BAD_CRC"} /\ polled' = TRUE /\ ~is_writing
        /\ UNCHANGED <<rs485Vars, buf_rx_, end_read_time_ms_, buf_tx_, later, now,
                       sent, handled, torn, skipped>>
    BY DEF ReadTimeout, Ignore, Reading, Step, Polls, CmdInv, WritingIsSending, historyVars
  <1>2. disturbed' \in BOOLEAN
    <2>1. CASE ReadTimeout
      <3>1. disturbed' = (disturbed \/ line # << >> \/ rx_buf_ # << >>)
        BY <2>1 DEF ReadTimeout
      <3> QED BY <3>1
    <2>2. CASE Ignore BY <2>2 DEF Ignore, CmdInv, TypeOK, historyVars
    <2> QED BY <2>1, <2>2
  <1>3. TypeOK'
    BY <1>1, <1>2 DEF CmdInv, TypeOK, Rs485TypeOK, States, rs485Vars
  <1> QED BY <1>1, <1>3
          DEF CmdInv, WritingIsSending, AnswerFlagSet, LaterIsFlagged, rs485Vars

\* What ReadHdr and ReadData have in common.
LEMMA ReadPartKeeps ==
  ASSUME CmdInv, NEW from \in {"READING_HDR", "READING_DATA"}, NEW at \in Nat,
         NEW n \in Nat, ReadPart(from, at, n),
         state_' \in {"READING_DATA", "CMD_RECEIVED"}
  PROVE  CmdInv'
  <1>1. HasRxData(n) /\ ReadRxData(n) /\ buf_rx_' = Overlay(at, RxData(n))
    BY DEF ReadPart
  <1>2. Rs485TypeOK' /\ RxData(n) \in Seq(Symbols)
    BY <1>1, ReadTypes DEF CmdInv, TypeOK
  <1>3. buf_rx_' \in [1..(HdrLen + MaxData) -> Symbols]
    BY <1>1, <1>2, OverlayIsMessage DEF CmdInv
  <1>4. /\ ~is_writing /\ is_writing' = is_writing /\ polled' = TRUE
        /\ UNCHANGED <<end_read_time_ms_, buf_tx_, later, now, sent, handled,
                       skipped>>
    BY DEF ReadPart, ReadRxData, Step, Polls, CmdInv, WritingIsSending
  <1>5. torn' \in BOOLEAN
    <2>1. torn' = (torn \/ Len(RxData(n)) < n) BY DEF ReadPart
    <2> QED BY <2>1
  <1>6. disturbed' \in BOOLEAN
    <2>1. disturbed' = (disturbed \/ Len(RxData(n)) < n) BY DEF ReadPart
    <2> QED BY <2>1
  <1>7. TypeOK' BY <1>2, <1>3, <1>4, <1>5, <1>6 DEF CmdInv, TypeOK, States
  <1> QED BY <1>4, <1>7 DEF CmdInv, WritingIsSending, AnswerFlagSet, LaterIsFlagged

LEMMA ReadKeeps == ASSUME CmdInv, ReadHdr \/ ReadData PROVE CmdInv'
  <1>1. HdrLen \in Nat BY DEF HdrLen
  <1>2. CASE ReadHdr BY <1>1, <1>2, ReadPartKeeps DEF ReadHdr
  <1>3. CASE ReadData BY <1>1, <1>3, ReadPartKeeps, SizeIsNat DEF ReadData, CmdInv
  <1> QED BY <1>2, <1>3

LEMMA HandleKeeps == ASSUME CmdInv, NEW f \in Frames, Handle(f) PROVE CmdInv'
  <1>1. /\ buf_tx_' = [cmd |-> Cmd[f], answer_flag |-> 1]
        /\ handled' = [handled EXCEPT ![f] = @ + 1]
        /\ state_' \in {"SEND_MSG", "NO"} /\ polled' = TRUE /\ ~is_writing
        /\ UNCHANGED <<rs485Vars, buf_rx_, end_read_time_ms_, now, sent, torn, skipped,
                       disturbed>>
    BY DEF Handle, Step, Polls, CmdInv, WritingIsSending
  <1>2. later' = later \/ (Cmd[f] = "MEASUREMENT" /\ later' = "accepted")
    BY DEF Handle, AnswersLater
  <1>3. buf_tx_' \in [cmd : {"NO"} \cup {Cmd[g] : g \in Frames}, answer_flag : 0..1]
    BY <1>1
  <1>4. handled' \in [Frames -> Nat] BY <1>1 DEF CmdInv, TypeOK
  <1>5. TypeOK'
    BY <1>1, <1>2, <1>3, <1>4 DEF CmdInv, TypeOK, Rs485TypeOK, States, rs485Vars
  <1>6. buf_tx_'.answer_flag = 1 BY <1>1
  <1> QED BY <1>1, <1>2, <1>5, <1>6
          DEF CmdInv, WritingIsSending, AnswerFlagSet, LaterIsFlagged, rs485Vars

LEMMA StartWriteKeeps == ASSUME CmdInv, StartWrite \/ Sent PROVE CmdInv'
  <1>1. /\ state_' = "SENDING_MSG" \/ (state_' = "MSG_SENDED" /\ ~is_writing')
        /\ is_writing' \in BOOLEAN /\ polled' = TRUE
        /\ state_ \in {"SEND_MSG", "SENDING_MSG"}
        /\ UNCHANGED <<line, rx_buf_, wpos, error_, is_read_pause_, buf_rx_,
                       end_read_time_ms_, buf_tx_, later, now, historyVars>>
    <2>1. CASE StartWrite
      <3>1. ~is_writing BY <2>1 DEF StartWrite, CmdInv, WritingIsSending
      <3> QED BY <2>1, <3>1 DEF StartWrite, Step, Polls
    <2>2. CASE Sent
      <3>1. is_writing \in BOOLEAN BY DEF CmdInv, TypeOK, Rs485TypeOK
      <3>2. UNCHANGED rs485Vars /\ ~is_writing BY <2>2 DEF Sent
      <3>3. is_writing' = is_writing BY <3>2 DEF rs485Vars
      <3> QED BY <2>2, <3>1, <3>2, <3>3 DEF Sent, Step, Polls, rs485Vars
    <2> QED BY <2>1, <2>2
  <1>2. TypeOK' BY <1>1 DEF CmdInv, TypeOK, Rs485TypeOK, States, historyVars
  <1> QED BY <1>1, <1>2 DEF CmdInv, WritingIsSending, AnswerFlagSet, LaterIsFlagged

LEMMA NothingKeeps == ASSUME CmdInv, Nothing PROVE CmdInv'
  <1>1. polled' = TRUE /\ UNCHANGED <<rs485Vars, procVars, later, now, historyVars>>
    BY DEF Nothing, Step, Polls
  <1> QED BY <1>1 DEF CmdInv, TypeOK, Rs485TypeOK, WritingIsSending, AnswerFlagSet,
                      LaterIsFlagged, rs485Vars, procVars, historyVars

-----------------------------------------------------------------------------
(* The application, the master, the clock and the port.                    *)

LEMMA PassKeeps ==
  ASSUME CmdInv, NEW ms \in Nat, Pass(ms), later' \in {later, "none"}
  PROVE  CmdInv'
  <1>1. now' \in 0..(MsMod - 1)
    <2>1. now + ms \in Nat BY ClockIsNat DEF CmdInv
    <2> QED BY <2>1, Wraps DEF Pass
  <1>2. polled' = FALSE /\ UNCHANGED <<rs485Vars, procVars, sent, handled, torn, disturbed>>
    BY DEF Pass
  <1>3. skipped' \in BOOLEAN BY DEF Pass
  <1> QED BY <1>1, <1>2, <1>3
          DEF CmdInv, TypeOK, Rs485TypeOK, WritingIsSending, AnswerFlagSet,
              LaterIsFlagged, rs485Vars, procVars

LEMMA AppKeeps == ASSUME CmdInv, App PROVE CmdInv'
  <1>1. CASE Pause \/ Resume
    <2>1. /\ is_read_pause_' \in BOOLEAN
          /\ later' \in {"none", "measuring", "measured"}
          /\ later # "none"
          /\ UNCHANGED <<line, rx_buf_, wpos, error_, is_writing, procVars, now,
                         polled, historyVars>>
      BY <1>1 DEF Pause, Resume, Becomes
    <2> QED BY <2>1 DEF CmdInv, TypeOK, Rs485TypeOK, WritingIsSending, AnswerFlagSet,
                        LaterIsFlagged, procVars, historyVars
  <1>3. CASE MeasureBySignal
    <2>1. \A ms \in 1..(MsMod - 1) : ms \in Nat
      BY CmdProcessorAssumption DEF CmdProcessorAssumption
    <2> QED BY <1>3, <2>1, PassKeeps DEF MeasureBySignal
  <1>2. CASE SendMsg
    <2>1. /\ later # "none" /\ later' = "none" /\ state_' = "SEND_MSG" /\ ~is_writing
          /\ buf_tx_' = [buf_tx_ EXCEPT !.cmd = "MEASUREMENT"]
          /\ UNCHANGED <<rs485Vars, buf_rx_, end_read_time_ms_, now, polled,
                         historyVars>>
      BY <1>2 DEF SendMsg, IsCanSend, CmdInv, WritingIsSending
    <2>2. buf_tx_.answer_flag = 1 /\ \E f \in Frames : Cmd[f] = "MEASUREMENT"
      BY <2>1 DEF CmdInv, LaterIsFlagged
    <2>3. /\ buf_tx_'.answer_flag = 1
          /\ buf_tx_' \in [cmd : {"NO"} \cup {Cmd[f] : f \in Frames}, answer_flag : 0..1]
      BY <2>1, <2>2 DEF CmdInv, TypeOK
    <2>4. TypeOK'
      BY <2>1, <2>3 DEF CmdInv, TypeOK, Rs485TypeOK, States, rs485Vars, historyVars
    <2> QED BY <2>1, <2>3, <2>4
            DEF CmdInv, WritingIsSending, AnswerFlagSet, LaterIsFlagged, rs485Vars
  <1> QED BY <1>1, <1>2, <1>3 DEF App

LEMMA SendKeeps == ASSUME CmdInv, NEW f \in Frames, Send(f) PROVE CmdInv'
  <1>1. sent' \in [Frames -> 0..MaxSends]
    <2>1. sent[f] + 1 \in 0..MaxSends
      BY CmdProcessorAssumption DEF Send, CmdInv, TypeOK, CmdProcessorAssumption
    <2> QED BY <2>1 DEF Send, CmdInv, TypeOK
  <1>2. line' \in Seq(Symbols) BY WireIsSeq DEF Send
  <1>3. UNCHANGED <<rx_buf_, wpos, error_, is_read_pause_, is_writing, procVars, now,
                    polled, later, handled, torn, skipped, disturbed>>
    BY DEF Send
  <1> QED BY <1>1, <1>2, <1>3
          DEF CmdInv, TypeOK, Rs485TypeOK, WritingIsSending, AnswerFlagSet,
              LaterIsFlagged, procVars

LEMMA TickKeeps == ASSUME CmdInv, Tick PROVE CmdInv'
  BY PassKeeps DEF Tick

LEMMA PortKeeps == ASSUME CmdInv, Port PROVE CmdInv'
  <1>1. Rs485TypeOK'
    <2>1. CASE Arrive BY <2>1, ArriveTypes DEF CmdInv, TypeOK
    <2>2. CASE Damage \/ Lose BY <2>2, DamageTypes DEF CmdInv, TypeOK
    <2>3. CASE IrqHandleErr BY <2>3, IrqErrTypes DEF CmdInv, TypeOK
    <2>4. CASE IrqHandleTx BY <2>4 DEF CmdInv, TypeOK, Rs485TypeOK, IrqHandleTx
    <2> QED BY <2>1, <2>2, <2>3, <2>4 DEF Port
  <1>2. is_writing' => is_writing
    BY DEF Port, Arrive, Damage, Lose, IrqHandleErr, IrqHandleTx
  <1>3. UNCHANGED <<procVars, now, polled, later, sent, handled, torn, skipped>>
    BY DEF Port
  <1>4. disturbed' \in BOOLEAN
    <2>1. CASE disturbed' = (disturbed \/ UNCHANGED rx_buf_) BY <2>1
    <2>2. CASE disturbed' = TRUE \/ UNCHANGED disturbed BY <2>2 DEF CmdInv, TypeOK
    <2> QED BY <2>1, <2>2 DEF Port
  <1> QED BY <1>1, <1>2, <1>3, <1>4
          DEF CmdInv, TypeOK, WritingIsSending, AnswerFlagSet, LaterIsFlagged, procVars

-----------------------------------------------------------------------------
LEMMA InitHolds == Init => CmdInv
  <1> SUFFICES ASSUME Init PROVE CmdInv OBVIOUS
  <1>1. Rs485TypeOK BY EmptyFits, EmptySeq DEF Init, Rs485Init, Rs485TypeOK, Errors
  <1>2. buf_rx_ \in [1..(HdrLen + MaxData) -> Symbols]
    BY Rs485Assumption DEF Init, Rs485Assumption
  <1>3. /\ end_read_time_ms_ \in 0..(MsMod - 1) /\ now \in 0..(MsMod - 1)
        /\ sent \in [Frames -> 0..MaxSends] /\ handled \in [Frames -> Nat]
    BY CmdProcessorAssumption DEF Init, CmdProcessorAssumption
  <1>4. buf_tx_ \in [cmd : {"NO"} \cup {Cmd[f] : f \in Frames}, answer_flag : 0..1]
    BY DEF Init
  <1>5. TypeOK BY <1>1, <1>2, <1>3, <1>4 DEF Init, TypeOK, States
  <1> QED BY <1>5
          DEF Init, Rs485Init, CmdInv, WritingIsSending, AnswerFlagSet, LaterIsFlagged

LEMMA NextKeeps == ASSUME CmdInv, [Next]_vars PROVE CmdInv'
  <1>1. CASE Work
    BY <1>1, RestartKeeps, FindMarkerKeeps, ReadTimeoutKeeps, ReadKeeps, HandleKeeps,
       StartWriteKeeps, NothingKeeps
    DEF Work
  <1>2. CASE App BY <1>2, AppKeeps
  <1>3. CASE \E f \in Frames : Send(f) BY <1>3, SendKeeps
  <1>4. CASE Tick \/ Port BY <1>4, TickKeeps, PortKeeps
  <1>5. CASE UNCHANGED vars
    BY <1>5 DEF CmdInv, TypeOK, Rs485TypeOK, WritingIsSending, AnswerFlagSet,
                LaterIsFlagged, vars, rs485Vars, procVars, historyVars
  <1> QED BY <1>1, <1>2, <1>3, <1>4, <1>5 DEF Next

LEMMA Inductive == Spec => []CmdInv
  BY InitHolds, NextKeeps, PTL DEF Spec

\* Every state of the command processor and of its port has its type: no read
\* of ReadRxData() leaves the message buffer of Work(), no symbol of
\* IrqHandleRx() the receive ring.
THEOREM TypesKept == Spec => []TypeOK
  <1>1. CmdInv => TypeOK BY DEF CmdInv
  <1> QED BY <1>1, Inductive, PTL

\* StartWrite() always finds the port free, and nothing is put in the transmit
\* buffer while it goes out: a transmission is under way only in SENDING_MSG.
THEOREM TransmitIsOwned == Spec => []WritingIsSending
  <1>1. CmdInv => WritingIsSending BY DEF CmdInv
  <1> QED BY <1>1, Inductive, PTL

\* Every message sent has the answer flag, also the answer to a measurement,
\* whose SendMsg() does not set it.
THEOREM AnswersAreFlagged == Spec => []AnswerFlagSet
  <1>1. CmdInv => AnswerFlagSet BY DEF CmdInv
  <1> QED BY <1>1, Inductive, PTL

-----------------------------------------------------------------------------
(* No command is carried out more often than it was sent.  A header is      *)
(* followed from the bus to the buffer, to buf_rx_ and to the handler: every *)
(* step moves it or drops it, and none makes a second one of it.             *)

Places(f, s) == {i \in 1..Len(s) : s[i] = f}
Count(f, s) == Cardinality(Places(f, s))
Bit(b) == IF b THEN 1 ELSE 0

\* The header in buf_rx_ whose message is still to be handled.
Holds(f) == state_ \in {"READING_DATA", "CMD_RECEIVED"} /\ buf_rx_[HdrLen] = f

Budget(f) == Count(f, line) + Count(f, rx_buf_) + Bit(Holds(f)) + handled[f] <= sent[f]

Addressed(f) == handled[f] > 0 => Id[f] = Own \/ (Id[f] = All /\ Cmd[f] = "INFO")

ReplayInv == /\ ~torn => \A f \in Frames : Budget(f)
             /\ \A f \in Frames : Addressed(f)

LEMMA PlacesFinite ==
  ASSUME NEW s \in Seq(Symbols), NEW f
  PROVE  IsFiniteSet(Places(f, s)) /\ Count(f, s) \in Nat
  <1>1. IsFiniteSet(1..Len(s)) BY FS_Interval, LenProperties
  <1>2. Places(f, s) \in SUBSET (1..Len(s)) BY DEF Places
  <1>3. IsFiniteSet(Places(f, s)) BY <1>1, <1>2, FS_Subset
  <1> QED BY <1>3, FS_CardinalityType DEF Count

\* A sequence into which t goes without meeting itself has at least as many
\* headers as t, and one more if a header is left out.
LEMMA CountInto ==
  ASSUME NEW s \in Seq(Symbols), NEW t \in Seq(Symbols), NEW f,
         NEW h \in [1..Len(t) -> 1..Len(s)],
         \A i, j \in 1..Len(t) : h[i] = h[j] => i = j,
         \A i \in 1..Len(t) : t[i] = f => s[h[i]] = f
  PROVE  /\ Count(f, t) <= Count(f, s)
         /\ \A k \in 1..Len(s) :
              s[k] = f /\ (\A i \in 1..Len(t) : h[i] # k) => Count(f, t) + 1 <= Count(f, s)
  <1> DEFINE g == [i \in Places(f, t) |-> h[i]]
  <1>1. IsFiniteSet(Places(f, s)) /\ Count(f, s) \in Nat /\ Count(f, t) \in Nat
    BY PlacesFinite
  <1>2. ASSUME NEW i \in Places(f, t) PROVE h[i] \in Places(f, s) BY DEF Places
  <1>3. g \in [Places(f, t) -> Places(f, s)] BY <1>2
  <1>4. \A i, j \in Places(f, t) : g[i] = g[j] => i = j BY DEF Places
  <1>5. g \in Injection(Places(f, t), Places(f, s))
    BY <1>3, <1>4 DEF Injection, IsInjective
  <1>6. Count(f, t) <= Count(f, s) BY <1>1, <1>5, FS_Injection DEF Count
  <1>7. ASSUME NEW k \in 1..Len(s), s[k] = f, \A i \in 1..Len(t) : h[i] # k
        PROVE  Count(f, t) + 1 <= Count(f, s)
    <2>1. k \in Places(f, s) BY <1>7 DEF Places
    <2>2. /\ IsFiniteSet(Places(f, s) \ {k})
          /\ Cardinality(Places(f, s) \ {k}) = Count(f, s) - 1
      BY <1>1, <2>1, FS_RemoveElement DEF Count
    <2>3. \A i \in Places(f, t) : h[i] # k BY <1>7 DEF Places
    <2>4. g \in [Places(f, t) -> Places(f, s) \ {k}] BY <1>2, <2>3
    <2>5. g \in Injection(Places(f, t), Places(f, s) \ {k})
      BY <1>4, <2>4 DEF Injection, IsInjective
    <2>6. Count(f, t) <= Count(f, s) - 1 BY <2>2, <2>5, FS_Injection DEF Count
    <2> QED BY <1>1, <2>6
  <1> QED BY <1>6, <1>7

LEMMA CountEmpty == ASSUME NEW f PROVE Count(f, << >>) = 0
  <1>1. Places(f, << >>) = {} BY DEF Places
  <1> QED BY <1>1, FS_EmptySet DEF Count

\* What is cut off at the front takes its headers with it.
LEMMA CountCut ==
  ASSUME NEW s \in Seq(Symbols), NEW f, NEW m \in Nat, m <= Len(s)
  PROVE  /\ Count(f, SubSeq(s, m + 1, Len(s))) <= Count(f, s)
         /\ \A k \in 1..m : Count(f, SubSeq(s, m + 1, Len(s))) + Bit(s[k] = f) <= Count(f, s)
  <1> DEFINE t == SubSeq(s, m + 1, Len(s))
  <1> DEFINE h == [i \in 1..(Len(s) - m) |-> i + m]
  <1>1. Len(s) \in Nat BY LenProperties
  <1>2. t \in Seq(Symbols) /\ Len(t) = Len(s) - m BY CutIsSeq
  <1>3. ASSUME NEW i \in 1..(Len(s) - m) PROVE t[i] = s[i + m]
    <2>1. m + 1 \in 1..Len(s) BY <1>1
    <2>2. t[i] = s[(m + 1) + i - 1]
      BY <1>1, <2>1, <1>2, SubSeqProperties
    <2>3. (m + 1) + i - 1 = i + m BY <1>1
    <2> QED BY <2>2, <2>3
  <1>4. h \in [1..Len(t) -> 1..Len(s)] BY <1>1, <1>2
  <1>5. \A i, j \in 1..Len(t) : h[i] = h[j] => i = j BY <1>1, <1>2
  <1>6. \A i \in 1..Len(t) : t[i] = f => s[h[i]] = f BY <1>2, <1>3
  <1>7. \A k \in 1..m : k \in 1..Len(s) /\ \A i \in 1..Len(t) : h[i] # k BY <1>1, <1>2
  <1>8. Count(f, t) \in Nat /\ Count(f, s) \in Nat BY <1>2, PlacesFinite
  <1> HIDE DEF t, h
  <1>9. /\ Count(f, t) <= Count(f, s)
        /\ \A k \in 1..Len(s) :
             s[k] = f /\ (\A i \in 1..Len(t) : h[i] # k) => Count(f, t) + 1 <= Count(f, s)
    BY <1>2, <1>4, <1>5, <1>6, CountInto
  <1>10. \A k \in 1..m : s[k] = f => Count(f, t) + 1 <= Count(f, s)
    BY <1>7, <1>9
  <1> QED BY <1>8, <1>9, <1>10 DEF t, Bit

LEMMA CountTail ==
  ASSUME NEW s \in Seq(Symbols), s # << >>, NEW f
  PROVE  Count(f, Tail(s)) + Bit(Head(s) = f) <= Count(f, s)
  <1>1. Len(s) \in Nat /\ Len(s) >= 1 BY LenProperties, EmptySeq
  <1>2. Tail(s) = SubSeq(s, 1 + 1, Len(s)) /\ Head(s) = s[1]
    BY <1>1, HeadTailProperties, SubSeqProperties
  <1>3. \A k \in 1..1 : Count(f, SubSeq(s, 1 + 1, Len(s))) + Bit(s[k] = f) <= Count(f, s)
    BY <1>1, CountCut
  <1>4. 1 \in 1..1 OBVIOUS
  <1> QED BY <1>2, <1>3, <1>4

LEMMA CountAppend ==
  ASSUME NEW s \in Seq(Symbols), NEW b \in Symbols, NEW f
  PROVE  Count(f, Append(s, b)) <= Count(f, s) + Bit(b = f)
  <1>1. /\ Len(s) \in Nat /\ Len(Append(s, b)) = Len(s) + 1
        /\ Append(s, b)[Len(s) + 1] = b
        /\ \A i \in 1..Len(s) : Append(s, b)[i] = s[i]
    BY AppendProperties, LenProperties
  <1>2. IsFiniteSet(Places(f, s)) /\ Count(f, s) \in Nat BY PlacesFinite
  <1>3. CASE b = f
    <2>1. Places(f, Append(s, b)) \subseteq Places(f, s) \cup {Len(s) + 1}
      BY <1>1 DEF Places
    <2>2. /\ IsFiniteSet(Places(f, s) \cup {Len(s) + 1})
          /\ Cardinality(Places(f, s) \cup {Len(s) + 1}) <= Count(f, s) + 1
      <3>1. IsFiniteSet(Places(f, s)) /\ Cardinality(Places(f, s)) \in Nat
        BY <1>2 DEF Count
      <3>2. /\ IsFiniteSet(Places(f, s) \cup {Len(s) + 1})
            /\ Cardinality(Places(f, s) \cup {Len(s) + 1}) =
                 IF Len(s) + 1 \in Places(f, s) THEN Cardinality(Places(f, s))
                                                ELSE Cardinality(Places(f, s)) + 1
        BY <3>1, FS_AddElement
      <3> QED BY <3>1, <3>2 DEF Count
    <2>3. Count(f, Append(s, b)) <= Cardinality(Places(f, s) \cup {Len(s) + 1})
      BY <2>1, <2>2, FS_Subset DEF Count
    <2>4. /\ Count(f, Append(s, b)) \in Nat
          /\ Cardinality(Places(f, s) \cup {Len(s) + 1}) \in Nat
      BY <2>2, PlacesFinite, AppendProperties, FS_CardinalityType
    <2> QED BY <1>2, <1>3, <2>2, <2>3, <2>4 DEF Bit
  <1>4. CASE b # f
    <2>1. Places(f, Append(s, b)) = Places(f, s) BY <1>1, <1>4 DEF Places
    <2> QED BY <1>2, <1>4, <2>1 DEF Count, Bit
  <1> QED BY <1>3, <1>4

LEMMA CountDamaged ==
  ASSUME NEW s \in Seq(Symbols), NEW f \in Frames, NEW i \in 1..Len(s)
  PROVE  Count(f, [s EXCEPT ![i] = Noise]) <= Count(f, s)
  <1> DEFINE t == [s EXCEPT ![i] = Noise]
  <1>1. Noise \in Symbols /\ Noise # f
    BY Rs485Assumption, OnlyHeadersSpellFrames DEF Rs485Assumption
  <1>2. t \in Seq(Symbols) /\ Len(t) = Len(s) BY <1>1, ExceptSeq
  <1>3. \A j \in 1..Len(s) : t[j] = f => s[j] = f BY <1>1, ExceptSeq
  <1>4. Places(f, t) \in SUBSET Places(f, s) BY <1>2, <1>3 DEF Places
  <1>5. IsFiniteSet(Places(f, s)) BY PlacesFinite
  <1> HIDE DEF t
  <1>6. Cardinality(Places(f, t)) <= Cardinality(Places(f, s)) BY <1>4, <1>5, FS_Subset
  <1> QED BY <1>6 DEF Count, t

LEMMA CountLost ==
  ASSUME NEW s \in Seq(Symbols), NEW f, NEW i \in 1..Len(s)
  PROVE  Count(f, SubSeq(s, 1, i - 1) \o SubSeq(s, i + 1, Len(s))) <= Count(f, s)
  <1> DEFINE a == SubSeq(s, 1, i - 1)
  <1> DEFINE b == SubSeq(s, i + 1, Len(s))
  <1> DEFINE h == [j \in 1..(Len(s) - 1) |-> IF j < i THEN j ELSE j + 1]
  <1>1. Len(s) \in Nat /\ i \in Nat /\ i <= Len(s) BY LenProperties
  <1>2. /\ a \in Seq(Symbols) /\ Len(a) = i - 1
        /\ \A j \in 1..(i - 1) : a[j] = s[j]
    <2>1. CASE i = 1 BY <1>1, <2>1, SubSeqProperties
    <2>2. CASE i > 1 BY <1>1, <2>2, SubSeqProperties
    <2> QED BY <1>1, <2>1, <2>2
  <1>3. b \in Seq(Symbols) /\ Len(b) = Len(s) - i BY <1>1, CutIsSeq
  <1>4. ASSUME NEW j \in 1..(Len(s) - i) PROVE b[j] = s[i + j]
    <2>1. i + 1 \in 1..Len(s) BY <1>1
    <2>2. b[j] = s[(i + 1) + j - 1] BY <1>1, <1>3, <2>1, SubSeqProperties
    <2>3. (i + 1) + j - 1 = i + j BY <1>1
    <2> QED BY <2>2, <2>3
  <1> HIDE DEF a, b
  <1>5. /\ a \o b \in Seq(Symbols) /\ Len(a \o b) = Len(s) - 1
        /\ \A j \in 1..(Len(s) - 1) :
             (a \o b)[j] = IF j <= Len(a) THEN a[j] ELSE b[j - Len(a)]
    <2>1. /\ a \o b \in Seq(Symbols) /\ Len(a \o b) = Len(a) + Len(b)
          /\ \A j \in 1..(Len(a) + Len(b)) :
               (a \o b)[j] = IF j <= Len(a) THEN a[j] ELSE b[j - Len(a)]
      BY <1>2, <1>3, ConcatProperties
    <2>2. Len(a) + Len(b) = Len(s) - 1 BY <1>1, <1>2, <1>3
    <2> QED BY <2>1, <2>2
  <1>6. ASSUME NEW j \in 1..(Len(s) - 1) PROVE (a \o b)[j] = s[h[j]]
    <2>1. CASE j < i BY <1>1, <1>2, <1>5, <2>1
    <2>2. CASE ~(j < i)
      <3>1. j - (i - 1) \in 1..(Len(s) - i) /\ i + (j - (i - 1)) = j + 1
        BY <1>1, <2>2
      <3>2. b[j - (i - 1)] = s[j + 1] BY <1>4, <3>1
      <3> QED BY <1>1, <1>2, <1>5, <2>2, <3>2
    <2> QED BY <2>1, <2>2
  <1>7. h \in [1..Len(a \o b) -> 1..Len(s)] BY <1>1, <1>5
  <1>8. \A j, k \in 1..Len(a \o b) : h[j] = h[k] => j = k BY <1>1, <1>5
  <1>9. \A j \in 1..Len(a \o b) : (a \o b)[j] = f => s[h[j]] = f BY <1>5, <1>6
  <1> HIDE DEF h
  <1>10. Count(f, a \o b) <= Count(f, s) BY <1>5, <1>7, <1>8, <1>9, CountInto
  <1> QED BY <1>10 DEF a, b

\* A frame's symbols hold its own header once and no other frame's.
LEMMA CountWire ==
  ASSUME NEW f \in Frames, NEW g \in Frames
  PROVE  Count(g, Wire(f)) <= Bit(f = g)
  <1> DEFINE hdr == <<Marker, Id[f], f>>
  <1>1. /\ Marker # g /\ Id[f] # g /\ Data[f] \in Seq(Symbols \ Frames)
        /\ Data[f] \in Seq(Symbols)
    <2>1. Marker \notin Frames /\ Id[f] \notin Frames
      BY OnlyHeadersSpellFrames
    <2> QED BY <2>1, OnlyHeadersSpellFrames, CmdProcessorAssumption
            DEF CmdProcessorAssumption
  <1>2. Len(Data[f]) \in Nat /\ \A j \in 1..Len(Data[f]) : Data[f][j] # g
    <2>1. \A j \in 1..Len(Data[f]) : Data[f][j] \in Symbols \ Frames
      BY <1>1, ElementOfSeq
    <2> QED BY <1>1, <2>1, LenProperties
  <1>3. hdr \in Seq(Symbols) /\ Len(hdr) = 3 /\ hdr[1] = Marker /\ hdr[2] = Id[f] /\ hdr[3] = f
    BY CmdProcessorAssumption DEF CmdProcessorAssumption
  <1> HIDE DEF hdr
  <1>4. /\ Len(hdr \o Data[f]) = 3 + Len(Data[f])
        /\ \A j \in 1..(3 + Len(Data[f])) :
             (hdr \o Data[f])[j] = IF j <= 3 THEN hdr[j] ELSE Data[f][j - 3]
    <2>1. /\ Len(hdr \o Data[f]) = Len(hdr) + Len(Data[f])
          /\ \A j \in 1..(Len(hdr) + Len(Data[f])) :
               (hdr \o Data[f])[j] = IF j <= Len(hdr) THEN hdr[j] ELSE Data[f][j - Len(hdr)]
      BY <1>1, <1>3, ConcatProperties
    <2> QED BY <1>3, <2>1
  <1>5. ASSUME NEW j \in 1..(3 + Len(Data[f])), (hdr \o Data[f])[j] = g
        PROVE  j = 3 /\ f = g
    <2>1. CASE j > 3
      <3>1. j - 3 \in 1..Len(Data[f]) BY <1>2, <2>1
      <3> QED BY <1>2, <1>4, <1>5, <2>1, <3>1
    <2>2. CASE j <= 3
      <3>1. j \in {1, 2, 3} BY <1>2, <2>2
      <3> QED BY <1>1, <1>3, <1>4, <1>5, <2>2, <3>1
    <2> QED BY <1>2, <2>1, <2>2
  <1>6. Places(g, Wire(f)) \in SUBSET {3} /\ (f # g => Places(g, Wire(f)) = {})
    BY <1>4, <1>5 DEF Places, Wire, hdr
  <1>7. CASE f = g
    <2>1. IsFiniteSet({3}) /\ Cardinality({3}) = 1 BY FS_Singleton
    <2>2. Cardinality(Places(g, Wire(f))) <= Cardinality({3})
      BY <1>6, <2>1, FS_Subset
    <2> QED BY <1>7, <2>1, <2>2 DEF Count, Bit
  <1>8. CASE f # g BY <1>6, <1>8, FS_EmptySet DEF Count, Bit
  <1> QED BY <1>7, <1>8

-----------------------------------------------------------------------------
(* What each operation of the port does to the headers on their way.       *)

OnTheWay(f) == Count(f, line) + Count(f, rx_buf_)

LEMMA CountsAreNat ==
  ASSUME Rs485TypeOK, NEW f PROVE Count(f, line) \in Nat /\ Count(f, rx_buf_) \in Nat
  BY PlacesFinite DEF Rs485TypeOK

LEMMA CountsAreNatNext ==
  ASSUME Rs485TypeOK', NEW f PROVE Count(f, line') \in Nat /\ Count(f, rx_buf_') \in Nat
  BY PlacesFinite DEF Rs485TypeOK

\* A symbol that arrives goes to the buffer or nowhere.
LEMMA ArriveCounts ==
  ASSUME Rs485TypeOK, NEW f, line # << >>, line' = Tail(line),
         rx_buf_' = Append(rx_buf_, Head(line)) \/ UNCHANGED rx_buf_
  PROVE  Count(f, line') + Count(f, rx_buf_') <= Count(f, line) + Count(f, rx_buf_)
  <1>1. /\ Head(line) \in Symbols /\ Tail(line) \in Seq(Symbols)
        /\ line \in Seq(Symbols) /\ rx_buf_ \in Seq(Symbols)
    BY TailIsSeq DEF Rs485TypeOK
  <1>2. Count(f, Tail(line)) + Bit(Head(line) = f) <= Count(f, line)
    BY <1>1, CountTail
  <1>3. Count(f, Append(rx_buf_, Head(line))) <= Count(f, rx_buf_) + Bit(Head(line) = f)
    BY <1>1, CountAppend
  <1>4. /\ Count(f, Tail(line)) \in Nat /\ Count(f, line) \in Nat
        /\ Count(f, Append(rx_buf_, Head(line))) \in Nat /\ Count(f, rx_buf_) \in Nat
        /\ Bit(Head(line) = f) \in 0..1
    <2>1. Append(rx_buf_, Head(line)) \in Seq(Symbols) BY <1>1, AppendProperties
    <2>2. Bit(Head(line) = f) \in 0..1 BY DEF Bit
    <2> QED BY <1>1, <2>1, <2>2, PlacesFinite
  <1>5. CASE rx_buf_' = Append(rx_buf_, Head(line)) BY <1>2, <1>3, <1>4, <1>5
  <1>6. CASE UNCHANGED rx_buf_ BY <1>2, <1>4, <1>6
  <1> QED BY <1>5, <1>6

LEMMA PortCounts ==
  ASSUME Rs485TypeOK, Rs485TypeOK', NEW f \in Frames, Port
  PROVE  Count(f, line') + Count(f, rx_buf_') <= Count(f, line) + Count(f, rx_buf_)
  <1>0. /\ Count(f, line) \in Nat /\ Count(f, rx_buf_) \in Nat
        /\ Count(f, line') \in Nat /\ Count(f, rx_buf_') \in Nat
    BY CountsAreNat, CountsAreNatNext
  <1>1. CASE Arrive BY <1>1, ArriveCounts DEF Arrive, IrqHandleRx
  <1>2. CASE Damage
    <2>1. PICK i \in DOMAIN line : line' = [line EXCEPT ![i] = Noise]
      BY <1>2 DEF Damage
    <2>2. i \in 1..Len(line) /\ line \in Seq(Symbols)
      BY <2>1, LenProperties DEF Rs485TypeOK
    <2>3. Count(f, line') <= Count(f, line) BY <2>1, <2>2, CountDamaged
    <2>4. rx_buf_' = rx_buf_ BY <1>2 DEF Damage
    <2> QED BY <1>0, <2>3, <2>4
  <1>3. CASE Lose
    <2>1. PICK i \in DOMAIN line :
            line' = SubSeq(line, 1, i - 1) \o SubSeq(line, i + 1, Len(line))
      BY <1>3 DEF Lose
    <2>2. i \in 1..Len(line) /\ line \in Seq(Symbols)
      BY <2>1, LenProperties DEF Rs485TypeOK
    <2>3. Count(f, line') <= Count(f, line) BY <2>1, <2>2, CountLost
    <2>4. rx_buf_' = rx_buf_ BY <1>3 DEF Lose
    <2> QED BY <1>0, <2>3, <2>4
  <1>4. CASE IrqHandleErr
    <2>1. CASE UNCHANGED <<line, rx_buf_, wpos>> BY <1>0, <2>1
    <2>2. CASE ~UNCHANGED <<line, rx_buf_, wpos>>
      <3>1. /\ line # << >> /\ line' = Tail(line)
            /\ rx_buf_' = Append(rx_buf_, Head(line)) \/ UNCHANGED rx_buf_
        BY <1>4, <2>2 DEF IrqHandleErr
      <3> QED BY <3>1, ArriveCounts
    <2> QED BY <2>1, <2>2
  <1>5. CASE IrqHandleTx BY <1>0, <1>5 DEF IrqHandleTx
  <1> QED BY <1>1, <1>2, <1>3, <1>4, <1>5 DEF Port

LEMMA ReopenCounts ==
  ASSUME Rs485TypeOK, NEW f, Reopen
  PROVE  Count(f, line') + Count(f, rx_buf_') <= Count(f, line) + Count(f, rx_buf_)
  <1>1. PICK n \in 0..ClearMax : n <= Len(line) /\ line' = SubSeq(line, n + 1, Len(line))
    BY DEF Reopen
  <1>2. n \in Nat /\ line \in Seq(Symbols) /\ rx_buf_' = << >>
    BY <1>1, Rs485Assumption DEF Reopen, Rs485TypeOK, Rs485Assumption
  <1>3. Count(f, line') <= Count(f, line) BY <1>1, <1>2, CountCut
  <1>4. Count(f, rx_buf_') = 0 BY <1>2, CountEmpty
  <1>5. Count(f, line') \in Nat BY <1>1, <1>2, CutIsSeq, PlacesFinite
  <1> QED BY <1>3, <1>4, <1>5, CountsAreNat

\* A read takes what it returns from the buffer, or the last symbol from the bus.
LEMMA ReadCounts ==
  ASSUME Rs485TypeOK, NEW f, NEW n \in Nat, HasRxData(n), ReadRxData(n)
  PROVE  /\ Count(f, line') + Count(f, rx_buf_') <= Count(f, line) + Count(f, rx_buf_)
         /\ ~(Len(RxData(n)) < n) =>
              \A k \in 1..n : Count(f, line') + Count(f, rx_buf_') + Bit(RxData(n)[k] = f)
                                <= Count(f, line) + Count(f, rx_buf_)
  <1>0. /\ Count(f, line) \in Nat /\ Count(f, rx_buf_) \in Nat
        /\ Len(rx_buf_) \in Nat
    BY CountsAreNat, LenProperties DEF Rs485TypeOK
  <1>1. CASE Len(rx_buf_) >= n
    <2>1. line' = line /\ rx_buf_' = SubSeq(rx_buf_, n + 1, Len(rx_buf_))
      BY <1>1 DEF ReadRxData
    <2>2. /\ Count(f, rx_buf_') <= Count(f, rx_buf_)
          /\ \A k \in 1..n : Count(f, rx_buf_') + Bit(rx_buf_[k] = f) <= Count(f, rx_buf_)
      BY <1>0, <1>1, <2>1, CountCut DEF Rs485TypeOK
    <2>3. \A k \in 1..n : RxData(n)[k] = rx_buf_[k]
      <3>1. RxData(n) = SubSeq(rx_buf_, 1, n) BY <1>1 DEF RxData
      <3> QED BY <1>0, <1>1, <3>1, SubSeqProperties DEF Rs485TypeOK
    <2>4. Count(f, rx_buf_') \in Nat
      <3>1. rx_buf_' \in Seq(Symbols) BY <1>0, <1>1, <2>1, CutIsSeq DEF Rs485TypeOK
      <3> QED BY <3>1, PlacesFinite
    <2>5. ASSUME NEW k \in 1..n
          PROVE  Count(f, line') + Count(f, rx_buf_') + Bit(RxData(n)[k] = f)
                   <= Count(f, line) + Count(f, rx_buf_)
      <3>1. Bit(RxData(n)[k] = f) = Bit(rx_buf_[k] = f) BY <2>3
      <3>2. Count(f, rx_buf_') + Bit(rx_buf_[k] = f) <= Count(f, rx_buf_) BY <2>2
      <3>3. Bit(rx_buf_[k] = f) \in 0..1 BY DEF Bit
      <3> QED BY <1>0, <2>1, <2>4, <3>1, <3>2, <3>3
    <2> QED BY <1>0, <2>1, <2>2, <2>4, <2>5
  <1>2. CASE ~(Len(rx_buf_) >= n)
    <2>1. /\ line # << >> /\ line' = Tail(line) /\ rx_buf_' = << >>
          /\ RxData(n) = Append(rx_buf_, Head(line))
      BY <1>2 DEF ReadRxData, RxData, HasRxData, SizeFooled
    <2>2. /\ Count(f, line') + Bit(Head(line) = f) <= Count(f, line)
          /\ Count(f, rx_buf_') = 0 /\ Count(f, line') \in Nat
      BY <2>1, CountTail, CountEmpty, TailIsSeq, PlacesFinite DEF Rs485TypeOK
    <2>3. \A k \in 1..Len(rx_buf_) : Bit(rx_buf_[k] = f) <= Count(f, rx_buf_)
      <3>1. rx_buf_ \in Seq(Symbols) /\ Len(rx_buf_) <= Len(rx_buf_)
        BY <1>0 DEF Rs485TypeOK
      <3> DEFINE t == SubSeq(rx_buf_, Len(rx_buf_) + 1, Len(rx_buf_))
      <3>2. \A k \in 1..Len(rx_buf_) : Count(f, t) + Bit(rx_buf_[k] = f) <= Count(f, rx_buf_)
        BY <1>0, <3>1, CountCut
      <3>3. Count(f, t) \in Nat BY <1>0, <3>1, CutIsSeq, PlacesFinite
      <3>4. \A k \in 1..Len(rx_buf_) : Bit(rx_buf_[k] = f) \in 0..1 BY DEF Bit
      <3> HIDE DEF t
      <3> QED BY <1>0, <3>2, <3>3, <3>4
    <2>4. ASSUME NEW k \in 1..n, ~(Len(RxData(n)) < n)
          PROVE  Bit(RxData(n)[k] = f) <= Count(f, rx_buf_) + Bit(Head(line) = f)
      <3>1. /\ Head(line) \in Symbols /\ Len(RxData(n)) = Len(rx_buf_) + 1
            /\ RxData(n)[Len(rx_buf_) + 1] = Head(line)
            /\ \A j \in 1..Len(rx_buf_) : RxData(n)[j] = rx_buf_[j]
        BY <2>1, TailIsSeq, AppendProperties DEF Rs485TypeOK
      <3>2. n = Len(rx_buf_) + 1 BY <1>0, <1>2, <2>4, <3>1
      <3>3. Bit(Head(line) = f) \in 0..1 BY DEF Bit
      <3>4. CASE k = n BY <1>0, <3>1, <3>2, <3>3, <3>4
      <3>5. CASE k # n
        <4>1. k \in 1..Len(rx_buf_) BY <1>0, <3>2, <3>5
        <4>2. Bit(RxData(n)[k] = f) = Bit(rx_buf_[k] = f) BY <3>1, <4>1
        <4>3. Bit(rx_buf_[k] = f) <= Count(f, rx_buf_) /\ Bit(rx_buf_[k] = f) \in 0..1
          BY <2>3, <4>1 DEF Bit
        <4> QED BY <1>0, <3>3, <4>2, <4>3
      <3> QED BY <3>4, <3>5
    <2>5. Bit(Head(line) = f) \in 0..1 /\ \A k \in 1..n : Bit(RxData(n)[k] = f) \in 0..1
      BY DEF Bit
    <2> QED BY <1>0, <2>2, <2>4, <2>5
  <1> QED BY <1>1, <1>2

-----------------------------------------------------------------------------
(* No step makes a second header, and a handler uses one up.               *)

LEMMA BudgetTypes ==
  ASSUME TypeOK, NEW f \in Frames
  PROVE  /\ Count(f, line) \in Nat /\ Count(f, rx_buf_) \in Nat
         /\ Bit(Holds(f)) \in 0..1 /\ handled[f] \in Nat /\ sent[f] \in Nat
  BY CountsAreNat, CmdProcessorAssumption DEF TypeOK, Bit, CmdProcessorAssumption

\* The steps that only move headers on, or drop them.
LEMMA MoveKeeps ==
  ASSUME TypeOK, TypeOK', ReplayInv, UNCHANGED <<sent, handled>>, torn => torn',
         ~torn' => \A f \in Frames :
           Count(f, line') + Count(f, rx_buf_') + Bit(Holds(f)')
             <= Count(f, line) + Count(f, rx_buf_) + Bit(Holds(f))
  PROVE  ReplayInv'
  <1>1. \A f \in Frames : Addressed(f)' BY DEF ReplayInv, Addressed
  <1>2. ASSUME ~torn', NEW f \in Frames PROVE Budget(f)'
    <2>1. Count(f, line) + Count(f, rx_buf_) + Bit(Holds(f)) + handled[f] <= sent[f]
      BY <1>2 DEF ReplayInv, Budget
    <2>2. Count(f, line') + Count(f, rx_buf_') + Bit(Holds(f)')
             <= Count(f, line) + Count(f, rx_buf_) + Bit(Holds(f))
      BY <1>2
    <2>3. Count(f, line') \in Nat /\ Count(f, rx_buf_') \in Nat /\ Bit(Holds(f)') \in 0..1
      BY CountsAreNatNext DEF TypeOK, Bit
    <2>4. Count(f, line') + Count(f, rx_buf_') + Bit(Holds(f)') + handled[f] <= sent[f]
      BY <2>1, <2>2, <2>3, BudgetTypes
    <2> QED BY <2>4 DEF Budget, Count, Places, Bit
  <1> QED BY <1>1, <1>2 DEF ReplayInv

\* In particular those that leave buf_rx_ alone.
LEMMA DropKeeps ==
  ASSUME TypeOK, TypeOK', ReplayInv, UNCHANGED <<sent, handled, torn>>,
         \A f \in Frames : /\ Count(f, line') + Count(f, rx_buf_')
                                <= Count(f, line) + Count(f, rx_buf_)
                           /\ Holds(f)' => Holds(f)
  PROVE  ReplayInv'
  <1>1. UNCHANGED <<sent, handled>> /\ (torn => torn') OBVIOUS
  <1>2. ASSUME NEW f \in Frames
        PROVE  Count(f, line') + Count(f, rx_buf_') + Bit(Holds(f)')
                 <= Count(f, line) + Count(f, rx_buf_) + Bit(Holds(f))
    <2>1. Count(f, line') \in Nat /\ Count(f, rx_buf_') \in Nat
      BY CountsAreNatNext DEF TypeOK
    <2>2. Bit(Holds(f)') <= Bit(Holds(f)) /\ Bit(Holds(f)') \in 0..1 /\ Bit(Holds(f)) \in 0..1
      BY DEF Bit
    <2> QED BY <2>1, <2>2, BudgetTypes
  <1> QED BY <1>1, <1>2, MoveKeeps

LEMMA ReadKeepsReplay ==
  ASSUME TypeOK, TypeOK', ReplayInv, ReadHdr \/ ReadData
  PROVE  ReplayInv'
  <1>1. HdrLen = 2 /\ HdrLen \in 1..(HdrLen + MaxData) /\ DOMAIN buf_rx_ = 1..(HdrLen + MaxData)
    BY CmdProcessorAssumption DEF HdrLen, TypeOK, CmdProcessorAssumption
  <1>2. UNCHANGED <<sent, handled>> /\ (torn => torn')
    BY DEF ReadHdr, ReadData, ReadPart
  <1>3. CASE ReadHdr
    <2>1. /\ HasRxData(2) /\ ReadRxData(2) /\ buf_rx_' = Overlay(0, RxData(2))
          /\ torn' = (torn \/ Len(RxData(2)) < 2)
      BY <1>1, <1>3 DEF ReadHdr, ReadPart
    <2>2. Len(RxData(2)) \in Nat
      BY <2>1, ReadTypes, LenProperties DEF TypeOK
    <2>3. ASSUME ~torn', NEW f \in Frames
          PROVE  Count(f, line') + Count(f, rx_buf_') + Bit(Holds(f)')
                   <= Count(f, line) + Count(f, rx_buf_) + Bit(Holds(f))
      <3>1. ~(Len(RxData(2)) < 2) BY <2>1, <2>3
      <3>2. buf_rx_'[HdrLen] = RxData(2)[2]
        BY <1>1, <2>1, <2>2, <3>1 DEF Overlay
      <3>3. Count(f, line') + Count(f, rx_buf_') + Bit(RxData(2)[2] = f)
              <= Count(f, line) + Count(f, rx_buf_)
        <4>1. 2 \in Nat /\ 2 \in 1..2 OBVIOUS
        <4> QED BY <2>1, <3>1, <4>1, ReadCounts DEF TypeOK
      <3>4. Bit(Holds(f)') <= Bit(RxData(2)[2] = f) BY <3>2 DEF Holds, Bit
      <3>5. /\ Bit(Holds(f)') \in 0..1 /\ Bit(RxData(2)[2] = f) \in 0..1
            /\ Count(f, line') \in Nat /\ Count(f, rx_buf_') \in Nat
        BY CountsAreNatNext DEF TypeOK, Bit
      <3> QED BY <3>3, <3>4, <3>5, BudgetTypes
    <2> QED BY <1>2, <2>3, MoveKeeps
  <1>4. CASE ReadData
    <2>1. /\ HasRxData(MsgSize) /\ ReadRxData(MsgSize) /\ state_ = "READING_DATA"
          /\ buf_rx_' = Overlay(2, RxData(MsgSize))
      BY <1>1, <1>4 DEF ReadData, ReadPart
    <2>2. MsgSize \in Nat BY SizeIsNat
    <2>3. Len(RxData(MsgSize)) \in Nat
      BY <2>1, <2>2, ReadTypes, LenProperties DEF TypeOK
    <2>4. buf_rx_'[HdrLen] = buf_rx_[HdrLen] BY <1>1, <2>1, <2>3 DEF Overlay
    <2>5. ASSUME NEW f \in Frames
          PROVE  Count(f, line') + Count(f, rx_buf_') + Bit(Holds(f)')
                   <= Count(f, line) + Count(f, rx_buf_) + Bit(Holds(f))
      <3>1. Count(f, line') + Count(f, rx_buf_') <= Count(f, line) + Count(f, rx_buf_)
        BY <2>1, <2>2, ReadCounts DEF TypeOK
      <3>2. Bit(Holds(f)') <= Bit(Holds(f)) BY <2>1, <2>4 DEF Holds, Bit
      <3>3. /\ Bit(Holds(f)') \in 0..1
            /\ Count(f, line') \in Nat /\ Count(f, rx_buf_') \in Nat
        BY CountsAreNatNext DEF TypeOK, Bit
      <3> QED BY <3>1, <3>2, <3>3, BudgetTypes
    <2> QED BY <1>2, <2>5, MoveKeeps
  <1> QED BY <1>3, <1>4

LEMMA HandleKeepsReplay ==
  ASSUME TypeOK, TypeOK', ReplayInv, NEW f \in Frames, Handle(f)
  PROVE  ReplayInv'
  <1>1. /\ state_ = "CMD_RECEIVED" /\ state_' \in {"SEND_MSG", "NO"}
        /\ handled' = [handled EXCEPT ![f] = @ + 1]
        /\ line' = line /\ rx_buf_' = rx_buf_ /\ sent' = sent /\ torn' = torn
        /\ IsOurCmd /\ CrcMatches(f)
    BY DEF Handle, Step, rs485Vars
  <1>2. buf_rx_[HdrLen] = f /\ buf_rx_[1] = Id[f] BY <1>1 DEF CrcMatches
  <1>3. Id[f] = Own \/ (Id[f] = All /\ Cmd[f] = "INFO") BY <1>1, <1>2 DEF IsOurCmd
  <1>4. handled \in [Frames -> Nat] BY DEF TypeOK
  <1>5. ASSUME NEW g \in Frames PROVE Addressed(g)'
    <2>1. CASE g = f BY <1>3, <2>1 DEF Addressed
    <2>2. CASE g # f BY <1>1, <1>4, <2>2 DEF Addressed, ReplayInv
    <2> QED BY <2>1, <2>2
  <1>6. ASSUME ~torn', NEW g \in Frames PROVE Budget(g)'
    <2>1. Count(g, line) + Count(g, rx_buf_) + Bit(Holds(g)) + handled[g] <= sent[g]
      BY <1>1, <1>6 DEF ReplayInv, Budget
    <2>2. Bit(Holds(g)') = 0 BY <1>1 DEF Holds, Bit
    <2>3. handled'[g] <= Bit(Holds(g)) + handled[g] /\ handled'[g] \in Nat
      <3>1. CASE g = f BY <1>1, <1>2, <1>4, <3>1 DEF Holds, Bit
      <3>2. CASE g # f BY <1>1, <1>4, <3>2 DEF Bit
      <3> QED BY <3>1, <3>2
    <2>4. Count(g, line) + Count(g, rx_buf_) + 0 + handled'[g] <= sent[g]
      BY <2>1, <2>3, BudgetTypes
    <2>5. Count(g, line') = Count(g, line) /\ Count(g, rx_buf_') = Count(g, rx_buf_)
      BY <1>1
    <2> QED BY <1>1, <2>2, <2>4, <2>5 DEF Budget, Count, Places, Bit
  <1> QED BY <1>5, <1>6 DEF ReplayInv

LEMMA SendKeepsReplay ==
  ASSUME TypeOK, TypeOK', ReplayInv, NEW f \in Frames, Send(f)
  PROVE  ReplayInv'
  <1>1. /\ line = << >> /\ line' = Wire(f) /\ rx_buf_' = rx_buf_ /\ state_' = state_
        /\ buf_rx_' = buf_rx_ /\ handled' = handled /\ torn' = torn
        /\ sent' = [sent EXCEPT ![f] = @ + 1]
    BY DEF Send, procVars
  <1>2. \A g \in Frames : Addressed(g)' BY <1>1 DEF ReplayInv, Addressed
  <1>3. ASSUME ~torn', NEW g \in Frames PROVE Budget(g)'
    <2>1. Count(g, line) + Count(g, rx_buf_) + Bit(Holds(g)) + handled[g] <= sent[g]
      BY <1>1, <1>3 DEF ReplayInv, Budget
    <2>2. Count(g, line') <= Bit(f = g) /\ Count(g, line') \in Nat
      BY <1>1, CountWire, CountsAreNatNext DEF TypeOK
    <2>3. sent'[g] = sent[g] + Bit(f = g)
      BY <1>1, BudgetTypes DEF TypeOK, Bit
    <2>4. Count(g, line') + Count(g, rx_buf_) + Bit(Holds(g)) + handled[g] <= sent'[g]
      <3>1. Bit(f = g) \in 0..1 BY DEF Bit
      <3>2. Count(g, line') + Count(g, rx_buf_) + Bit(Holds(g)) + handled[g]
              <= sent[g] + Bit(f = g)
        BY <2>1, <2>2, <3>1, BudgetTypes
      <3> QED BY <2>3, <3>2
    <2>5. Bit(Holds(g)') = Bit(Holds(g)) BY <1>1 DEF Holds
    <2> QED BY <1>1, <2>4, <2>5 DEF Budget, Count, Places, Bit
  <1> QED BY <1>2, <1>3 DEF ReplayInv

\* The steps that leave the bus and the buffer alone and read nothing.
LEMMA StillKeepsReplay ==
  ASSUME TypeOK, TypeOK', ReplayInv,
         \/ ReadTimeout \/ Ignore \/ StartWrite \/ Sent \/ Nothing \/ App \/ Tick
         \/ UNCHANGED vars
  PROVE  ReplayInv'
  <1>1. line' = line /\ rx_buf_' = rx_buf_ /\ buf_rx_' = buf_rx_ /\ UNCHANGED <<sent, handled, torn>>
    BY DEF ReadTimeout, Ignore, StartWrite, Sent, Nothing, App, Pause, Resume, Becomes,
           MeasureBySignal, Pass, SendMsg, Tick, rs485Vars, procVars, historyVars, vars
  <1>2. state_' = state_ \/ state_' \notin {"READING_DATA", "CMD_RECEIVED"}
    BY DEF ReadTimeout, Ignore, StartWrite, Sent, Nothing, App, Pause, Resume, Becomes,
           MeasureBySignal, Pass, SendMsg, Tick, procVars, vars
  <1>3. ASSUME NEW f \in Frames
        PROVE  /\ Count(f, line') + Count(f, rx_buf_') <= Count(f, line) + Count(f, rx_buf_)
               /\ Holds(f)' => Holds(f)
    <2>1. Holds(f)' => Holds(f) BY <1>1, <1>2 DEF Holds
    <2> QED BY <1>1, <2>1, BudgetTypes
  <1> QED BY <1>1, <1>3, DropKeeps

LEMMA NextKeepsReplay ==
  ASSUME TypeOK, TypeOK', ReplayInv, [Next]_vars
  PROVE  ReplayInv'
  <1>1. CASE Restart
    <2>1. Reopen /\ state_' = "NO" /\ UNCHANGED <<sent, handled, torn>> BY <1>1 DEF Restart, historyVars
    <2>2. \A f \in Frames : /\ Count(f, line') + Count(f, rx_buf_')
                                 <= Count(f, line) + Count(f, rx_buf_)
                            /\ Holds(f)' => Holds(f)
      BY <2>1, ReopenCounts DEF TypeOK, Holds
    <2> QED BY <2>1, <2>2, DropKeeps
  <1>2. CASE FindMarker
    <2>1. /\ rx_buf_ # << >> /\ rx_buf_' = Tail(rx_buf_) /\ line' = line
          /\ UNCHANGED <<sent, handled, torn>>
          /\ state_' \notin {"READING_DATA", "CMD_RECEIVED"}
      BY <1>2 DEF FindMarker, IsCanSend, historyVars
    <2>2. ASSUME NEW f \in Frames
          PROVE  /\ Count(f, line') + Count(f, rx_buf_') <= Count(f, line) + Count(f, rx_buf_)
                 /\ Holds(f)' => Holds(f)
      <3>1. Count(f, Tail(rx_buf_)) + Bit(Head(rx_buf_) = f) <= Count(f, rx_buf_)
        BY <2>1, CountTail DEF TypeOK, Rs485TypeOK
      <3>2. Bit(Head(rx_buf_) = f) \in 0..1 /\ Count(f, rx_buf_') \in Nat
        BY CountsAreNatNext DEF TypeOK, Bit
      <3>3. ~Holds(f)' BY <2>1 DEF Holds
      <3> QED BY <2>1, <3>1, <3>2, <3>3, BudgetTypes
    <2> QED BY <2>1, <2>2, DropKeeps
  <1>3. CASE ReadHdr \/ ReadData BY <1>3, ReadKeepsReplay
  <1>4. CASE \E f \in Frames : Handle(f) BY <1>4, HandleKeepsReplay
  <1>5. CASE \E f \in Frames : Send(f) BY <1>5, SendKeepsReplay
  <1>6. CASE Port
    <2>1. UNCHANGED <<sent, handled, torn>> /\ state_' = state_ /\ buf_rx_' = buf_rx_
      BY <1>6 DEF Port, procVars
    <2>2. \A f \in Frames : /\ Count(f, line') + Count(f, rx_buf_')
                                 <= Count(f, line) + Count(f, rx_buf_)
                            /\ Holds(f)' => Holds(f)
      BY <1>6, <2>1, PortCounts DEF TypeOK, Holds
    <2> QED BY <2>1, <2>2, DropKeeps
  <1>7. CASE \/ ReadTimeout \/ Ignore \/ StartWrite \/ Sent \/ Nothing \/ App \/ Tick
             \/ UNCHANGED vars
    BY <1>7, StillKeepsReplay
  <1> QED BY <1>1, <1>2, <1>3, <1>4, <1>5, <1>6, <1>7 DEF Next, Work

LEMMA InitBudget == Init => ReplayInv
  <1> SUFFICES ASSUME Init PROVE ReplayInv OBVIOUS
  <1>1. \A f \in Frames : Budget(f)
    BY CountEmpty DEF Init, Rs485Init, Budget, Holds, Bit
  <1>2. \A f \in Frames : Addressed(f) BY DEF Init, Addressed
  <1> QED BY <1>1, <1>2 DEF ReplayInv

\* However requests are damaged, lost, overrun, cut by a timeout or joined to
\* what lay in the buffers: as long as no read came up short, no command is
\* carried out more often than it was sent, nor one for another device.
THEOREM NothingIsReplayed == Spec => []NoReplayUnlessTorn
  <1>1. CmdInv => TypeOK BY DEF CmdInv
  <1>2. Spec => []ReplayInv
    <2>1. TypeOK /\ TypeOK' /\ ReplayInv /\ [Next]_vars => ReplayInv'
      BY NextKeepsReplay
    <2> QED BY <1>1, <2>1, Inductive, InitBudget, PTL DEF Spec
  <1>3. CmdInv /\ ReplayInv => NoReplayUnlessTorn
    <2> SUFFICES ASSUME TypeOK, ReplayInv, ~torn, NEW f \in Frames
                 PROVE  /\ handled[f] <= sent[f]
                        /\ handled[f] > 0 =>
                             Id[f] = Own \/ (Id[f] = All /\ Cmd[f] = "INFO")
      BY DEF CmdInv, NoReplayUnlessTorn, NoReplay, ForUs
    <2>1. Count(f, line) + Count(f, rx_buf_) + Bit(Holds(f)) + handled[f] <= sent[f]
      BY DEF ReplayInv, Budget
    <2>2. handled[f] <= sent[f] BY <2>1, BudgetTypes
    <2> QED BY <2>2 DEF ReplayInv, Addressed
  <1> QED BY <1>2, <1>3, Inductive, PTL

-----------------------------------------------------------------------------
(* Nothing is missed.  While nothing was disturbed, the symbols that are    *)
(* still to be read, in the receive buffer or on the bus, are whole requests *)
(* one after another, the first of them begun if one is being read.  A frame *)
(* as a symbol marks its place in them, so that this can be said place by    *)
(* place.  No header of a request to this device is then ever dropped.       *)

Stream == rx_buf_ \o line

\* A request begins at place q of s.
BeginsAt(s, q) == /\ q + 2 <= Len(s)
                  /\ s[q] = Marker /\ s[q + 2] \in Frames /\ s[q + 1] = Id[s[q + 2]]

\* From place q on, s is at its end or another request begins.
GoesOn(s, q) == q = Len(s) + 1 \/ BeginsAt(s, q)

\* After place p, s has the data of request f, and goes on.
DataAfter(s, p, f) == /\ p + Len(Data[f]) <= Len(s)
                      /\ \A j \in 1..Len(Data[f]) : s[p + j] = Data[f][j]
                      /\ GoesOn(s, p + Len(Data[f]) + 1)

Framed(s) == \A p \in 1..Len(s) : s[p] \in Frames => DataAfter(s, p, s[p])

HasData(b, f) == \A j \in 1..Len(Data[f]) : b[HdrLen + j] = Data[f][j]

\* How far the state machine is in the first request of s: in state st, with
\* message buffer b.
InPlace(s, st, b) ==
  /\ st \notin {"READING_HDR", "READING_DATA"} => GoesOn(s, 1)
  /\ st = "READING_HDR" => 2 <= Len(s) /\ s[2] \in Frames /\ s[1] = Id[s[2]]
  /\ st \in {"READING_DATA", "CMD_RECEIVED"} => b[2] \in Frames /\ b[1] = Id[b[2]]
  /\ st = "READING_DATA" => Len(Data[b[2]]) > 0 /\ DataAfter(s, 0, b[2])
  /\ st = "CMD_RECEIVED" => HasData(b, b[2])

\* Every request to this device that was sent is on its way or was handled.
Kept(f) == sent[f] <= Count(f, Stream) + Bit(Holds(f)) + handled[f]

CleanInv == /\ torn => disturbed
            /\ ~disturbed => /\ error_ = "NO"
                             /\ Framed(Stream) /\ InPlace(Stream, state_, buf_rx_)
                             /\ \A f \in Frames : ForUs(f) => Kept(f)

LEMMA CutShifts ==
  ASSUME NEW s \in Seq(Symbols), NEW m \in Nat, m <= Len(s)
  PROVE  /\ SubSeq(s, m + 1, Len(s)) \in Seq(Symbols)
         /\ Len(SubSeq(s, m + 1, Len(s))) = Len(s) - m
         /\ \A i \in 1..(Len(s) - m) : SubSeq(s, m + 1, Len(s))[i] = s[i + m]
  <1>1. Len(s) \in Nat BY LenProperties
  <1>2. /\ SubSeq(s, m + 1, Len(s)) \in Seq(Symbols)
        /\ Len(SubSeq(s, m + 1, Len(s))) = Len(s) - m
    BY CutIsSeq
  <1>3. ASSUME NEW i \in 1..(Len(s) - m) PROVE SubSeq(s, m + 1, Len(s))[i] = s[i + m]
    <2>1. m + 1 \in 1..Len(s) BY <1>1
    <2>2. SubSeq(s, m + 1, Len(s))[i] = s[(m + 1) + i - 1]
      BY <1>1, <1>2, <2>1, SubSeqProperties
    <2>3. (m + 1) + i - 1 = i + m BY <1>1
    <2> QED BY <2>2, <2>3
  <1> QED BY <1>2, <1>3

\* What a sequence cut at the front keeps.
LEMMA CutGoesOn ==
  ASSUME NEW s \in Seq(Symbols), NEW t \in Seq(Symbols), NEW m \in Nat,
         Len(t) = Len(s) - m, \A i \in 1..Len(t) : t[i] = s[i + m],
         NEW q \in Nat, q >= 1, GoesOn(s, q + m)
  PROVE  GoesOn(t, q)
  <1>1. Len(s) \in Nat /\ Len(t) \in Nat BY LenProperties
  <1>2. CASE q + m = Len(s) + 1 BY <1>1, <1>2 DEF GoesOn
  <1>3. CASE BeginsAt(s, q + m)
    <2>1. (q + m) + 2 <= Len(s) BY <1>3 DEF BeginsAt
    <2>2. q + 2 <= Len(t) BY <1>1, <2>1
    <2>3. /\ q \in 1..Len(t) /\ q + 1 \in 1..Len(t) /\ q + 2 \in 1..Len(t)
          /\ (q + 1) + m = (q + m) + 1 /\ (q + 2) + m = (q + m) + 2
      BY <1>1, <2>2
    <2>4. t[q] = s[q + m] /\ t[q + 1] = s[(q + m) + 1] /\ t[q + 2] = s[(q + m) + 2]
      BY <2>3
    <2> QED BY <1>3, <2>2, <2>4 DEF GoesOn, BeginsAt
  <1> QED BY <1>2, <1>3 DEF GoesOn

LEMMA CutData ==
  ASSUME NEW s \in Seq(Symbols), NEW t \in Seq(Symbols), NEW m \in Nat,
         Len(t) = Len(s) - m, \A i \in 1..Len(t) : t[i] = s[i + m],
         NEW p \in Nat, NEW f \in Frames, DataAfter(s, p + m, f)
  PROVE  DataAfter(t, p, f)
  <1>1. Len(s) \in Nat /\ Len(t) \in Nat /\ Len(Data[f]) \in Nat
    BY LenProperties, CmdProcessorAssumption DEF CmdProcessorAssumption
  <1>2. (p + m) + Len(Data[f]) <= Len(s) BY DEF DataAfter
  <1>3. p + Len(Data[f]) <= Len(t)
    <2>1. ASSUME NEW d \in Nat, (p + m) + d <= Len(s) PROVE p + d <= Len(t)
      BY <1>1, <2>1
    <2> QED BY <1>1, <1>2, <2>1
  <1>4. ASSUME NEW j \in 1..Len(Data[f]) PROVE t[p + j] = Data[f][j]
    <2>1. p + j \in 1..Len(t) /\ (p + j) + m = (p + m) + j BY <1>1, <1>3
    <2>2. s[(p + m) + j] = Data[f][j] BY DEF DataAfter
    <2> QED BY <2>1, <2>2
  <1>5. GoesOn(t, p + Len(Data[f]) + 1)
    <2>1. GoesOn(s, (p + m) + Len(Data[f]) + 1) BY DEF DataAfter
    <2>2. /\ (p + m) + Len(Data[f]) + 1 = (p + Len(Data[f]) + 1) + m
          /\ p + Len(Data[f]) + 1 \in Nat /\ p + Len(Data[f]) + 1 >= 1
      <3>1. ASSUME NEW d \in Nat
            PROVE  /\ (p + m) + d + 1 = (p + d + 1) + m
                   /\ p + d + 1 \in Nat /\ p + d + 1 >= 1
        OBVIOUS
      <3> QED BY <1>1, <3>1
    <2>3. GoesOn(s, (p + Len(Data[f]) + 1) + m) BY <2>1, <2>2
    <2> QED BY <2>2, <2>3, CutGoesOn
  <1> QED BY <1>3, <1>4, <1>5 DEF DataAfter

LEMMA CutFramed ==
  ASSUME NEW s \in Seq(Symbols), NEW t \in Seq(Symbols), NEW m \in Nat,
         Len(t) = Len(s) - m, \A i \in 1..Len(t) : t[i] = s[i + m], Framed(s)
  PROVE  Framed(t)
  <1>1. Len(s) \in Nat /\ Len(t) \in Nat BY LenProperties
  <1>2. ASSUME NEW p \in 1..Len(t), t[p] \in Frames PROVE DataAfter(t, p, t[p])
    <2>1. p \in Nat /\ p + m \in 1..Len(s) BY <1>1
    <2>2. t[p] = s[p + m] BY <1>1
    <2>3. DataAfter(s, p + m, t[p]) BY <1>2, <2>1, <2>2 DEF Framed
    <2> QED BY <1>2, <2>1, <2>3, CutData
  <1> QED BY <1>2 DEF Framed

\* What is cut off at the front takes no header of f with it, but at place k.
LEMMA CutKeepsCount ==
  ASSUME NEW s \in Seq(Symbols), NEW t \in Seq(Symbols), NEW m \in Nat, m <= Len(s),
         Len(t) = Len(s) - m, \A i \in 1..Len(t) : t[i] = s[i + m],
         NEW f, NEW k \in Nat, \A i \in 1..m : s[i] = f => i = k
  PROVE  Count(f, s) <= Count(f, t) + Bit(k \in 1..m /\ s[k] = f)
  <1> DEFINE P == {i \in Places(f, s) : i > m}
  <1> DEFINE g == [i \in P |-> i - m]
  <1>1. Len(s) \in Nat /\ Len(t) \in Nat BY LenProperties
  <1>2. /\ IsFiniteSet(Places(f, s)) /\ Count(f, s) \in Nat
        /\ IsFiniteSet(Places(f, t)) /\ Count(f, t) \in Nat
    BY PlacesFinite
  <1>3. ASSUME NEW i \in P PROVE i - m \in Places(f, t)
    <2>1. i \in 1..Len(s) /\ s[i] = f /\ i > m BY DEF Places
    <2>2. i - m \in 1..Len(t) /\ (i - m) + m = i BY <1>1, <2>1
    <2>3. t[i - m] = s[(i - m) + m] BY <2>2
    <2> QED BY <2>1, <2>2, <2>3 DEF Places
  <1>4. g \in [P -> Places(f, t)] BY <1>3
  <1>5. \A i, j \in P : g[i] = g[j] => i = j BY <1>1 DEF Places
  <1>6. g \in Injection(P, Places(f, t)) BY <1>4, <1>5 DEF Injection, IsInjective
  <1>7. Cardinality(P) <= Count(f, t) BY <1>2, <1>6, FS_Injection DEF Count
  <1>8. Places(f, s) \subseteq P \cup (IF k \in 1..m /\ s[k] = f THEN {k} ELSE {})
    <2>1. ASSUME NEW i \in Places(f, s), ~(i > m)
          PROVE  k \in 1..m /\ s[k] = f /\ i = k
      <3>1. i \in 1..m /\ s[i] = f BY <1>1, <2>1 DEF Places
      <3> QED BY <3>1
    <2> QED BY <2>1
  <1>9. IsFiniteSet(P) /\ Cardinality(P) \in Nat
    BY <1>2, FS_Subset, FS_CardinalityType
  <1> HIDE DEF P, g
  <1>10. CASE k \in 1..m /\ s[k] = f
    <2>1. /\ IsFiniteSet(P \cup {k})
          /\ Cardinality(P \cup {k}) = IF k \in P THEN Cardinality(P) ELSE Cardinality(P) + 1
      BY <1>9, FS_AddElement
    <2>2. Places(f, s) \subseteq P \cup {k} BY <1>8, <1>10
    <2>3. Cardinality(Places(f, s)) <= Cardinality(P \cup {k}) BY <2>1, <2>2, FS_Subset
    <2> QED BY <1>2, <1>7, <1>9, <1>10, <2>1, <2>3 DEF Count, Bit
  <1>11. CASE ~(k \in 1..m /\ s[k] = f)
    <2>1. Places(f, s) \subseteq P BY <1>8, <1>11
    <2>2. Cardinality(Places(f, s)) <= Cardinality(P) BY <1>9, <2>1, FS_Subset
    <2>3. Cardinality(Places(f, s)) <= Count(f, t) + 0
      BY <1>2, <1>7, <1>9, <2>2 DEF Count
    <2> QED BY <1>11, <2>3 DEF Count, Bit
  <1> QED BY <1>10, <1>11

\* What a sequence keeps when a request is put behind it.
LEMMA WirePlaces ==
  ASSUME NEW g \in Frames
  PROVE  /\ Wire(g) \in Seq(Symbols) /\ Len(Wire(g)) = 3 + Len(Data[g])
         /\ Wire(g)[1] = Marker /\ Wire(g)[2] = Id[g] /\ Wire(g)[3] = g
         /\ \A j \in 1..Len(Data[g]) : Wire(g)[3 + j] = Data[g][j]
         /\ \A j \in 1..Len(Wire(g)) : Wire(g)[j] \in Frames => j = 3
  <1> DEFINE hdr == <<Marker, Id[g], g>>
  <1>1. /\ Marker \in Symbols /\ Id[g] \in Symbols /\ g \in Symbols
        /\ Data[g] \in Seq(Symbols)
    BY CmdProcessorAssumption DEF CmdProcessorAssumption
  <1>2. hdr \in Seq(Symbols) /\ Len(hdr) = 3 /\ hdr[1] = Marker /\ hdr[2] = Id[g] /\ hdr[3] = g
    BY <1>1
  <1>3. Wire(g) = hdr \o Data[g] BY DEF Wire
  <1> HIDE DEF hdr
  <1>4. Len(Data[g]) \in Nat BY <1>1, LenProperties
  <1>5. /\ Wire(g) \in Seq(Symbols) /\ Len(Wire(g)) = 3 + Len(Data[g])
        /\ \A j \in 1..(3 + Len(Data[g])) :
             Wire(g)[j] = IF j <= 3 THEN hdr[j] ELSE Data[g][j - 3]
    <2>1. /\ hdr \o Data[g] \in Seq(Symbols) /\ Len(hdr \o Data[g]) = Len(hdr) + Len(Data[g])
          /\ \A j \in 1..(Len(hdr) + Len(Data[g])) :
               (hdr \o Data[g])[j] = IF j <= Len(hdr) THEN hdr[j] ELSE Data[g][j - Len(hdr)]
      BY <1>1, <1>2, ConcatProperties
    <2> QED BY <1>2, <1>3, <2>1
  <1>6. Wire(g)[1] = Marker /\ Wire(g)[2] = Id[g] /\ Wire(g)[3] = g
    BY <1>2, <1>4, <1>5
  <1>7. ASSUME NEW j \in 1..Len(Data[g]) PROVE Wire(g)[3 + j] = Data[g][j]
    <2>1. 3 + j \in 1..(3 + Len(Data[g])) /\ ~(3 + j <= 3) /\ (3 + j) - 3 = j BY <1>4
    <2> QED BY <1>5, <2>1
  <1>8. ASSUME NEW j \in 1..Len(Wire(g)), Wire(g)[j] \in Frames PROVE j = 3
    <2>1. CASE j > 3
      <3>1. j - 3 \in 1..Len(Data[g]) /\ ~(j <= 3) /\ j \in 1..(3 + Len(Data[g]))
        BY <1>4, <1>5, <2>1
      <3>2. Wire(g)[j] = Data[g][j - 3] BY <1>5, <3>1
      <3>3. Data[g] \in Seq(Symbols \ Frames) BY OnlyHeadersSpellFrames
      <3>4. Data[g][j - 3] \in Symbols \ Frames BY <3>1, <3>3, ElementOfSeq
      <3> QED BY <1>8, <3>2, <3>4
    <2>2. CASE j = 1 \/ j = 2
      <3>1. Marker \notin Frames /\ Id[g] \notin Frames BY OnlyHeadersSpellFrames
      <3> QED BY <1>6, <1>8, <2>2, <3>1
    <2> QED BY <1>4, <1>5, <2>1, <2>2
  <1> QED BY <1>5, <1>6, <1>7, <1>8

LEMMA GrowGoesOn ==
  ASSUME NEW s \in Seq(Symbols), NEW u \in Seq(Symbols), NEW g \in Frames,
         Len(u) = Len(s) + Len(Wire(g)), \A i \in 1..Len(s) : u[i] = s[i],
         \A j \in 1..Len(Wire(g)) : u[Len(s) + j] = Wire(g)[j],
         NEW q \in Nat, q >= 1, GoesOn(s, q)
  PROVE  GoesOn(u, q)
  <1>1. Len(s) \in Nat /\ Len(u) \in Nat /\ Len(Data[g]) \in Nat
    BY LenProperties, CmdProcessorAssumption DEF CmdProcessorAssumption
  <1>2. /\ Len(Wire(g)) = 3 + Len(Data[g])
        /\ Wire(g)[1] = Marker /\ Wire(g)[2] = Id[g] /\ Wire(g)[3] = g
    BY WirePlaces
  <1>3. CASE q = Len(s) + 1
    <2>1. 1 \in 1..Len(Wire(g)) /\ 2 \in 1..Len(Wire(g)) /\ 3 \in 1..Len(Wire(g))
          /\ Len(s) + 3 <= Len(u)
      BY <1>1, <1>2
    <2>2. /\ u[Len(s) + 1] = Marker /\ u[Len(s) + 2] = Id[g] /\ u[Len(s) + 3] = g
      BY <1>2, <2>1
    <2>3. q + 1 = Len(s) + 2 /\ q + 2 = Len(s) + 3 BY <1>1, <1>3
    <2> QED BY <1>3, <2>1, <2>2, <2>3 DEF GoesOn, BeginsAt
  <1>4. CASE BeginsAt(s, q)
    <2>1. q + 2 <= Len(s) /\ s[q] = Marker /\ s[q + 2] \in Frames /\ s[q + 1] = Id[s[q + 2]]
      BY <1>4 DEF BeginsAt
    <2>2. q \in 1..Len(s) /\ q + 1 \in 1..Len(s) /\ q + 2 \in 1..Len(s) BY <1>1, <2>1
    <2>3. Len(s) <= Len(u)
      <3>1. ASSUME NEW d \in Nat, Len(u) = Len(s) + (3 + d) PROVE Len(s) <= Len(u)
        BY <1>1, <3>1
      <3> QED BY <1>1, <1>2, <3>1
    <2>4. q + 2 <= Len(u) BY <1>1, <2>2, <2>3
    <2>5. u[q] = s[q] /\ u[q + 1] = s[q + 1] /\ u[q + 2] = s[q + 2] BY <2>2
    <2> QED BY <2>1, <2>4, <2>5 DEF GoesOn, BeginsAt
  <1> QED BY <1>3, <1>4 DEF GoesOn

LEMMA GrowData ==
  ASSUME NEW s \in Seq(Symbols), NEW u \in Seq(Symbols), NEW g \in Frames,
         Len(u) = Len(s) + Len(Wire(g)), \A i \in 1..Len(s) : u[i] = s[i],
         \A j \in 1..Len(Wire(g)) : u[Len(s) + j] = Wire(g)[j],
         NEW p \in Nat, NEW f \in Frames, DataAfter(s, p, f)
  PROVE  DataAfter(u, p, f)
  <1>1. Len(s) \in Nat /\ Len(u) \in Nat /\ Len(Data[f]) \in Nat /\ Len(Wire(g)) \in Nat
    BY LenProperties, CmdProcessorAssumption, WireIsSeq DEF CmdProcessorAssumption
  <1>2. p + Len(Data[f]) <= Len(s) BY DEF DataAfter
  <1>3. p + Len(Data[f]) <= Len(u)
    <2>1. ASSUME NEW d \in Nat, NEW w \in Nat, Len(u) = Len(s) + w, p + d <= Len(s)
          PROVE  p + d <= Len(u)
      BY <1>1, <2>1
    <2> QED BY <1>1, <1>2, <2>1
  <1>4. ASSUME NEW j \in 1..Len(Data[f]) PROVE u[p + j] = Data[f][j]
    <2>1. p + j \in 1..Len(s) BY <1>1, <1>2
    <2>2. s[p + j] = Data[f][j] BY DEF DataAfter
    <2> QED BY <2>1, <2>2
  <1>5. p + Len(Data[f]) + 1 \in Nat /\ p + Len(Data[f]) + 1 >= 1 BY <1>1
  <1>6. GoesOn(s, p + Len(Data[f]) + 1) BY DEF DataAfter
  <1>7. GoesOn(u, p + Len(Data[f]) + 1) BY <1>5, <1>6, GrowGoesOn
  <1> QED BY <1>3, <1>4, <1>7 DEF DataAfter

LEMMA GrowFramed ==
  ASSUME NEW s \in Seq(Symbols), NEW u \in Seq(Symbols), NEW g \in Frames,
         Len(u) = Len(s) + Len(Wire(g)), \A i \in 1..Len(s) : u[i] = s[i],
         \A j \in 1..Len(Wire(g)) : u[Len(s) + j] = Wire(g)[j], Framed(s)
  PROVE  Framed(u)
  <1>1. Len(s) \in Nat /\ Len(u) \in Nat /\ Len(Data[g]) \in Nat
    BY LenProperties, CmdProcessorAssumption DEF CmdProcessorAssumption
  <1>2. /\ Len(Wire(g)) = 3 + Len(Data[g]) /\ Wire(g)[3] = g
        /\ \A j \in 1..Len(Data[g]) : Wire(g)[3 + j] = Data[g][j]
        /\ \A j \in 1..Len(Wire(g)) : Wire(g)[j] \in Frames => j = 3
    BY WirePlaces
  <1>3. ASSUME NEW p \in 1..Len(u), u[p] \in Frames PROVE DataAfter(u, p, u[p])
    <2>1. CASE p <= Len(s)
      <3>1. p \in 1..Len(s) /\ p \in Nat BY <1>1, <2>1
      <3>2. u[p] = s[p] /\ DataAfter(s, p, u[p]) BY <1>3, <3>1 DEF Framed
      <3> QED BY <1>3, <3>1, <3>2, GrowData
    <2>2. CASE ~(p <= Len(s))
      <3>1. p - Len(s) \in 1..Len(Wire(g)) /\ Len(s) + (p - Len(s)) = p
        BY <1>1, <1>2, <2>2
      <3>2. u[p] = Wire(g)[p - Len(s)] BY <3>1
      <3>3. p - Len(s) = 3 BY <1>2, <1>3, <3>1, <3>2
      <3>4. u[p] = g BY <1>2, <3>2, <3>3
      <3>5. p = Len(s) + 3 BY <1>1, <3>3
      <3>6. /\ p + Len(Data[g]) = Len(u) /\ p + Len(Data[g]) + 1 = Len(u) + 1
            /\ \A j \in 1..Len(Data[g]) :
                 3 + j \in 1..Len(Wire(g)) /\ Len(s) + (3 + j) = p + j
        <4>1. ASSUME NEW d \in Nat, NEW n \in Nat
              PROVE  /\ (n + 3) + d = n + (3 + d) /\ (n + 3) + d + 1 = n + (3 + d) + 1
                     /\ \A j \in 1..d : 3 + j \in 1..(3 + d) /\ n + (3 + j) = (n + 3) + j
          OBVIOUS
        <4> QED BY <1>1, <1>2, <3>5, <4>1
      <3>7. ASSUME NEW j \in 1..Len(Data[g]) PROVE u[p + j] = Data[g][j]
        <4>1. 3 + j \in 1..Len(Wire(g)) /\ Len(s) + (3 + j) = p + j BY <3>6
        <4>2. u[Len(s) + (3 + j)] = Wire(g)[3 + j] BY <4>1
        <4> QED BY <1>2, <4>1, <4>2
      <3>8. p + Len(Data[g]) <= Len(u) BY <1>1, <3>6
      <3> QED BY <3>4, <3>6, <3>7, <3>8 DEF DataAfter, GoesOn
    <2> QED BY <2>1, <2>2
  <1> QED BY <1>3 DEF Framed

\* One header more, none less.
LEMMA GrowCount ==
  ASSUME NEW s \in Seq(Symbols), NEW u \in Seq(Symbols), NEW g \in Frames,
         Len(u) = Len(s) + Len(Wire(g)), \A i \in 1..Len(s) : u[i] = s[i],
         \A j \in 1..Len(Wire(g)) : u[Len(s) + j] = Wire(g)[j], NEW f
  PROVE  Count(f, s) + Bit(f = g) <= Count(f, u)
  <1> DEFINE h == [i \in 1..Len(s) |-> i]
  <1>1. Len(s) \in Nat /\ Len(u) \in Nat /\ Len(Data[g]) \in Nat
    BY LenProperties, CmdProcessorAssumption DEF CmdProcessorAssumption
  <1>2. Len(Wire(g)) = 3 + Len(Data[g]) /\ Wire(g)[3] = g BY WirePlaces
  <1>3. Len(s) + 3 \in 1..Len(u) /\ 3 \in 1..Len(Wire(g)) BY <1>1, <1>2
  <1>4. u[Len(s) + 3] = g BY <1>2, <1>3
  <1>5. 1..Len(s) \subseteq 1..Len(u)
    <2>1. ASSUME NEW d \in Nat, Len(u) = Len(s) + (3 + d) PROVE 1..Len(s) \subseteq 1..Len(u)
      BY <1>1, <2>1
    <2> QED BY <1>1, <1>2, <2>1
  <1>6. h \in [1..Len(s) -> 1..Len(u)] BY <1>5
  <1>7. \A i, j \in 1..Len(s) : h[i] = h[j] => i = j OBVIOUS
  <1>8. \A i \in 1..Len(s) : s[i] = f => u[h[i]] = f OBVIOUS
  <1>9. \A i \in 1..Len(s) : h[i] # Len(s) + 3 BY <1>1
  <1>10. Count(f, s) \in Nat /\ Count(f, u) \in Nat BY PlacesFinite
  <1> HIDE DEF h
  <1>11. /\ Count(f, s) <= Count(f, u)
         /\ \A k \in 1..Len(u) :
              u[k] = f /\ (\A i \in 1..Len(s) : h[i] # k) => Count(f, s) + 1 <= Count(f, u)
    BY <1>6, <1>7, <1>8, CountInto
  <1>12. f = g => Count(f, s) + 1 <= Count(f, u) BY <1>3, <1>4, <1>9, <1>11
  <1> QED BY <1>10, <1>11, <1>12 DEF Bit

-----------------------------------------------------------------------------
(* What is still to be read is one sequence: a symbol that arrives stays in *)
(* it, and a read takes its first symbols, wherever the interrupt falls.    *)

LEMMA StreamPlaces ==
  ASSUME NEW a \in Seq(Symbols), NEW b \in Seq(Symbols)
  PROVE  /\ a \o b \in Seq(Symbols) /\ Len(a) \in Nat /\ Len(b) \in Nat
         /\ Len(a \o b) = Len(a) + Len(b)
         /\ \A i \in 1..Len(a) : (a \o b)[i] = a[i]
         /\ \A j \in 1..Len(b) : (a \o b)[Len(a) + j] = b[j]
  <1>1. Len(a) \in Nat /\ Len(b) \in Nat BY LenProperties
  <1>2. /\ a \o b \in Seq(Symbols) /\ Len(a \o b) = Len(a) + Len(b)
        /\ \A i \in 1..(Len(a) + Len(b)) :
             (a \o b)[i] = IF i <= Len(a) THEN a[i] ELSE b[i - Len(a)]
    BY ConcatProperties
  <1>3. ASSUME NEW i \in 1..Len(a) PROVE (a \o b)[i] = a[i]
    <2>1. i \in 1..(Len(a) + Len(b)) /\ i <= Len(a) BY <1>1
    <2> QED BY <1>2, <2>1
  <1>4. ASSUME NEW j \in 1..Len(b) PROVE (a \o b)[Len(a) + j] = b[j]
    <2>1. /\ Len(a) + j \in 1..(Len(a) + Len(b)) /\ ~(Len(a) + j <= Len(a))
          /\ (Len(a) + j) - Len(a) = j
      BY <1>1
    <2> QED BY <1>2, <2>1
  <1> QED BY <1>1, <1>2, <1>3, <1>4

LEMMA ArriveStream ==
  ASSUME Rs485TypeOK, line # << >>, line' = Tail(line), rx_buf_' = Append(rx_buf_, Head(line))
  PROVE  Stream' = Stream
  <1>1. /\ Head(line) \in Symbols /\ Tail(line) \in Seq(Symbols)
        /\ line \in Seq(Symbols) /\ rx_buf_ \in Seq(Symbols)
    BY TailIsSeq DEF Rs485TypeOK
  <1>2. Append(rx_buf_, Head(line)) = rx_buf_ \o <<Head(line)>> BY <1>1, AppendIsConcat
  <1>3. <<Head(line)>> \in Seq(Symbols) BY <1>1
  <1>4. <<Head(line)>> \o Tail(line) = line
    <2>1. /\ Len(line) \in Nat /\ Len(Tail(line)) = Len(line) - 1 /\ Head(line) = line[1]
          /\ \A i \in 1..Len(Tail(line)) : Tail(line)[i] = line[i + 1]
      BY <1>1, HeadTailProperties, LenProperties
    <2>2. Len(<<Head(line)>>) = 1 /\ <<Head(line)>>[1] = Head(line) OBVIOUS
    <2>3. /\ <<Head(line)>> \o Tail(line) \in Seq(Symbols)
          /\ Len(<<Head(line)>> \o Tail(line)) = Len(line)
          /\ \A i \in 1..1 : (<<Head(line)>> \o Tail(line))[i] = <<Head(line)>>[i]
          /\ \A j \in 1..Len(Tail(line)) : (<<Head(line)>> \o Tail(line))[1 + j] = Tail(line)[j]
      <3>1. /\ <<Head(line)>> \o Tail(line) \in Seq(Symbols)
            /\ Len(<<Head(line)>> \o Tail(line)) = Len(<<Head(line)>>) + Len(Tail(line))
            /\ \A i \in 1..Len(<<Head(line)>>) :
                 (<<Head(line)>> \o Tail(line))[i] = <<Head(line)>>[i]
            /\ \A j \in 1..Len(Tail(line)) :
                 (<<Head(line)>> \o Tail(line))[Len(<<Head(line)>>) + j] = Tail(line)[j]
        BY <1>1, <1>3, StreamPlaces
      <3>2. 1 + Len(Tail(line)) = Len(line) BY <2>1
      <3> QED BY <2>2, <3>1, <3>2
    <2>4. ASSUME NEW i \in 1..Len(line)
          PROVE  (<<Head(line)>> \o Tail(line))[i] = line[i]
      <3>1. CASE i = 1 BY <2>1, <2>2, <2>3, <3>1
      <3>2. CASE i # 1
        <4>1. i - 1 \in 1..Len(Tail(line)) /\ 1 + (i - 1) = i /\ (i - 1) + 1 = i
          BY <2>1, <3>2
        <4>2. (<<Head(line)>> \o Tail(line))[1 + (i - 1)] = Tail(line)[i - 1]
          BY <2>3, <4>1
        <4>3. Tail(line)[i - 1] = line[(i - 1) + 1] BY <2>1, <4>1
        <4> QED BY <4>1, <4>2, <4>3
      <3> QED BY <3>1, <3>2
    <2> QED BY <1>1, <2>3, <2>4, SeqEqual
  <1>5. (rx_buf_ \o <<Head(line)>>) \o Tail(line) = rx_buf_ \o (<<Head(line)>> \o Tail(line))
    BY <1>1, <1>3, ConcatAssociative
  <1> QED BY <1>2, <1>4, <1>5 DEF Stream

\* The first m symbols are taken from the first part.
LEMMA CutStream ==
  ASSUME NEW a \in Seq(Symbols), NEW b \in Seq(Symbols), NEW m \in Nat, m <= Len(a)
  PROVE  /\ SubSeq(a, m + 1, Len(a)) \o b \in Seq(Symbols) /\ m <= Len(a \o b)
         /\ Len(SubSeq(a, m + 1, Len(a)) \o b) = Len(a \o b) - m
         /\ \A i \in 1..Len(SubSeq(a, m + 1, Len(a)) \o b) :
              (SubSeq(a, m + 1, Len(a)) \o b)[i] = (a \o b)[i + m]
  <1> DEFINE t == SubSeq(a, m + 1, Len(a))
  <1>1. /\ t \in Seq(Symbols) /\ Len(t) = Len(a) - m
        /\ \A i \in 1..(Len(a) - m) : t[i] = a[i + m]
    BY CutShifts
  <1> HIDE DEF t
  <1>2. /\ Len(a) \in Nat /\ Len(b) \in Nat /\ Len(a \o b) = Len(a) + Len(b)
        /\ \A i \in 1..Len(a) : (a \o b)[i] = a[i]
        /\ \A j \in 1..Len(b) : (a \o b)[Len(a) + j] = b[j]
    BY StreamPlaces
  <1>3. /\ t \o b \in Seq(Symbols) /\ Len(t \o b) = Len(t) + Len(b)
        /\ \A i \in 1..Len(t) : (t \o b)[i] = t[i]
        /\ \A j \in 1..Len(b) : (t \o b)[Len(t) + j] = b[j]
    BY <1>1, StreamPlaces
  <1>4. Len(t \o b) = Len(a \o b) - m /\ m <= Len(a \o b) BY <1>1, <1>2, <1>3
  <1>5. ASSUME NEW i \in 1..Len(t \o b) PROVE (t \o b)[i] = (a \o b)[i + m]
    <2>1. CASE i <= Len(t)
      <3>1. i \in 1..Len(t) /\ i \in 1..(Len(a) - m) /\ i + m \in 1..Len(a)
        BY <1>1, <1>2, <2>1
      <3> QED BY <1>1, <1>2, <1>3, <3>1
    <2>2. CASE ~(i <= Len(t))
      <3>1. /\ i - Len(t) \in 1..Len(b) /\ Len(t) + (i - Len(t)) = i
            /\ Len(a) + (i - Len(t)) = i + m
        BY <1>1, <1>2, <1>3, <2>2
      <3>2. /\ (t \o b)[Len(t) + (i - Len(t))] = b[i - Len(t)]
            /\ (a \o b)[Len(a) + (i - Len(t))] = b[i - Len(t)]
        BY <1>2, <1>3, <3>1
      <3> QED BY <3>1, <3>2
    <2> QED BY <2>1, <2>2
  <1> QED BY <1>3, <1>4, <1>5 DEF t

LEMMA ReadStream ==
  ASSUME Rs485TypeOK, NEW n \in Nat, HasRxData(n), ReadRxData(n), ~(Len(RxData(n)) < n)
  PROVE  /\ n <= Len(Stream) /\ Len(RxData(n)) = n
         /\ Stream' \in Seq(Symbols) /\ Len(Stream') = Len(Stream) - n
         /\ \A i \in 1..Len(Stream') : Stream'[i] = Stream[i + n]
         /\ \A k \in 1..n : RxData(n)[k] = Stream[k]
  <1>0. /\ line \in Seq(Symbols) /\ rx_buf_ \in Seq(Symbols)
        /\ Len(rx_buf_) \in Nat /\ Len(line) \in Nat /\ Len(Stream) = Len(rx_buf_) + Len(line)
        /\ \A i \in 1..Len(rx_buf_) : Stream[i] = rx_buf_[i]
        /\ \A j \in 1..Len(line) : Stream[Len(rx_buf_) + j] = line[j]
    BY StreamPlaces DEF Rs485TypeOK, Stream
  <1>1. CASE Len(rx_buf_) >= n
    <2>1. /\ line' = line /\ rx_buf_' = SubSeq(rx_buf_, n + 1, Len(rx_buf_))
          /\ RxData(n) = SubSeq(rx_buf_, 1, n)
      BY <1>1 DEF ReadRxData, RxData
    <2>2. \A i \in 1..n : rx_buf_[i] \in Symbols
      BY <1>0, <1>1, ElementOfSeq
    <2>3. Len(RxData(n)) = n /\ \A k \in 1..n : RxData(n)[k] = rx_buf_[k]
      <3>1. /\ Len(SubSeq(rx_buf_, 1, n)) = IF 1 <= n THEN n - 1 + 1 ELSE 0
            /\ \A i \in 1..(n - 1 + 1) : SubSeq(rx_buf_, 1, n)[i] = rx_buf_[1 + i - 1]
        BY <2>2, SubSeqProperties
      <3>2. n - 1 + 1 = n /\ \A i \in 1..n : 1 + i - 1 = i OBVIOUS
      <3> QED BY <2>1, <3>1, <3>2
    <2>4. \A k \in 1..n : RxData(n)[k] = Stream[k] BY <1>0, <1>1, <2>3
    <2> QED BY <1>0, <1>1, <2>1, <2>3, <2>4, CutStream DEF Stream
  <1>2. CASE ~(Len(rx_buf_) >= n)
    <2>1. /\ line # << >> /\ line' = Tail(line) /\ rx_buf_' = << >>
          /\ RxData(n) = Append(rx_buf_, Head(line))
      BY <1>2 DEF ReadRxData, RxData, HasRxData, SizeFooled
    <2>2. /\ Head(line) \in Symbols /\ Head(line) = line[1]
          /\ Tail(line) \in Seq(Symbols) /\ Len(Tail(line)) = Len(line) - 1
          /\ \A i \in 1..Len(Tail(line)) : Tail(line)[i] = line[i + 1]
      BY <1>0, <2>1, HeadTailProperties
    <2>3. /\ Len(RxData(n)) = Len(rx_buf_) + 1
          /\ \A i \in 1..Len(rx_buf_) : RxData(n)[i] = rx_buf_[i]
          /\ RxData(n)[Len(rx_buf_) + 1] = line[1]
      BY <1>0, <2>1, <2>2, AppendProperties
    <2>4. n = Len(rx_buf_) + 1 BY <1>0, <1>2, <2>3
    <2>5. Stream' = Tail(line)
      BY <2>1, <2>2, ConcatEmptySeq DEF Stream
    <2>6. Len(line) >= 1 /\ 1 \in 1..Len(line)
      <3>1. Len(Tail(line)) \in Nat BY <2>2, LenProperties
      <3> QED BY <1>0, <2>2, <3>1
    <2>7. ASSUME NEW i \in 1..Len(Stream') PROVE Stream'[i] = Stream[i + n]
      <3>1. i + 1 \in 1..Len(line) /\ i + n = Len(rx_buf_) + (i + 1)
        BY <1>0, <2>2, <2>4, <2>5
      <3>2. Stream'[i] = line[i + 1] BY <2>2, <2>5
      <3>3. Stream[Len(rx_buf_) + (i + 1)] = line[i + 1] BY <1>0, <3>1
      <3> QED BY <3>1, <3>2, <3>3
    <2>8. ASSUME NEW k \in 1..n PROVE RxData(n)[k] = Stream[k]
      <3>1. CASE k = n
        <4>1. Stream[Len(rx_buf_) + 1] = line[1] BY <1>0, <2>6
        <4> QED BY <2>3, <2>4, <3>1, <4>1
      <3>2. CASE k # n
        <4>1. k \in 1..Len(rx_buf_) BY <1>0, <2>4, <3>2
        <4> QED BY <1>0, <2>3, <4>1
      <3> QED BY <3>1, <3>2
    <2>9. n <= Len(Stream) /\ Len(Stream') = Len(Stream) - n /\ Len(RxData(n)) = n
      BY <1>0, <2>2, <2>3, <2>4, <2>5, <2>6
    <2> QED BY <2>2, <2>5, <2>7, <2>8, <2>9
  <1> QED BY <1>1, <1>2

-----------------------------------------------------------------------------
(* The steps.                                                               *)

LEMMA CleanNext ==
  ASSUME torn' => disturbed',
         ~disturbed' => /\ error_' = "NO"
                        /\ Framed(Stream') /\ InPlace(Stream', state_', buf_rx_')
                        /\ \A f \in Frames :
                             ForUs(f) => sent'[f] <= Count(f, Stream') + Bit(Holds(f)') + handled'[f]
  PROVE  CleanInv'
  BY DEF CleanInv, Framed, InPlace, DataAfter, GoesOn, BeginsAt, HasData, ForUs, Kept,
         Count, Places, Bit, Holds

LEMMA StreamTypes ==
  ASSUME Rs485TypeOK PROVE Stream \in Seq(Symbols) /\ Len(Stream) \in Nat
  BY StreamPlaces, LenProperties DEF Rs485TypeOK, Stream

\* The numbers in Kept.
LEMMA KeptTypes ==
  ASSUME TypeOK, NEW f \in Frames
  PROVE  /\ Count(f, Stream) \in Nat /\ Bit(Holds(f)) \in 0..1
         /\ handled[f] \in Nat /\ sent[f] \in Nat
  <1>1. Stream \in Seq(Symbols) BY StreamTypes DEF TypeOK
  <1> QED BY <1>1, PlacesFinite, BudgetTypes

\* The header of a request that is read is not lost: of the symbols that go,
\* only place k holds one, and then the message buffer holds it.
LEMMA CutKeepsAll ==
  ASSUME TypeOK, Stream' \in Seq(Symbols), NEW m \in Nat, m <= Len(Stream),
         Len(Stream') = Len(Stream) - m, \A i \in 1..Len(Stream') : Stream'[i] = Stream[i + m],
         NEW f \in Frames, NEW k \in Nat, \A i \in 1..m : Stream[i] = f => i = k,
         Bit(k \in 1..m /\ Stream[k] = f) + Bit(Holds(f)) <= Bit(Holds(f)'),
         UNCHANGED <<sent, handled>>, Kept(f)
  PROVE  sent'[f] <= Count(f, Stream') + Bit(Holds(f)') + handled'[f]
  <1>1. Stream \in Seq(Symbols) BY StreamTypes DEF TypeOK
  <1>2. Count(f, Stream) <= Count(f, Stream') + Bit(k \in 1..m /\ Stream[k] = f)
    BY <1>1, CutKeepsCount DEF Bit
  <1>3. /\ Count(f, Stream') \in Nat /\ Bit(Holds(f)') \in 0..1
        /\ Bit(k \in 1..m /\ Stream[k] = f) \in 0..1
    BY PlacesFinite DEF Bit
  <1>4. sent[f] <= Count(f, Stream) + Bit(Holds(f)) + handled[f] BY DEF Kept
  <1>5. sent[f] <= Count(f, Stream') + Bit(Holds(f)') + handled[f]
    BY <1>2, <1>3, <1>4, KeptTypes
  <1> QED BY <1>5

\* The steps that leave what is still to be read alone.
LEMMA StillKeepsClean ==
  ASSUME CleanInv, UNCHANGED <<sent, handled, torn, buf_rx_>>, disturbed => disturbed',
         ~disturbed' => Stream' = Stream /\ error_' = error_,
         \/ state_' = state_
         \/ /\ state_ \notin {"READING_HDR", "READING_DATA", "CMD_RECEIVED"}
            /\ state_' \notin {"READING_HDR", "READING_DATA", "CMD_RECEIVED"}
  PROVE  CleanInv'
  <1>1. torn' => disturbed' BY DEF CleanInv
  <1>2. ASSUME ~disturbed'
        PROVE  /\ error_' = "NO"
               /\ Framed(Stream') /\ InPlace(Stream', state_', buf_rx_')
               /\ \A f \in Frames :
                    ForUs(f) => sent'[f] <= Count(f, Stream') + Bit(Holds(f)') + handled'[f]
    <2>1. ~disturbed /\ Stream' = Stream /\ error_' = error_ BY <1>2
    <2>2. error_ = "NO" /\ Framed(Stream) /\ InPlace(Stream, state_, buf_rx_)
      BY <2>1 DEF CleanInv
    <2>3. InPlace(Stream, state_', buf_rx_) BY <2>2 DEF InPlace
    <2>4. \A f \in Frames : Holds(f)' <=> Holds(f) BY DEF Holds
    <2>5. \A f \in Frames : Bit(Holds(f)') = Bit(Holds(f)) BY <2>4 DEF Bit
    <2>6. \A f \in Frames : ForUs(f) => Kept(f) BY <2>1 DEF CleanInv
    <2> QED BY <2>1, <2>2, <2>3, <2>5, <2>6 DEF Kept
  <1> QED BY <1>1, <1>2, CleanNext

LEMMA PortKeepsClean == ASSUME TypeOK, CleanInv, Port PROVE CleanInv'
  <1>1. UNCHANGED <<procVars, sent, handled, torn>> BY DEF Port
  <1>2. CASE Arrive /\ disturbed' = (disturbed \/ UNCHANGED rx_buf_)
    <2>1. ASSUME ~disturbed' PROVE Stream' = Stream /\ error_' = error_
      <3>1. ~UNCHANGED rx_buf_ BY <1>2, <2>1
      <3>2. /\ line # << >> /\ line' = Tail(line) /\ error_' = error_
            /\ rx_buf_' = Append(rx_buf_, Head(line))
        BY <1>2, <3>1 DEF Arrive, IrqHandleRx
      <3> QED BY <3>2, ArriveStream DEF TypeOK
    <2> QED BY <1>1, <1>2, <2>1, StillKeepsClean DEF procVars
  <1>3. CASE disturbed' = TRUE BY <1>1, <1>3, CleanNext
  <1>4. CASE IrqHandleTx /\ UNCHANGED disturbed
    BY <1>1, <1>4, StillKeepsClean DEF IrqHandleTx, Stream, procVars
  <1> QED BY <1>2, <1>3, <1>4 DEF Port

\* The first symbol looked at is a marker, and a request follows it.
LEMMA FindMarkerKeepsClean ==
  ASSUME TypeOK, CleanInv, FindMarker
  PROVE  CleanInv'
  <1>1. /\ rx_buf_ # << >> /\ rx_buf_' = Tail(rx_buf_) /\ line' = line /\ error_' = error_
        /\ state_ \in {"NO", "BAD_CRC", "MSG_SENDED"}
        /\ Head(rx_buf_) = Marker => state_' = "READING_HDR"
        /\ UNCHANGED <<buf_rx_, sent, handled, torn, disturbed>>
    BY DEF FindMarker, IsCanSend, historyVars
  <1>2. torn' => disturbed' BY <1>1 DEF CleanInv
  <1>3. rx_buf_ \in Seq(Symbols) /\ line \in Seq(Symbols) BY DEF TypeOK, Rs485TypeOK
  <1>4. Len(rx_buf_) \in Nat /\ 1 <= Len(rx_buf_) BY <1>1, <1>3, LenProperties, EmptySeq
  <1>5. /\ Stream \in Seq(Symbols) /\ Stream' \in Seq(Symbols) /\ 1 <= Len(Stream)
        /\ Len(Stream) \in Nat /\ Len(Stream') = Len(Stream) - 1
        /\ \A i \in 1..Len(Stream') : Stream'[i] = Stream[i + 1]
    <2>1. Tail(rx_buf_) = SubSeq(rx_buf_, 1 + 1, Len(rx_buf_))
      BY <1>1, <1>3, TailIsSubSeq
    <2> QED BY <1>1, <1>3, <1>4, <2>1, CutStream, StreamTypes DEF Stream, TypeOK
  <1>6. ASSUME ~disturbed'
        PROVE  /\ error_' = "NO"
               /\ Framed(Stream') /\ InPlace(Stream', state_', buf_rx_')
               /\ \A f \in Frames :
                    ForUs(f) => sent'[f] <= Count(f, Stream') + Bit(Holds(f)') + handled'[f]
    <2>1. /\ error_ = "NO" /\ Framed(Stream) /\ InPlace(Stream, state_, buf_rx_)
          /\ \A f \in Frames : ForUs(f) => Kept(f)
      BY <1>1, <1>6 DEF CleanInv
    <2>2. GoesOn(Stream, 1) BY <1>1, <2>1 DEF InPlace
    <2>3. BeginsAt(Stream, 1) BY <1>5, <2>2 DEF GoesOn
    <2>4. /\ 3 <= Len(Stream) /\ Stream[1] = Marker
          /\ Stream[3] \in Frames /\ Stream[2] = Id[Stream[3]]
      BY <2>3 DEF BeginsAt
    <2>5. Head(rx_buf_) = Stream[1]
      <3>1. Head(rx_buf_) = rx_buf_[1] BY <1>1, <1>3, HeadTailProperties
      <3>2. Stream[1] = rx_buf_[1]
        <4>1. \A i \in 1..Len(rx_buf_) : (rx_buf_ \o line)[i] = rx_buf_[i]
          BY <1>3, StreamPlaces
        <4> QED BY <1>4, <4>1 DEF Stream
      <3> QED BY <3>1, <3>2
    <2>6. state_' = "READING_HDR" BY <1>1, <2>4, <2>5
    <2>7. 2 <= Len(Stream') /\ Stream'[1] = Stream[2] /\ Stream'[2] = Stream[3]
      <3>1. 2 <= Len(Stream') /\ 1 \in 1..Len(Stream') /\ 2 \in 1..Len(Stream')
        BY <1>5, <2>4
      <3>2. Stream'[1] = Stream[1 + 1] /\ Stream'[2] = Stream[2 + 1] BY <1>5, <3>1
      <3> QED BY <3>1, <3>2
    <2>8. InPlace(Stream', state_', buf_rx_') BY <2>4, <2>6, <2>7 DEF InPlace
    <2>9. Framed(Stream') BY <1>5, <2>1, CutFramed
    <2>10. ASSUME NEW f \in Frames, ForUs(f)
           PROVE  sent'[f] <= Count(f, Stream') + Bit(Holds(f)') + handled'[f]
      <3>1. \A i \in 1..1 : Stream[i] = f => i = 0
        BY <2>4, OnlyHeadersSpellFrames
      <3>2. ~Holds(f) /\ ~Holds(f)' BY <1>1, <2>6 DEF Holds
      <3>3. Bit(0 \in 1..1 /\ Stream[0] = f) = 0 BY DEF Bit
      <3>4. Bit(Holds(f)) = 0 /\ Bit(Holds(f)') = 0 BY <3>2 DEF Bit
      <3>5. Bit(0 \in 1..1 /\ Stream[0] = f) + Bit(Holds(f)) <= Bit(Holds(f)')
        BY <3>3, <3>4
      <3>6. Kept(f) BY <2>1, <2>10
      <3> QED BY <1>1, <1>5, <3>1, <3>5, <3>6, CutKeepsAll
    <2> QED BY <1>1, <2>1, <2>8, <2>9, <2>10
  <1> QED BY <1>2, <1>6, CleanNext

\* While a request is being read the rest of it is still to come, so that a
\* timeout cuts it.
LEMMA ReadTimeoutKeepsClean ==
  ASSUME TypeOK, CleanInv, ReadTimeout
  PROVE  CleanInv'
  <1>1. /\ state_ \in {"READING_HDR", "READING_DATA"} /\ torn' = torn
        /\ disturbed' = (disturbed \/ line # << >> \/ rx_buf_ # << >>)
    BY DEF ReadTimeout, Reading
  <1>2. torn' => disturbed' BY <1>1 DEF CleanInv
  <1>3. ASSUME ~disturbed' PROVE FALSE
    <2>1. ~disturbed /\ line = << >> /\ rx_buf_ = << >> BY <1>1, <1>3
    <2>2. Len(Stream) = 0
      <3>1. << >> \in Seq(Symbols) /\ Len(<< >>) = 0 BY EmptySeq
      <3> QED BY <2>1, <3>1, ConcatEmptySeq DEF Stream
    <2>3. InPlace(Stream, state_, buf_rx_) BY <2>1 DEF CleanInv
    <2>4. CASE state_ = "READING_HDR" BY <2>2, <2>3, <2>4 DEF InPlace
    <2>5. CASE state_ = "READING_DATA"
      <3>1. /\ buf_rx_[2] \in Frames /\ Len(Data[buf_rx_[2]]) > 0
            /\ 0 + Len(Data[buf_rx_[2]]) <= Len(Stream)
        BY <2>3, <2>5 DEF InPlace, DataAfter
      <3>2. Len(Data[buf_rx_[2]]) \in Nat
        BY <3>1, LenProperties, CmdProcessorAssumption DEF CmdProcessorAssumption
      <3> QED BY <2>2, <3>1, <3>2
    <2> QED BY <1>1, <2>4, <2>5
  <1> QED BY <1>2, <1>3, CleanNext

\* The header that is read is a request's, whole.
LEMMA ReadHdrKeepsClean ==
  ASSUME TypeOK, CleanInv, ReadHdr
  PROVE  CleanInv'
  <1>1. /\ HasRxData(2) /\ ReadRxData(2) /\ buf_rx_' = Overlay(0, RxData(2))
        /\ state_ = "READING_HDR" /\ error_ = "NO"
        /\ state_' = IF SizeOf[buf_rx_'[2]] > 0 THEN "READING_DATA" ELSE "CMD_RECEIVED"
        /\ torn' = (torn \/ Len(RxData(2)) < 2)
        /\ disturbed' = (disturbed \/ Len(RxData(2)) < 2)
        /\ UNCHANGED <<sent, handled>>
    BY DEF ReadHdr, ReadPart, HdrLen, Step
  <1>2. torn' => disturbed' BY <1>1 DEF CleanInv
  <1>3. error_' = "NO" BY <1>1 DEF ReadRxData
  <1>4. ASSUME ~disturbed'
        PROVE  /\ Framed(Stream') /\ InPlace(Stream', state_', buf_rx_')
               /\ \A f \in Frames :
                    ForUs(f) => sent'[f] <= Count(f, Stream') + Bit(Holds(f)') + handled'[f]
    <2>1. ~disturbed /\ ~(Len(RxData(2)) < 2) BY <1>1, <1>4
    <2>2. /\ Framed(Stream) /\ InPlace(Stream, state_, buf_rx_)
          /\ \A f \in Frames : ForUs(f) => Kept(f)
      BY <2>1 DEF CleanInv
    <2>3. /\ 2 <= Len(Stream) /\ Len(RxData(2)) = 2
          /\ Stream' \in Seq(Symbols) /\ Len(Stream') = Len(Stream) - 2
          /\ \A i \in 1..Len(Stream') : Stream'[i] = Stream[i + 2]
          /\ \A k \in 1..2 : RxData(2)[k] = Stream[k]
      BY <1>1, <2>1, ReadStream DEF TypeOK
    <2>4. Stream \in Seq(Symbols) /\ Len(Stream) \in Nat BY StreamTypes DEF TypeOK
    <2>5. Stream[2] \in Frames /\ Stream[1] = Id[Stream[2]]
      BY <1>1, <2>2 DEF InPlace
    <2>6. buf_rx_'[1] = Stream[1] /\ buf_rx_'[2] = Stream[2]
      <3>1. DOMAIN buf_rx_ = 1..(HdrLen + MaxData) /\ MaxData \in Nat /\ HdrLen = 2
        BY CmdProcessorAssumption DEF CmdProcessorAssumption, TypeOK, HdrLen
      <3>2. 1 \in DOMAIN buf_rx_ /\ 2 \in DOMAIN buf_rx_ BY <3>1
      <3>3. buf_rx_'[1] = RxData(2)[1] /\ buf_rx_'[2] = RxData(2)[2]
        BY <1>1, <2>3, <3>2 DEF Overlay
      <3> QED BY <2>3, <3>3
    <2> DEFINE g == Stream[2]
    <2>7. g \in Frames /\ Len(Data[g]) \in Nat /\ SizeOf[g] = Len(Data[g])
      BY <2>5, LenProperties, CmdProcessorAssumption DEF CmdProcessorAssumption
    <2>8. DataAfter(Stream', 0, g)
      <3>1. DataAfter(Stream, 2, g)
        <4>1. 2 \in 1..Len(Stream) BY <2>3, <2>4
        <4> QED BY <2>2, <2>5, <4>1 DEF Framed
      <3>2. 2 \in Nat /\ 0 \in Nat /\ 0 + 2 = 2 OBVIOUS
      <3>3. DataAfter(Stream, 0 + 2, g) BY <3>1, <3>2
      <3> QED BY <2>3, <2>4, <2>7, <3>2, <3>3, CutData
    <2>9. InPlace(Stream', state_', buf_rx_')
      <3>1. buf_rx_'[2] = g /\ buf_rx_'[1] = Id[g] BY <2>5, <2>6
      <3> HIDE DEF g
      <3>2. CASE Len(Data[g]) > 0
        <4>1. state_' = "READING_DATA" BY <1>1, <2>7, <3>1, <3>2
        <4> QED BY <2>7, <2>8, <3>1, <3>2, <4>1 DEF InPlace
      <3>3. CASE ~(Len(Data[g]) > 0)
        <4>1. state_' = "CMD_RECEIVED" BY <1>1, <2>7, <3>1, <3>3
        <4>2. Len(Data[g]) = 0 BY <2>7, <3>3
        <4>3. GoesOn(Stream', 1)
          <5>1. 0 + 0 + 1 = 1 OBVIOUS
          <5> QED BY <2>8, <4>2, <5>1 DEF DataAfter
        <4>4. HasData(buf_rx_', g) BY <4>2 DEF HasData
        <4> QED BY <2>7, <3>1, <4>1, <4>3, <4>4 DEF InPlace
      <3> QED BY <3>2, <3>3
    <2>10. Framed(Stream') BY <2>2, <2>3, <2>4, CutFramed
    <2>11. ASSUME NEW f \in Frames, ForUs(f)
           PROVE  sent'[f] <= Count(f, Stream') + Bit(Holds(f)') + handled'[f]
      <3>1. \A i \in 1..2 : Stream[i] = f => i = 2
        <4>1. Stream[1] \notin Frames BY <2>5, OnlyHeadersSpellFrames
        <4> QED BY <4>1
      <3>2. ~Holds(f) BY <1>1 DEF Holds
      <3>3. Holds(f)' <=> Stream[2] = f
        <4>1. state_' \in {"READING_DATA", "CMD_RECEIVED"} BY <1>1
        <4> QED BY <2>6, <4>1 DEF Holds, HdrLen
      <3>4. Bit(2 \in 1..2 /\ Stream[2] = f) + Bit(Holds(f)) <= Bit(Holds(f)')
        <4>1. CASE Stream[2] = f BY <3>2, <3>3, <4>1 DEF Bit
        <4>2. CASE Stream[2] # f BY <3>2, <3>3, <4>2 DEF Bit
        <4> QED BY <4>1, <4>2
      <3>5. Kept(f) BY <2>2, <2>11
      <3>6. 2 \in Nat OBVIOUS
      <3> QED BY <1>1, <2>3, <3>1, <3>4, <3>5, <3>6, CutKeepsAll
    <2> QED BY <2>9, <2>10, <2>11
  <1> QED BY <1>2, <1>3, <1>4, CleanNext

\* The data that is read is that request's, whole, and the next one follows.
LEMMA ReadDataKeepsClean ==
  ASSUME TypeOK, CleanInv, ReadData
  PROVE  CleanInv'
  <1> DEFINE n == MsgSize
  <1>1. /\ HasRxData(n) /\ ReadRxData(n) /\ buf_rx_' = Overlay(2, RxData(n))
        /\ state_ = "READING_DATA" /\ state_' = "CMD_RECEIVED" /\ error_ = "NO"
        /\ torn' = (torn \/ Len(RxData(n)) < n)
        /\ disturbed' = (disturbed \/ Len(RxData(n)) < n)
        /\ UNCHANGED <<sent, handled>>
    BY DEF ReadData, ReadPart, HdrLen, Step
  <1>2. torn' => disturbed' BY <1>1 DEF CleanInv
  <1>3. error_' = "NO" BY <1>1 DEF ReadRxData
  <1>4. n \in Nat BY SizeIsNat
  <1>5. n = SizeOf[buf_rx_[2]] BY DEF MsgSize, HdrLen
  <1> HIDE DEF n
  <1>6. ASSUME ~disturbed'
        PROVE  /\ Framed(Stream') /\ InPlace(Stream', state_', buf_rx_')
               /\ \A f \in Frames :
                    ForUs(f) => sent'[f] <= Count(f, Stream') + Bit(Holds(f)') + handled'[f]
    <2>1. ~disturbed /\ ~(Len(RxData(n)) < n) BY <1>1, <1>6
    <2>2. /\ Framed(Stream) /\ InPlace(Stream, state_, buf_rx_)
          /\ \A f \in Frames : ForUs(f) => Kept(f)
      BY <2>1 DEF CleanInv
    <2>3. /\ n <= Len(Stream) /\ Len(RxData(n)) = n
          /\ Stream' \in Seq(Symbols) /\ Len(Stream') = Len(Stream) - n
          /\ \A i \in 1..Len(Stream') : Stream'[i] = Stream[i + n]
          /\ \A k \in 1..n : RxData(n)[k] = Stream[k]
      BY <1>1, <1>4, <2>1, ReadStream DEF TypeOK
    <2>4. Stream \in Seq(Symbols) /\ Len(Stream) \in Nat BY StreamTypes DEF TypeOK
    <2> DEFINE g == buf_rx_[2]
    <2>5. g \in Frames /\ buf_rx_[1] = Id[g] /\ DataAfter(Stream, 0, g)
      BY <1>1, <2>2 DEF InPlace
    <2>6. SizeOf[g] = Len(Data[g]) /\ SizeOf[g] <= MaxData
      BY <2>5, CmdProcessorAssumption DEF CmdProcessorAssumption
    <2>7. n = Len(Data[g]) /\ n <= MaxData BY <1>5, <2>6
    <2>8. \A j \in 1..n : Stream[j] = Data[g][j]
      <3>1. \A j \in 1..n : Stream[0 + j] = Data[g][j] BY <2>5, <2>7 DEF DataAfter
      <3>2. \A j \in 1..n : 0 + j = j BY <1>4
      <3> QED BY <3>1, <3>2
    <2>9. /\ buf_rx_'[1] = buf_rx_[1] /\ buf_rx_'[2] = g
          /\ \A j \in 1..n : buf_rx_'[2 + j] = RxData(n)[j]
      <3>1. DOMAIN buf_rx_ = 1..(2 + MaxData) /\ MaxData \in Nat
        BY CmdProcessorAssumption DEF CmdProcessorAssumption, TypeOK, HdrLen
      <3>2. 1 \in DOMAIN buf_rx_ /\ 2 \in DOMAIN buf_rx_
            /\ 1 \notin 3..(2 + n) /\ 2 \notin 3..(2 + n)
        BY <1>4, <3>1
      <3>3. \A j \in 1..n : /\ 2 + j \in DOMAIN buf_rx_ /\ 2 + j \in 3..(2 + n)
                            /\ (2 + j) - 2 = j
        BY <1>4, <2>7, <3>1
      <3>4. buf_rx_' = [j \in DOMAIN buf_rx_ |->
                          IF j \in 3..(2 + n) THEN RxData(n)[j - 2] ELSE buf_rx_[j]]
        <4>1. 2 + 1 = 3 OBVIOUS
        <4> QED BY <1>1, <2>3, <4>1 DEF Overlay
      <3> QED BY <3>2, <3>3, <3>4
    <2> HIDE DEF g
    <2>10. HasData(buf_rx_', g)
      <3>1. \A j \in 1..n : buf_rx_'[2 + j] = Data[g][j] BY <2>3, <2>8, <2>9
      <3> QED BY <2>7, <3>1 DEF HasData, HdrLen
    <2>11. GoesOn(Stream', 1)
      <3>1. GoesOn(Stream, 0 + n + 1) BY <2>5, <2>7 DEF DataAfter
      <3>2. 0 + n + 1 = 1 + n /\ 1 \in Nat /\ 1 >= 1 BY <1>4
      <3>3. GoesOn(Stream, 1 + n) BY <3>1, <3>2
      <3> QED BY <1>4, <2>3, <2>4, <3>2, <3>3, CutGoesOn
    <2>12. InPlace(Stream', state_', buf_rx_')
      BY <1>1, <2>5, <2>9, <2>10, <2>11 DEF InPlace
    <2>13. Framed(Stream') BY <1>4, <2>2, <2>3, <2>4, CutFramed
    <2>14. ASSUME NEW f \in Frames, ForUs(f)
           PROVE  sent'[f] <= Count(f, Stream') + Bit(Holds(f)') + handled'[f]
      <3>1. \A i \in 1..n : Stream[i] = f => i = 0
        <4>1. Data[g] \in Seq(Symbols \ Frames) BY <2>5, OnlyHeadersSpellFrames
        <4>2. \A i \in 1..n : Data[g][i] \in Symbols \ Frames
          BY <2>7, <4>1, ElementOfSeq
        <4> QED BY <2>8, <4>2
      <3>2. Holds(f)' <=> Holds(f)
        BY <1>1, <2>9 DEF Holds, HdrLen, g
      <3>3. ~(0 \in 1..n /\ Stream[0] = f) BY <1>4
      <3>4. Bit(0 \in 1..n /\ Stream[0] = f) = 0 BY <3>3 DEF Bit
      <3>5. Bit(Holds(f)') = Bit(Holds(f)) /\ Bit(Holds(f)) \in 0..1 BY <3>2 DEF Bit
      <3>6. Bit(0 \in 1..n /\ Stream[0] = f) + Bit(Holds(f)) <= Bit(Holds(f)')
        BY <3>4, <3>5
      <3>7. Kept(f) BY <2>2, <2>14
      <3>8. 0 \in Nat OBVIOUS
      <3> QED BY <1>1, <1>4, <2>3, <3>1, <3>6, <3>7, <3>8, CutKeepsAll
    <2> QED BY <2>12, <2>13, <2>14
  <1> QED BY <1>2, <1>3, <1>6, CleanNext

\* What is ignored is for another device.
LEMMA IgnoreKeepsClean ==
  ASSUME TypeOK, CleanInv, Ignore
  PROVE  CleanInv'
  <1>1. /\ state_ = "CMD_RECEIVED" /\ state_' \in {"BAD_CRC", "NO"}
        /\ ~(IsOurCmd /\ \E f \in Frames : CrcMatches(f))
        /\ line' = line /\ rx_buf_' = rx_buf_ /\ error_' = error_
        /\ UNCHANGED <<buf_rx_, sent, handled, torn, disturbed>>
    BY DEF Ignore, rs485Vars, historyVars
  <1>2. torn' => disturbed' BY <1>1 DEF CleanInv
  <1>3. Stream' = Stream BY <1>1 DEF Stream
  <1>4. ASSUME ~disturbed'
        PROVE  /\ error_' = "NO"
               /\ Framed(Stream') /\ InPlace(Stream', state_', buf_rx_')
               /\ \A f \in Frames :
                    ForUs(f) => sent'[f] <= Count(f, Stream') + Bit(Holds(f)') + handled'[f]
    <2>1. /\ error_ = "NO" /\ Framed(Stream) /\ InPlace(Stream, state_, buf_rx_)
          /\ \A f \in Frames : ForUs(f) => Kept(f)
      BY <1>1, <1>4 DEF CleanInv
    <2>2. /\ buf_rx_[2] \in Frames /\ buf_rx_[1] = Id[buf_rx_[2]]
          /\ HasData(buf_rx_, buf_rx_[2]) /\ GoesOn(Stream, 1)
      BY <1>1, <2>1 DEF InPlace
    <2>3. CrcMatches(buf_rx_[2]) BY <2>2 DEF CrcMatches, HasData, HdrLen
    <2>4. ~ForUs(buf_rx_[2]) BY <1>1, <2>2, <2>3 DEF ForUs, IsOurCmd, HdrLen
    <2>5. InPlace(Stream', state_', buf_rx_') BY <1>1, <1>3, <2>2 DEF InPlace
    <2>6. ASSUME NEW f \in Frames, ForUs(f)
          PROVE  sent'[f] <= Count(f, Stream') + Bit(Holds(f)') + handled'[f]
      <3>1. ~Holds(f) /\ ~Holds(f)' BY <1>1, <2>4, <2>6 DEF Holds, HdrLen
      <3>2. Bit(Holds(f)) = Bit(Holds(f)') BY <3>1 DEF Bit
      <3> QED BY <1>1, <1>3, <2>1, <2>6, <3>2 DEF Kept
    <2> QED BY <1>1, <1>3, <2>1, <2>5, <2>6
  <1> QED BY <1>2, <1>4, CleanNext

LEMMA HandleKeepsClean ==
  ASSUME TypeOK, CleanInv, NEW g \in Frames, Handle(g)
  PROVE  CleanInv'
  <1>1. /\ state_ = "CMD_RECEIVED" /\ state_' \in {"SEND_MSG", "NO"}
        /\ IsOurCmd /\ CrcMatches(g)
        /\ line' = line /\ rx_buf_' = rx_buf_ /\ error_' = error_
        /\ handled' = [handled EXCEPT ![g] = @ + 1]
        /\ UNCHANGED <<buf_rx_, sent, torn, disturbed>>
    BY DEF Handle, rs485Vars
  <1>2. torn' => disturbed' BY <1>1 DEF CleanInv
  <1>3. Stream' = Stream BY <1>1 DEF Stream
  <1>4. buf_rx_[2] = g BY <1>1 DEF CrcMatches, HdrLen
  <1>5. ASSUME ~disturbed'
        PROVE  /\ error_' = "NO"
               /\ Framed(Stream') /\ InPlace(Stream', state_', buf_rx_')
               /\ \A f \in Frames :
                    ForUs(f) => sent'[f] <= Count(f, Stream') + Bit(Holds(f)') + handled'[f]
    <2>1. /\ error_ = "NO" /\ Framed(Stream) /\ InPlace(Stream, state_, buf_rx_)
          /\ \A f \in Frames : ForUs(f) => Kept(f)
      BY <1>1, <1>5 DEF CleanInv
    <2>2. InPlace(Stream', state_', buf_rx_') BY <1>1, <1>3, <2>1 DEF InPlace
    <2>3. ASSUME NEW f \in Frames, ForUs(f)
          PROVE  sent'[f] <= Count(f, Stream') + Bit(Holds(f)') + handled'[f]
      <3>1. sent[f] <= Count(f, Stream) + Bit(Holds(f)) + handled[f]
        BY <2>1, <2>3 DEF Kept
      <3>2. Bit(Holds(f)') = 0 BY <1>1 DEF Holds, Bit
      <3>3. handled'[f] = handled[f] + Bit(Holds(f))
        <4>1. handled \in [Frames -> Nat] BY DEF TypeOK
        <4>2. CASE f = g
          <5>1. Bit(Holds(f)) = 1 BY <1>1, <1>4, <4>2 DEF Holds, Bit, HdrLen
          <5> QED BY <1>1, <4>1, <4>2, <5>1
        <4>3. CASE f # g
          <5>1. Bit(Holds(f)) = 0 BY <1>4, <4>3 DEF Holds, Bit, HdrLen
          <5> QED BY <1>1, <4>1, <4>3, <5>1
        <4> QED BY <4>2, <4>3
      <3>4. sent[f] <= Count(f, Stream) + 0 + (handled[f] + Bit(Holds(f)))
        BY <3>1, KeptTypes
      <3> QED BY <1>1, <1>3, <3>2, <3>3, <3>4
    <2> QED BY <1>1, <1>3, <2>1, <2>2, <2>3
  <1> QED BY <1>2, <1>5, CleanNext

LEMMA SendKeepsClean ==
  ASSUME TypeOK, CleanInv, NEW g \in Frames, Send(g)
  PROVE  CleanInv'
  <1>1. /\ line = << >> /\ line' = Wire(g) /\ rx_buf_' = rx_buf_ /\ error_' = error_
        /\ state_' = state_ /\ sent' = [sent EXCEPT ![g] = @ + 1]
        /\ UNCHANGED <<buf_rx_, handled, torn, disturbed>>
    BY DEF Send, procVars
  <1>2. torn' => disturbed' BY <1>1 DEF CleanInv
  <1>3. /\ Stream \in Seq(Symbols) /\ Stream' \in Seq(Symbols)
        /\ Len(Stream') = Len(Stream) + Len(Wire(g))
        /\ \A i \in 1..Len(Stream) : Stream'[i] = Stream[i]
        /\ \A j \in 1..Len(Wire(g)) : Stream'[Len(Stream) + j] = Wire(g)[j]
    <2>1. Stream = rx_buf_ /\ rx_buf_ \in Seq(Symbols)
      BY <1>1, ConcatEmptySeq DEF Stream, TypeOK, Rs485TypeOK
    <2> QED BY <1>1, <2>1, StreamPlaces, WireIsSeq DEF Stream
  <1>4. ASSUME ~disturbed'
        PROVE  /\ error_' = "NO"
               /\ Framed(Stream') /\ InPlace(Stream', state_', buf_rx_')
               /\ \A f \in Frames :
                    ForUs(f) => sent'[f] <= Count(f, Stream') + Bit(Holds(f)') + handled'[f]
    <2>1. /\ error_ = "NO" /\ Framed(Stream) /\ InPlace(Stream, state_, buf_rx_)
          /\ \A f \in Frames : ForUs(f) => Kept(f)
      BY <1>1, <1>4 DEF CleanInv
    <2>2. Framed(Stream') BY <1>3, <2>1, GrowFramed
    <2>3. GoesOn(Stream, 1) => GoesOn(Stream', 1)
      <3>1. 1 \in Nat /\ 1 >= 1 OBVIOUS
      <3> QED BY <1>3, <3>1, GrowGoesOn
    <2>4. ASSUME NEW f \in Frames, DataAfter(Stream, 0, f) PROVE DataAfter(Stream', 0, f)
      <3>1. 0 \in Nat OBVIOUS
      <3> QED BY <1>3, <2>4, <3>1, GrowData
    <2>5. 2 <= Len(Stream) => /\ 2 <= Len(Stream') /\ Stream'[1] = Stream[1]
                              /\ Stream'[2] = Stream[2]
      <3>1. Len(Stream) \in Nat /\ Len(Stream') \in Nat /\ Len(Wire(g)) \in Nat
        BY <1>3, LenProperties, WireIsSeq
      <3>2. 2 <= Len(Stream) => /\ 2 <= Len(Stream')
                                /\ 1 \in 1..Len(Stream) /\ 2 \in 1..Len(Stream)
        BY <1>3, <3>1
      <3> QED BY <1>3, <3>2
    <2>6. InPlace(Stream', state_', buf_rx_')
      BY <1>1, <2>1, <2>3, <2>4, <2>5 DEF InPlace
    <2>7. ASSUME NEW f \in Frames, ForUs(f)
          PROVE  sent'[f] <= Count(f, Stream') + Bit(Holds(f)') + handled'[f]
      <3>1. sent[f] <= Count(f, Stream) + Bit(Holds(f)) + handled[f]
        BY <2>1, <2>7 DEF Kept
      <3>2. Count(f, Stream) + Bit(g = f) <= Count(f, Stream') /\ Count(f, Stream') \in Nat
        <4>1. Count(f, Stream) + Bit(f = g) <= Count(f, Stream') BY <1>3, GrowCount
        <4> QED BY <1>3, <4>1, PlacesFinite DEF Bit
      <3>3. sent'[f] = sent[f] + Bit(g = f) BY <1>1, BudgetTypes DEF TypeOK, Bit
      <3>4. Bit(Holds(f)') = Bit(Holds(f)) BY <1>1 DEF Holds, Bit
      <3>5. Bit(g = f) \in 0..1 BY DEF Bit
      <3>6. sent[f] + Bit(g = f) <= Count(f, Stream') + Bit(Holds(f)) + handled[f]
        BY <3>1, <3>2, <3>5, KeptTypes
      <3> QED BY <1>1, <3>3, <3>4, <3>6
    <2> QED BY <1>1, <2>1, <2>2, <2>6, <2>7
  <1> QED BY <1>2, <1>4, CleanNext

LEMMA NextKeepsClean ==
  ASSUME TypeOK, CleanInv, [Next]_vars
  PROVE  CleanInv'
  <1>1. CASE Restart
    <2>1. error_ # "NO" /\ UNCHANGED <<torn, disturbed>> BY <1>1 DEF Restart, historyVars
    <2>2. disturbed' BY <2>1 DEF CleanInv
    <2> QED BY <2>2, CleanNext
  <1>2. CASE FindMarker BY <1>2, FindMarkerKeepsClean
  <1>3. CASE ReadTimeout BY <1>3, ReadTimeoutKeepsClean
  <1>4. CASE ReadHdr \/ ReadData BY <1>4, ReadHdrKeepsClean, ReadDataKeepsClean
  <1>5. CASE Ignore BY <1>5, IgnoreKeepsClean
  <1>6. CASE \E f \in Frames : Handle(f) BY <1>6, HandleKeepsClean
  <1>7. CASE \E f \in Frames : Send(f) BY <1>7, SendKeepsClean
  <1>8. CASE Port BY <1>8, PortKeepsClean
  <1>9. CASE StartWrite \/ Sent \/ Nothing \/ App \/ Tick \/ UNCHANGED vars
    <2>1. /\ line' = line /\ rx_buf_' = rx_buf_ /\ error_' = error_
          /\ UNCHANGED <<buf_rx_, sent, handled, torn, disturbed>>
      BY <1>9 DEF StartWrite, Sent, Nothing, App, Pause, Resume, Becomes,
                  MeasureBySignal, Pass, SendMsg, Tick, rs485Vars, procVars, historyVars, vars
    <2>2. \/ state_' = state_
          \/ /\ state_ \notin {"READING_HDR", "READING_DATA", "CMD_RECEIVED"}
             /\ state_' \notin {"READING_HDR", "READING_DATA", "CMD_RECEIVED"}
      BY <1>9 DEF StartWrite, Sent, Nothing, App, Pause, Resume, Becomes,
                  MeasureBySignal, Pass, SendMsg, Tick, IsCanSend, procVars, vars
    <2>3. Stream' = Stream BY <2>1 DEF Stream
    <2> QED BY <2>1, <2>2, <2>3, StillKeepsClean
  <1> QED BY <1>1, <1>2, <1>3, <1>4, <1>5, <1>6, <1>7, <1>8, <1>9 DEF Next, Work

LEMMA InitClean == Init => CleanInv
  <1> SUFFICES ASSUME Init PROVE CleanInv OBVIOUS
  <1>1. /\ line = << >> /\ rx_buf_ = << >> /\ error_ = "NO" /\ state_ = "NO" /\ ~torn
        /\ sent = [f \in Frames |-> 0] /\ handled = [f \in Frames |-> 0]
    BY DEF Init, Rs485Init
  <1>2. Stream = << >> /\ Len(Stream) = 0
    <2>1. << >> \in Seq(Symbols) /\ Len(<< >>) = 0 BY EmptySeq
    <2> QED BY <1>1, <2>1, ConcatEmptySeq DEF Stream
  <1>3. Framed(Stream) BY <1>2 DEF Framed
  <1>4. InPlace(Stream, state_, buf_rx_) BY <1>1, <1>2 DEF InPlace, GoesOn
  <1>5. ASSUME NEW f \in Frames PROVE Kept(f)
    BY <1>1, <1>2, CountEmpty DEF Kept, Holds, Bit
  <1> QED BY <1>1, <1>3, <1>4, <1>5 DEF CleanInv

\* While no symbol is damaged, lost, dropped or late and no read comes up
\* short, every request sent to this device is carried out, once: none is lost
\* in the buffers while an earlier one is answered, cut by a timeout, taken for
\* another device's or read from the wrong symbol on.
THEOREM NoRequestIsMissed == Spec => []NothingMissed
  <1>1. CmdInv => TypeOK BY DEF CmdInv
  <1>2. TypeOK /\ CleanInv /\ [Next]_vars => CleanInv' BY NextKeepsClean
  <1>3. Spec => []CleanInv
    BY <1>1, <1>2, Inductive, InitClean, PTL DEF Spec
  <1>4. CmdInv /\ CleanInv /\ NoReplayUnlessTorn => NothingMissed
    <2> SUFFICES ASSUME TypeOK, CleanInv, NoReplayUnlessTorn,
                        ~disturbed, line = << >>, rx_buf_ = << >>, state_ # "CMD_RECEIVED",
                        NEW f \in Frames, ForUs(f)
                 PROVE  handled[f] = sent[f]
      BY DEF CmdInv, NothingMissed
    <2>1. Stream = << >>
      <3>1. << >> \in Seq(Symbols) BY EmptySeq
      <3> QED BY <3>1, ConcatEmptySeq DEF Stream
    <2>2. Kept(f) /\ ~torn /\ InPlace(Stream, state_, buf_rx_) BY DEF CleanInv
    <2>3. state_ # "READING_DATA"
      <3>1. Len(Stream) = 0 BY <2>1, EmptySeq
      <3>2. ASSUME state_ = "READING_DATA" PROVE FALSE
        <4>1. /\ buf_rx_[2] \in Frames /\ Len(Data[buf_rx_[2]]) > 0
              /\ 0 + Len(Data[buf_rx_[2]]) <= Len(Stream)
          BY <2>2, <3>2 DEF InPlace, DataAfter
        <4>2. Len(Data[buf_rx_[2]]) \in Nat
          BY <4>1, LenProperties, CmdProcessorAssumption DEF CmdProcessorAssumption
        <4> QED BY <3>1, <4>1, <4>2
      <3> QED BY <3>2
    <2>4. Count(f, Stream) = 0 BY <2>1, CountEmpty
    <2>5. Bit(Holds(f)) = 0 BY <2>3 DEF Holds, Bit
    <2>6. sent[f] <= 0 + 0 + handled[f] BY <2>2, <2>4, <2>5 DEF Kept
    <2>7. handled[f] <= sent[f] BY <2>2 DEF NoReplayUnlessTorn, NoReplay
    <2>8. handled[f] \in Nat /\ sent[f] \in Nat BY BudgetTypes
    <2> QED BY <2>6, <2>7, <2>8
  <1> QED BY <1>3, <1>4, Inductive, NothingIsReplayed, PTL

-----------------------------------------------------------------------------
(* What the processor does to the port is what module Rs485 lets its caller *)
(* do, and the driver of module Uart is shown to do (UartPortProofs).       *)

\* Reading, whatever the number of symbols that was asked for: more than the
\* ring can hold are read only when the size check is fooled, and then the number
\* does not matter.
LEMMA PartIsPort ==
  ASSUME TypeOK, NEW n \in Nat, HasRxData(n), ReadRxData(n)
  PROVE  [Rs485Next]_rs485Vars
  <1>1. /\ rx_buf_ \in Seq(Symbols) /\ Len(rx_buf_) \in Nat /\ Len(rx_buf_) < RxSize
        /\ RxSize \in Nat /\ RxSize - 1 \in 1..(RxSize - 1)
    BY LenProperties, Rs485Assumption DEF TypeOK, Rs485TypeOK, Rs485Assumption
  <1>2. CASE n = 0
    <2>1. rx_buf_' = SubSeq(rx_buf_, 0 + 1, Len(rx_buf_))
          /\ UNCHANGED <<line, wpos, error_, is_read_pause_, is_writing>>
      BY <1>1, <1>2 DEF ReadRxData
    <2>2. SubSeq(rx_buf_, 0 + 1, Len(rx_buf_)) = rx_buf_
      <3>1. /\ SubSeq(rx_buf_, 0 + 1, Len(rx_buf_)) \in Seq(Symbols)
            /\ Len(SubSeq(rx_buf_, 0 + 1, Len(rx_buf_))) = Len(rx_buf_) - 0
            /\ \A i \in 1..(Len(rx_buf_) - 0) :
                 SubSeq(rx_buf_, 0 + 1, Len(rx_buf_))[i] = rx_buf_[i + 0]
        BY <1>1, CutShifts
      <3>2. /\ Len(rx_buf_) - 0 = Len(rx_buf_)
            /\ \A i \in 1..Len(rx_buf_) : i + 0 = i
        BY <1>1
      <3> QED BY <1>1, <3>1, <3>2, SeqEqual
    <2> QED BY <2>1, <2>2 DEF rs485Vars
  <1>3. CASE n > 0 /\ Len(rx_buf_) >= n
    <2>1. n \in 1..(RxSize - 1) BY <1>1, <1>3
    <2> QED BY <2>1 DEF Rs485Next
  <1>4. CASE ~(Len(rx_buf_) >= n)
    <2>1. TornSize /\ line # << >> /\ wpos = RxSize - 1 /\ HasRoom /\ ~is_read_pause_
      BY <1>4 DEF HasRxData, SizeFooled
    <2>2. Len(rx_buf_) < RxSize - 1 /\ ~(Len(rx_buf_) >= RxSize - 1)
      BY <1>1, <2>1 DEF HasRoom
    <2>3. HasRxData(RxSize - 1) BY <2>1, <2>2 DEF HasRxData, SizeFooled
    <2>4. ReadRxData(RxSize - 1) BY <1>4, <2>2 DEF ReadRxData
    <2> QED BY <1>1, <2>3, <2>4 DEF Rs485Next
  <1> QED BY <1>1, <1>2, <1>3, <1>4

LEMMA MarkerIsPort == ASSUME TypeOK, FindMarker PROVE [Rs485Next]_rs485Vars
  <1>1. /\ rx_buf_ \in Seq(Symbols) /\ rx_buf_ # << >> /\ rx_buf_' = Tail(rx_buf_)
        /\ UNCHANGED <<line, wpos, error_, is_read_pause_, is_writing>>
    BY DEF TypeOK, Rs485TypeOK, FindMarker
  <1>2. Len(rx_buf_) \in Nat /\ Len(rx_buf_) >= 1
    <2>1. Len(rx_buf_) \in Nat /\ Len(rx_buf_) # 0 BY <1>1, LenProperties, EmptySeq
    <2> QED BY <2>1
  <1>3. Tail(rx_buf_) = SubSeq(rx_buf_, 1 + 1, Len(rx_buf_))
    <2>1. /\ SubSeq(rx_buf_, 1 + 1, Len(rx_buf_)) \in Seq(Symbols)
          /\ Len(SubSeq(rx_buf_, 1 + 1, Len(rx_buf_))) = Len(rx_buf_) - 1
          /\ \A i \in 1..(Len(rx_buf_) - 1) :
               SubSeq(rx_buf_, 1 + 1, Len(rx_buf_))[i] = rx_buf_[i + 1]
      <3>1. \A m \in Nat : m <= Len(rx_buf_) =>
              /\ SubSeq(rx_buf_, m + 1, Len(rx_buf_)) \in Seq(Symbols)
              /\ Len(SubSeq(rx_buf_, m + 1, Len(rx_buf_))) = Len(rx_buf_) - m
              /\ \A i \in 1..(Len(rx_buf_) - m) :
                   SubSeq(rx_buf_, m + 1, Len(rx_buf_))[i] = rx_buf_[i + m]
        BY <1>1, CutShifts
      <3> QED BY <1>2, <3>1
    <2>2. /\ Tail(rx_buf_) \in Seq(Symbols) /\ Len(Tail(rx_buf_)) = Len(rx_buf_) - 1
          /\ \A i \in 1..Len(Tail(rx_buf_)) : Tail(rx_buf_)[i] = rx_buf_[i + 1]
      BY <1>1, HeadTailProperties
    <2> QED BY <2>1, <2>2, SeqEqual
  <1>4. HasRxData(1) /\ ReadRxData(1)
    BY <1>1, <1>2, <1>3 DEF HasRxData, ReadRxData
  <1> QED BY <1>4, PartIsPort

LEMMA SendIsPort == ASSUME TypeOK, NEW f \in Frames, Send(f) PROVE Rs485Next
  <1>1. line = << >> /\ line' = Wire(f)
        /\ UNCHANGED <<rx_buf_, wpos, error_, is_read_pause_, is_writing>>
    BY DEF Send
  <1>2. Wire(f) \in Seq(Symbols) /\ Len(Wire(f)) > 0
    <2>1. Len(Data[f]) \in Nat
      BY LenProperties, CmdProcessorAssumption DEF CmdProcessorAssumption
    <2> QED BY <2>1, WirePlaces
  <1>3. Len(line) = 0 /\ SubSeq(line', 1, Len(line)) = line
    <2>1. Len(line) = 0 BY <1>1, EmptySeq
    <2>2. /\ SubSeq(line', 1, 0) \in Seq(Symbols) /\ Len(SubSeq(line', 1, 0)) = 0
      BY <1>1, <1>2, SubSeqProperties
    <2>3. SubSeq(line', 1, 0) = << >> BY <2>2, EmptySeq
    <2> QED BY <1>1, <2>1, <2>3
  <1>4. Heard BY <1>1, <1>2, <1>3 DEF Heard
  <1> QED BY <1>4 DEF Rs485Next

LEMMA WorkIsPort == ASSUME TypeOK, Work PROVE [Rs485Next]_rs485Vars
  <1>1. CASE Restart BY <1>1 DEF Restart, Rs485Next
  <1>2. CASE FindMarker BY <1>2, MarkerIsPort
  <1>3. CASE ReadHdr
    <2>1. HasRxData(HdrLen) /\ ReadRxData(HdrLen) BY <1>3 DEF ReadHdr, ReadPart
    <2> QED BY <2>1, PartIsPort DEF HdrLen
  <1>4. CASE ReadData
    <2>1. HasRxData(MsgSize) /\ ReadRxData(MsgSize) BY <1>4 DEF ReadData, ReadPart
    <2>2. MsgSize \in Nat
      <3>1. HdrLen \in 1..(HdrLen + MaxData)
        BY CmdProcessorAssumption DEF CmdProcessorAssumption, HdrLen
      <3>2. buf_rx_[HdrLen] \in Symbols BY <3>1 DEF TypeOK
      <3> QED BY <3>2, CmdProcessorAssumption DEF MsgSize, CmdProcessorAssumption
    <2> QED BY <2>1, <2>2, PartIsPort
  <1>5. CASE StartWrite
    <2>1. UNCHANGED <<line, rx_buf_, wpos, error_, is_read_pause_>>
      BY <1>5 DEF StartWrite
    <2>2. CASE is_writing BY <1>5, <2>1, <2>2 DEF StartWrite, rs485Vars
    <2>3. CASE ~is_writing
      <3>1. StartWrite485 BY <1>5, <2>1, <2>3 DEF StartWrite, StartWrite485
      <3> QED BY <3>1 DEF Rs485Next
    <2> QED BY <2>2, <2>3
  <1>6. CASE ReadTimeout BY <1>6 DEF ReadTimeout
  <1>7. CASE Ignore BY <1>7 DEF Ignore
  <1>8. CASE \E f \in Frames : Handle(f) BY <1>8 DEF Handle
  <1>9. CASE Sent BY <1>9 DEF Sent
  <1>10. CASE Nothing BY <1>10 DEF Nothing
  <1> QED
    BY <1>1, <1>2, <1>3, <1>4, <1>5, <1>6, <1>7, <1>8, <1>9, <1>10 DEF Work

LEMMA StepIsPort == ASSUME TypeOK, [Next]_vars PROVE [Rs485Next]_rs485Vars
  <1>1. CASE Work BY <1>1, WorkIsPort
  <1>2. CASE Pause \/ Resume
    <2>1. PauseOrResume BY <1>2 DEF Pause, Resume, Becomes, PauseOrResume
    <2> QED BY <2>1 DEF Rs485Next
  <1>3. CASE MeasureBySignal \/ SendMsg BY <1>3 DEF MeasureBySignal, Pass, SendMsg
  <1>4. CASE \E f \in Frames : Send(f) BY <1>4, SendIsPort
  <1>5. CASE Tick BY <1>5 DEF Tick, Pass
  <1>6. CASE Port BY <1>6 DEF Port, Rs485Next
  <1>7. CASE UNCHANGED vars BY <1>7 DEF vars
  <1> QED BY <1>1, <1>2, <1>3, <1>4, <1>5, <1>6, <1>7 DEF Next, App

\* Whatever the processor, the application and the bus do, the port's part of it
\* is a behaviour of the port by itself: the buffer is read only for what its size
\* promised, a transmission is started only when none is under way (rs485.cpp:76),
\* and the port is opened again as a whole.  DriverImplementsPort shows of the
\* driver that it does no more than the same specification.
THEOREM ProcessorUsesThePort == Spec => Rs485Spec
  <1>1. Init => Rs485Init BY DEF Init
  <1>2. CmdInv /\ [Next]_vars => [Rs485Next]_rs485Vars BY StepIsPort DEF CmdInv
  <1> QED BY <1>1, <1>2, Inductive, PTL DEF Spec, Rs485Spec

=============================================================================
