---------------------------- MODULE UartPortProofs ----------------------------
(***************************************************************************)
(* The driver of module Uart implements the port of module Rs485, for      *)
(* every set of symbols and messages and every size of the ring.           *)
(*                                                                         *)
(* Line, Rx, Wp, Err and Wr are what the refinement mapping makes of the   *)
(* driver's state.  The first part says how each step of the port looks    *)
(* through them, the second shows which of these a step of the driver is:  *)
(* most are none, the reading of RDR is the arrival of a symbol, and Off() *)
(* is where the port is opened again.                                      *)
(***************************************************************************)
EXTENDS UartProofs

Line == (IF RXNE THEN <<RDR>> ELSE << >>) \o wire
Rx   == IF Closed THEN << >> ELSE rx_buf_
Wp   == IF Closed THEN 0 ELSE wpos
Err  == IF Closed THEN "NO" ELSE error_
Wr   == ~Closed /\ is_writing

\* A symbol that came between the two looks is dropped by a HAL without a
\* reception only in a port that has failed while it was opened.
PortInv == /\ pc \in {"stop_write"} \cup Opening => ~is_read_pause_
           /\ pc \in Opening \ {"config", "on"} => error_ # "RX_BUFFER_OVERFLOW"
           /\ RXNEIE /\ RxISR /\ RxState = "READY" =>
                /\ pc = "work"
                /\ error_ = "UART_OVERFLOW" \/ (error_ = "RX_BUFFER_OVERFLOW" /\ ~HasRoom)

-----------------------------------------------------------------------------
(* The port, seen through the mapping.                                     *)

LEMMA PortStutters == ASSUME UNCHANGED <<Line, Rx, Wp, Err, is_read_pause_, Wr>>
                      PROVE  UNCHANGED Port!rs485Vars
  BY DEF Port!rs485Vars, Line, Rx, Wp, Err, Wr

LEMMA PortSends ==
  ASSUME Line \in Seq(Symbols), NEW s \in Symbols, Line' = Append(Line, s),
         UNCHANGED <<Rx, Wp, Err, is_read_pause_, Wr>>
  PROVE  Port!Rs485Next
  <1>1. /\ Line' \in Seq(Symbols) /\ Len(Line') = Len(Line) + 1
        /\ \A i \in 1..Len(Line) : Line'[i] = Line[i]
    BY AppendProperties
  <1>2. SubSeq(Line', 1, Len(Line)) = Line
    <2>1. /\ Len(Line) \in Nat /\ Len(SubSeq(Line', 1, Len(Line))) = Len(Line)
          /\ SubSeq(Line', 1, Len(Line)) \in Seq(Symbols)
          /\ \A i \in 1..Len(Line) : SubSeq(Line', 1, Len(Line))[i] = Line'[i]
      BY <1>1, LenProperties, SubSeqProperties
    <2> QED BY <1>1, <2>1, SeqEqual
  <1>3. Len(Line') > Len(Line) BY <1>1, LenProperties
  <1>4. Port!Heard BY <1>1, <1>2, <1>3 DEF Port!Heard, Line, Rx, Wp, Err, Wr
  <1> QED BY <1>4 DEF Port!Rs485Next

LEMMA PortLoses ==
  ASSUME NEW i \in DOMAIN Line,
         Line' = SubSeq(Line, 1, i - 1) \o SubSeq(Line, i + 1, Len(Line)),
         UNCHANGED <<Rx, Wp, Err, is_read_pause_, Wr>>
  PROVE  Port!Rs485Next
  <1>1. Port!Lose BY DEF Port!Lose, Line, Rx, Wp, Err, Wr
  <1> QED BY <1>1 DEF Port!Rs485Next

LEMMA PortDamages ==
  ASSUME NEW i \in DOMAIN Line, Line[i] # Noise, Line' = [Line EXCEPT ![i] = Noise],
         UNCHANGED <<Rx, Wp, Err, is_read_pause_, Wr>>
  PROVE  Port!Rs485Next
  <1>1. Port!Damage BY DEF Port!Damage, Line, Rx, Wp, Err, Wr
  <1> QED BY <1>1 DEF Port!Rs485Next

\* The port takes a symbol into its buffer.
Takes(s) == IF ~is_read_pause_ /\ Len(Rx) < RxSize - 1
            THEN Rx' = Append(Rx, s) /\ Wp' = (IF Wp = RxSize - 1 THEN 0 ELSE Wp + 1)
            ELSE UNCHANGED <<Rx, Wp>>

LEMMA PortArrives ==
  ASSUME Line # << >>, Line' = Tail(Line), Takes(Head(Line)),
         Err' = IF ~is_read_pause_ /\ ~(Len(Rx) < RxSize - 1)
                THEN "RX_BUFFER_OVERFLOW" ELSE Err,
         UNCHANGED <<is_read_pause_, Wr>>
  PROVE  Port!Rs485Next
  <1>1. CASE ~is_read_pause_ /\ Len(Rx) < RxSize - 1
    <2>1. /\ Rx' = Append(Rx, Head(Line)) /\ Err' = Err
          /\ Wp' = IF Wp = RxSize - 1 THEN 0 ELSE Wp + 1
      BY <1>1 DEF Takes
    <2>2. Port!Arrive
      BY <1>1, <2>1 DEF Port!Arrive, Port!IrqHandleRx, Port!HasRoom, Port!NextPos,
                        Line, Rx, Wp, Err, Wr
    <2> QED BY <2>2 DEF Port!Rs485Next
  <1>2. CASE ~(~is_read_pause_ /\ Len(Rx) < RxSize - 1)
    <2>1. UNCHANGED <<Rx, Wp>> BY <1>2 DEF Takes
    <2>2. Err' = IF is_read_pause_ THEN Err ELSE "RX_BUFFER_OVERFLOW"
      BY <1>2
    <2>3. Port!Arrive
      BY <1>2, <2>1, <2>2 DEF Port!Arrive, Port!IrqHandleRx, Port!HasRoom, Port!NextPos,
                              Line, Rx, Wp, Err, Wr
    <2> QED BY <2>3 DEF Port!Rs485Next
  <1> QED BY <1>1, <1>2

LEMMA PortFails ==
  ASSUME Err' = "UART_OVERFLOW", UNCHANGED <<is_read_pause_, Wr>>,
         \/ UNCHANGED <<Line, Rx, Wp>>
         \/ Line # << >> /\ Line' = Tail(Line) /\ Takes(Head(Line))
  PROVE  Port!Rs485Next
  <1>1. CASE UNCHANGED <<Line, Rx, Wp>>
    <2>1. Port!IrqHandleErr BY <1>1 DEF Port!IrqHandleErr, Line, Rx, Wp, Err, Wr
    <2> QED BY <2>1 DEF Port!Rs485Next
  <1>2. CASE Line # << >> /\ Line' = Tail(Line) /\ Takes(Head(Line))
    <2>1. CASE ~is_read_pause_ /\ Len(Rx) < RxSize - 1
      <3>1. /\ Rx' = Append(Rx, Head(Line))
            /\ Wp' = IF Wp = RxSize - 1 THEN 0 ELSE Wp + 1
        BY <1>2, <2>1 DEF Takes
      <3>2. Port!IrqHandleErr
        BY <1>2, <2>1, <3>1 DEF Port!IrqHandleErr, Port!HasRoom, Port!NextPos,
                                Line, Rx, Wp, Err, Wr
      <3> QED BY <3>2 DEF Port!Rs485Next
    <2>2. CASE ~(~is_read_pause_ /\ Len(Rx) < RxSize - 1)
      <3>1. UNCHANGED <<Rx, Wp>> BY <1>2, <2>2 DEF Takes
      <3>2. Port!IrqHandleErr
        BY <1>2, <2>2, <3>1 DEF Port!IrqHandleErr, Port!HasRoom, Port!NextPos,
                                Line, Rx, Wp, Err, Wr
      <3> QED BY <3>2 DEF Port!Rs485Next
    <2> QED BY <2>1, <2>2
  <1> QED BY <1>1, <1>2

LEMMA PortFinishes ==
  ASSUME Wr, Wr' = FALSE, UNCHANGED <<Line, Rx, Wp, Err, is_read_pause_>>
  PROVE  Port!Rs485Next
  <1>1. Port!IrqHandleTx BY DEF Port!IrqHandleTx, Line, Rx, Wp, Err, Wr
  <1> QED BY <1>1 DEF Port!Rs485Next

LEMMA PortStarts ==
  ASSUME ~Wr, Wr' = TRUE, UNCHANGED <<Line, Rx, Wp, Err, is_read_pause_>>
  PROVE  Port!Rs485Next
  <1>1. Port!StartWrite485 BY DEF Port!StartWrite485, Line, Rx, Wp, Err, Wr
  <1> QED BY <1>1 DEF Port!Rs485Next

LEMMA PortPauses ==
  ASSUME is_read_pause_' = ~is_read_pause_, UNCHANGED <<Line, Rx, Wp, Err, Wr>>
  PROVE  Port!Rs485Next
  <1>1. Port!PauseOrResume BY DEF Port!PauseOrResume, Line, Rx, Wp, Err, Wr
  <1> QED BY <1>1 DEF Port!Rs485Next

LEMMA PortReads ==
  ASSUME NEW n \in 1..(RxSize - 1), Len(Rx) >= n, Rx' = SubSeq(Rx, n + 1, Len(Rx)),
         UNCHANGED <<Line, Wp, Err, is_read_pause_, Wr>>
  PROVE  Port!Rs485Next
  <1>1. Port!HasRxData(n) BY DEF Port!HasRxData, Rx
  <1>2. Port!ReadRxData(n) BY DEF Port!ReadRxData, Line, Rx, Wp, Err, Wr
  <1> QED BY <1>1, <1>2 DEF Port!Rs485Next

LEMMA PortReopens ==
  ASSUME Line \in Seq(Symbols), Line' = Line, Rx' = << >>, Wp' = 0, Err' = "NO",
         is_read_pause_' = FALSE, Wr' = FALSE
  PROVE  Port!Rs485Next
  <1>1. Line' = SubSeq(Line, 0 + 1, Len(Line)) BY SubSeqFull
  <1>2. 0 <= Len(Line) BY LenProperties
  <1>3. 0 \in 0..0 OBVIOUS
  <1>4. \E n \in 0..0 : n <= Len(Line) /\ Line' = SubSeq(Line, n + 1, Len(Line))
    BY <1>1, <1>2, <1>3
  <1>5. Port!Reopen BY <1>4 DEF Port!Reopen, Line, Rx, Wp, Err, Wr
  <1> QED BY <1>5 DEF Port!Rs485Next

-----------------------------------------------------------------------------
(* The line: the symbol in RDR, if there is one, and those on the bus.     *)

LEMMA LineFull ==
  ASSUME UartInv, RXNE
  PROVE  /\ Line \in Seq(Symbols) /\ Line # << >> /\ Line = <<RDR>> \o wire
         /\ Head(Line) = RDR /\ Tail(Line) = wire
         /\ Len(Line) = Len(wire) + 1
         /\ \A i \in 1..Len(wire) : Line[i + 1] = wire[i]
  <1>1. RDR \in Symbols /\ wire \in Seq(Symbols) BY DEF UartInv, BufTypes
  <1>2. <<RDR>> \in Seq(Symbols) /\ Len(<<RDR>>) = 1 /\ <<RDR>>[1] = RDR BY <1>1
  <1>3. Line = <<RDR>> \o wire BY DEF Line
  <1>4. Len(wire) \in Nat BY <1>1, LenProperties
  <1>5. /\ Line \in Seq(Symbols) /\ Len(Line) = Len(wire) + 1
        /\ \A i \in 1..(Len(wire) + 1) :
             Line[i] = IF i <= 1 THEN RDR ELSE wire[i - 1]
    BY <1>1, <1>2, <1>3, <1>4, ConcatProperties
  <1>6. Line # << >> BY <1>4, <1>5, EmptySeq
  <1>7. \A i \in 1..Len(wire) : Line[i + 1] = wire[i]
    <2> TAKE i \in 1..Len(wire)
    <2>1. i + 1 \in 1..(Len(wire) + 1) /\ ~(i + 1 <= 1) /\ (i + 1) - 1 = i
      BY <1>4
    <2> QED BY <1>5, <2>1
  <1>8. Head(Line) = RDR
    <2>1. Head(Line) = Line[1] OBVIOUS
    <2>2. 1 \in 1..(Len(wire) + 1) BY <1>4
    <2> QED BY <1>5, <2>1, <2>2
  <1>9. Tail(Line) = wire
    <2>1. /\ Tail(Line) \in Seq(Symbols) /\ Len(Tail(Line)) = Len(wire)
          /\ \A i \in 1..Len(Tail(Line)) : Tail(Line)[i] = Line[i + 1]
      BY <1>4, <1>5, <1>6, HeadTailProperties
    <2> QED BY <1>1, <1>7, <2>1, SeqEqual
  <1> QED BY <1>3, <1>5, <1>6, <1>7, <1>8, <1>9

LEMMA LineBare == ASSUME UartInv, ~RXNE
                  PROVE  Line = wire /\ Line \in Seq(Symbols)
  BY ConcatEmptySeq DEF Line, UartInv, BufTypes

LEMMA FirstIsLost ==
  ASSUME NEW s \in Seq(Symbols), s # << >>
  PROVE  /\ 1 \in DOMAIN s
         /\ Tail(s) = SubSeq(s, 1, 1 - 1) \o SubSeq(s, 1 + 1, Len(s))
  <1>1. Len(s) \in Nat /\ Len(s) # 0 /\ DOMAIN s = 1..Len(s)
    BY LenProperties, EmptySeq
  <1>2. SubSeq(s, 1, 0) = << >> BY SubSeqEmpty
  <1>3. Tail(s) = SubSeq(s, 2, Len(s)) /\ Tail(s) \in Seq(Symbols)
    BY TailIsSubSeq, HeadTailProperties
  <1>4. << >> \o Tail(s) = Tail(s) BY <1>3, ConcatEmptySeq
  <1> QED BY <1>1, <1>2, <1>3, <1>4

\* A symbol lost behind one that is in RDR.
LEMMA SecondIsLost ==
  ASSUME NEW x \in Symbols, NEW w \in Seq(Symbols), w # << >>
  PROVE  LET s == <<x>> \o w
         IN  /\ 2 \in DOMAIN s
             /\ <<x>> \o Tail(w) = SubSeq(s, 1, 2 - 1) \o SubSeq(s, 2 + 1, Len(s))
  <1> DEFINE s == <<x>> \o w
  <1>1. <<x>> \in Seq(Symbols) /\ Len(<<x>>) = 1 /\ <<x>>[1] = x OBVIOUS
  <1>2. Len(w) \in Nat /\ Len(w) # 0 BY LenProperties, EmptySeq
  <1>3. /\ s \in Seq(Symbols) /\ Len(s) = Len(w) + 1
        /\ \A i \in 1..(Len(w) + 1) : s[i] = IF i <= 1 THEN x ELSE w[i - 1]
    BY <1>1, <1>2, ConcatProperties
  <1>4. 2 \in DOMAIN s BY <1>2, <1>3, LenProperties
  <1>5. SubSeq(s, 1, 1) = <<x>>
    <2>1. 1 \in 1..Len(s) /\ s[1] = x BY <1>2, <1>3
    <2>2. \A i \in 1..1 : s[i] \in Symbols BY <2>1
    <2>3. /\ SubSeq(s, 1, 1) \in Seq(Symbols) /\ Len(SubSeq(s, 1, 1)) = 1
          /\ SubSeq(s, 1, 1)[1] = x
      <3>1. /\ SubSeq(s, 1, 1) \in Seq(Symbols) /\ Len(SubSeq(s, 1, 1)) = 1
            /\ \A i \in 1..1 : SubSeq(s, 1, 1)[i] = s[1 + i - 1]
        <4> HIDE DEF s
        <4> QED BY <2>2, SubSeqProperties
      <3>2. SubSeq(s, 1, 1)[1] = s[1] BY <3>1
      <3> QED BY <2>1, <3>1, <3>2
    <2>4. \A i \in 1..1 : SubSeq(s, 1, 1)[i] = <<x>>[i] BY <1>1, <2>3
    <2> HIDE DEF s
    <2> QED BY <1>1, <2>3, <2>4, SeqEqual
  <1>6. SubSeq(s, 3, Len(s)) = Tail(w)
    <2>1. /\ Tail(w) \in Seq(Symbols) /\ Len(Tail(w)) = Len(w) - 1
          /\ \A i \in 1..(Len(w) - 1) : Tail(w)[i] = w[i + 1]
      BY HeadTailProperties
    <2>2. \A i \in 3..Len(s) : s[i] \in Symbols
      <3> TAKE i \in 3..Len(s)
      <3>1. i \in 1..Len(s) BY <1>2, <1>3
      <3> HIDE DEF s
      <3> QED BY <1>3, <3>1, ElementOfSeq
    <2>3. /\ SubSeq(s, 3, Len(s)) \in Seq(Symbols)
          /\ Len(SubSeq(s, 3, Len(s))) = Len(w) - 1
          /\ \A i \in 1..(Len(s) - 3 + 1) : SubSeq(s, 3, Len(s))[i] = s[3 + i - 1]
      <3> HIDE DEF s
      <3>1. Len(s) \in Int BY <1>2, <1>3
      <3>2. Len(s) = Len(w) + 1 BY <1>3
      <3>3. (3 <= Len(s) => Len(s) - 3 + 1 = Len(w) - 1)
            /\ (~(3 <= Len(s)) => 0 = Len(w) - 1)
        <4>1. ASSUME NEW a \in Nat, a # 0, NEW b, b = a + 1
              PROVE  /\ 3 <= b => b - 3 + 1 = a - 1
                     /\ ~(3 <= b) => 0 = a - 1
          BY <4>1
        <4> QED BY <1>2, <3>2, <4>1
      <3> QED BY <2>2, <3>1, <3>3, SubSeqProperties
    <2>4. \A i \in 1..(Len(w) - 1) : SubSeq(s, 3, Len(s))[i] = Tail(w)[i]
      <3> TAKE i \in 1..(Len(w) - 1)
      <3> HIDE DEF s
      <3>1. /\ i \in 1..(Len(s) - 3 + 1) /\ 3 + i - 1 = i + 2
            /\ i + 2 \in 1..(Len(w) + 1) /\ ~(i + 2 <= 1) /\ (i + 2) - 1 = i + 1
        BY <1>2, <1>3
      <3>2. SubSeq(s, 3, Len(s))[i] = s[i + 2] BY <2>3, <3>1
      <3>3. s[i + 2] = w[i + 1] BY <1>3, <3>1
      <3> QED BY <2>1, <3>2, <3>3
    <2> HIDE DEF s
    <2> QED BY <2>1, <2>3, <2>4, SeqEqual
  <1>7. 2 - 1 = 1 /\ 2 + 1 = 3 OBVIOUS
  <1> QED BY <1>4, <1>5, <1>6, <1>7

-----------------------------------------------------------------------------
(* The steps of the bus, the DMA and the interrupts.                       *)
USE DEF busVars, rxRegs, txRegs, rxHal, bufVars, flagVars

LEMMA SameView == ASSUME UNCHANGED <<pc, bufVars, error_, is_writing>>
                  PROVE  UNCHANGED <<Rx, Wp, Err, Wr>>
  BY DEF Rx, Wp, Err, Wr, Closed

LEMMA SendRefines == ASSUME UartInv, NEW s \in Symbols, Send(s) PROVE Port!Rs485Next
  <1>1. UNCHANGED <<Rx, Wp, Err, is_read_pause_, Wr>> BY SameView DEF Send
  <1>2. wire' = Append(wire, s) /\ UNCHANGED <<RXNE, RDR>> BY DEF Send
  <1>3. wire \in Seq(Symbols) /\ <<s>> \in Seq(Symbols) BY DEF UartInv, BufTypes
  <1>4. Line' = Append(Line, s)
    <2>1. CASE RXNE
      <3>1. <<RDR>> \in Seq(Symbols) BY DEF UartInv, BufTypes
      <3>2. Append(wire, s) = wire \o <<s>> BY <1>3, AppendIsConcat
      <3>3. Line' = <<RDR>> \o (wire \o <<s>>) BY <1>2, <2>1, <3>2 DEF Line
      <3>4. Line = <<RDR>> \o wire /\ Line \in Seq(Symbols) BY <2>1, LineFull
      <3>5. Append(Line, s) = Line \o <<s>> BY <3>4, AppendIsConcat
      <3> QED BY <1>3, <3>1, <3>3, <3>4, <3>5, ConcatAssociative
    <2>2. CASE ~RXNE
      <3>1. Line = wire BY <2>2, LineBare
      <3>2. Append(wire, s) \in Seq(Symbols) BY <1>3, AppendProperties
      <3>3. Line' = << >> \o Append(wire, s) BY <1>2, <2>2 DEF Line
      <3> QED BY <3>1, <3>2, <3>3, ConcatEmptySeq
    <2> QED BY <2>1, <2>2
  <1>5. Line \in Seq(Symbols) BY <1>3, LineFull, LineBare
  <1> QED BY <1>1, <1>4, <1>5, PortSends

LEMMA ReceiveRefines ==
  ASSUME UartInv, Receive
  PROVE  Port!Rs485Next \/ UNCHANGED Port!rs485Vars
  <1>1. UNCHANGED <<Rx, Wp, Err, is_read_pause_, Wr>> BY SameView DEF Receive
  <1>2. wire \in Seq(Symbols) /\ wire # << >> /\ wire' = Tail(wire)
    BY DEF Receive, UartInv, BufTypes
  <1>3. CASE RXNE
    <2>1. UNCHANGED <<RDR, RXNE>> BY <1>3 DEF Receive
    <2>2. Line = <<RDR>> \o wire BY <1>3, LineFull
    <2>3. Line' = <<RDR>> \o Tail(wire) BY <1>2, <1>3, <2>1 DEF Line
    <2>4. RDR \in Symbols BY DEF UartInv, BufTypes
    <2>5. /\ 2 \in DOMAIN Line
          /\ Line' = SubSeq(Line, 1, 2 - 1) \o SubSeq(Line, 2 + 1, Len(Line))
      BY <1>2, <2>2, <2>3, <2>4, SecondIsLost
    <2> QED BY <1>1, <2>5, PortLoses
  <1>4. CASE ~RXNE
    <2>1. Line = wire BY <1>4, LineBare
    <2>2. RXNE' = TRUE /\ RDR' \in {Head(wire), Noise} BY <1>4 DEF Receive
    <2>3. Line' = <<RDR'>> \o Tail(wire) BY <1>2, <2>2 DEF Line
    <2>4. /\ Head(wire) = wire[1] /\ Head(wire) \in Symbols
          /\ Tail(wire) \in Seq(Symbols) /\ Len(Tail(wire)) = Len(wire) - 1
          /\ \A i \in 1..(Len(wire) - 1) : Tail(wire)[i] = wire[i + 1]
      BY <1>2, HeadTailProperties
    <2>5. Len(wire) \in Nat \ {0} BY <1>2, LenProperties, EmptySeq
    <2>6. RDR' \in Symbols BY <2>2, <2>4, UartAssumption DEF UartAssumption
    <2>7. /\ Line' \in Seq(Symbols) /\ Len(Line') = Len(wire)
          /\ \A i \in 1..Len(wire) : Line'[i] = IF i = 1 THEN RDR' ELSE wire[i]
      <3> DEFINE x == RDR'
                 t == <<x>> \o Tail(wire)
      <3>1. <<x>> \in Seq(Symbols) /\ Len(<<x>>) = 1 /\ <<x>>[1] = x BY <2>6
      <3> HIDE DEF x
      <3>2. /\ t \in Seq(Symbols) /\ Len(t) = 1 + (Len(wire) - 1)
            /\ \A i \in 1..(1 + (Len(wire) - 1)) :
                 t[i] = IF i <= 1 THEN <<x>>[i] ELSE Tail(wire)[i - 1]
        BY <2>4, <3>1, ConcatProperties
      <3> HIDE DEF t
      <3>3. 1 + (Len(wire) - 1) = Len(wire) BY <2>5
      <3>4. \A i \in 1..Len(wire) : t[i] = IF i = 1 THEN x ELSE wire[i]
        <4> TAKE i \in 1..Len(wire)
        <4>1. CASE i = 1 BY <3>1, <3>2, <3>3, <4>1
        <4>2. CASE i # 1
          <5>1. ~(i <= 1) /\ i - 1 \in 1..(Len(wire) - 1) /\ (i - 1) + 1 = i
            BY <2>5, <4>2
          <5> QED BY <2>4, <3>2, <3>3, <4>2, <5>1
        <4> QED BY <4>1, <4>2
      <3> QED BY <2>3, <3>2, <3>3, <3>4 DEF t, x
    <2>8. CASE RDR' = Head(wire)
      <3>1. \A i \in 1..Len(wire) : Line'[i] = wire[i] BY <2>4, <2>7, <2>8
      <3>2. Line' = wire BY <1>2, <2>7, <3>1, SeqEqual
      <3> QED BY <1>1, <2>1, <3>2, PortStutters
    <2>9. CASE RDR' = Noise /\ Noise # Head(wire)
      <3>1. Noise \in Symbols BY UartAssumption DEF UartAssumption
      <3>2. 1 \in 1..Len(wire) /\ DOMAIN wire = 1..Len(wire)
        BY <1>2, <2>5, LenProperties
      <3>3. /\ [wire EXCEPT ![1] = Noise] \in Seq(Symbols)
            /\ Len([wire EXCEPT ![1] = Noise]) = Len(wire)
            /\ \A j \in 1..Len(wire) :
                 [wire EXCEPT ![1] = Noise][j] = IF j = 1 THEN Noise ELSE wire[j]
        BY <1>2, <3>1, <3>2, ExceptSeq
      <3>4. \A j \in 1..Len(wire) : Line'[j] = [wire EXCEPT ![1] = Noise][j]
        BY <2>7, <2>9, <3>3
      <3>5. Line' = [wire EXCEPT ![1] = Noise] BY <2>7, <3>3, <3>4, SeqEqual
      <3> QED BY <1>1, <2>1, <2>4, <2>9, <3>2, <3>5, PortDamages
    <2> QED BY <2>2, <2>8, <2>9
  <1> QED BY <1>3, <1>4

LEMMA TxInterruptRefines ==
  ASSUME UartInv, ShiftedOut \/ DmaDone \/ DmaError
  PROVE  Port!Rs485Next \/ UNCHANGED Port!rs485Vars
  <1>1. UNCHANGED <<Line, is_read_pause_>>
    BY DEF ShiftedOut, DmaDone, DmaError, Line
  <1>2. CASE ShiftedOut \/ DmaDone
    <2>1. UNCHANGED <<pc, bufVars, error_, is_writing>> BY <1>2 DEF ShiftedOut, DmaDone
    <2> QED BY <1>1, <2>1, SameView, PortStutters
  <1>3. CASE DmaError
    <2>1. /\ UNCHANGED <<pc, bufVars, is_writing>> /\ error_' = "UART_OVERFLOW"
      BY <1>3 DEF DmaError
    <2>2. UNCHANGED <<Rx, Wp, Wr>> BY <2>1 DEF Rx, Wp, Wr, Closed
    <2>3. CASE Closed
      <3>1. Err' = Err BY <2>1, <2>3 DEF Err, Closed
      <3> QED BY <1>1, <2>2, <3>1, PortStutters
    <2>4. CASE ~Closed
      <3>1. Err' = "UART_OVERFLOW" BY <2>1, <2>4 DEF Err, Closed
      <3> QED BY <1>1, <2>2, <3>1, PortFails
    <2> QED BY <2>3, <2>4
  <1> QED BY <1>2, <1>3

\* A symbol taken out of RDR has arrived, or is lost.
LEMMA RdrIsTaken ==
  ASSUME UartInv, RXNE, RXNE' = FALSE, wire' = wire
  PROVE  /\ Line \in Seq(Symbols) /\ Line # << >> /\ Head(Line) = RDR
         /\ Line' = Tail(Line)
  <1>1. Line \in Seq(Symbols) /\ Line # << >> /\ Head(Line) = RDR /\ Tail(Line) = wire
    BY LineFull
  <1>2. wire \in Seq(Symbols) BY DEF UartInv, BufTypes
  <1>3. Line' = << >> \o wire BY DEF Line
  <1> QED BY <1>1, <1>2, <1>3, ConcatEmptySeq

LEMMA NotifyTakes == ASSUME ~Closed, pc' = pc, Notify(RDR) PROVE Takes(RDR)
  <1>1. Rx = rx_buf_ /\ Rx' = rx_buf_' /\ Wp = wpos /\ Wp' = wpos'
    BY DEF Rx, Wp, Closed
  <1> QED BY <1>1 DEF Takes, Notify, HasRoom

\* The interrupts for reception are off in a closed port.
LEMMA ClosedIsQuiet == ASSUME UartInv, RXNEIE \/ EIE PROVE ~Closed
  BY DEF UartInv, RxInv, Closed, Opening

LEMMA RxByOneByteRefines ==
  ASSUME UartInv, RxByOneByte
  PROVE  Port!Rs485Next \/ UNCHANGED Port!rs485Vars
  <1>1. UNCHANGED <<wire, RDR, pc, is_writing, is_read_pause_>> BY DEF RxByOneByte
  <1>2. CASE RXNE /\ RXNEIE
    <2>1. /\ RXNE' = FALSE /\ Notify(RDR)
          /\ error_' = IF Overflows THEN "RX_BUFFER_OVERFLOW" ELSE error_
      BY <1>2 DEF RxByOneByte
    <2>2. ~Closed BY <1>2, ClosedIsQuiet
    <2>3. Line # << >> /\ Line' = Tail(Line) /\ Takes(Head(Line))
      BY <1>1, <1>2, <2>1, <2>2, RdrIsTaken, NotifyTakes
    <2>4. UNCHANGED Wr BY <1>1 DEF Wr, Closed
    <2>5. Err' = IF ~is_read_pause_ /\ ~(Len(Rx) < RxSize - 1)
                 THEN "RX_BUFFER_OVERFLOW" ELSE Err
      BY <1>1, <2>1, <2>2 DEF Err, Rx, Closed, Overflows, HasRoom
    <2> QED BY <1>1, <2>3, <2>4, <2>5, PortArrives
  <1>3. CASE ~(RXNE /\ RXNEIE)
    <2>1. UNCHANGED <<RXNE, bufVars, error_>> BY <1>3 DEF RxByOneByte
    <2>2. UNCHANGED Line BY <1>1, <2>1 DEF Line
    <2> QED BY <1>1, <2>1, <2>2, SameView, PortStutters
  <1> QED BY <1>2, <1>3

LEMMA HalReceivedRefines ==
  ASSUME UartInv, HalReceived
  PROVE  Port!Rs485Next \/ UNCHANGED Port!rs485Vars
  <1>1. /\ UNCHANGED <<wire, RDR, pc, is_writing, is_read_pause_>>
        /\ RXNE /\ RXNEIE /\ RxISR_8BIT /\ RXNE' = (RXNE /\ ~TakesByte)
        /\ error_' = IF EndsRead /\ Overflows THEN "RX_BUFFER_OVERFLOW" ELSE error_
    BY DEF HalReceived
  <1>2. ~Closed BY <1>1, ClosedIsQuiet
  <1>3. UNCHANGED Wr BY <1>1 DEF Wr, Closed
  <1>4. CASE EndsRead
    <2>1. Notify(RDR) /\ RXNE' = FALSE
      BY <1>1, <1>4 DEF RxISR_8BIT, EndsRead
    <2>2. Line # << >> /\ Line' = Tail(Line) /\ Takes(Head(Line))
      BY <1>1, <1>2, <2>1, RdrIsTaken, NotifyTakes
    <2>3. Err' = IF ~is_read_pause_ /\ ~(Len(Rx) < RxSize - 1)
                 THEN "RX_BUFFER_OVERFLOW" ELSE Err
      BY <1>1, <1>2, <1>4 DEF Err, Rx, Closed, Overflows, HasRoom
    <2> QED BY <1>1, <1>3, <2>2, <2>3, PortArrives
  <1>5. CASE ~EndsRead
    <2>1. UNCHANGED <<bufVars, error_>> BY <1>1, <1>5 DEF RxISR_8BIT
    <2>2. UNCHANGED <<Rx, Wp, Err, Wr>> BY <1>1, <2>1, SameView
    <2>3. CASE TakesByte
      <3>1. RXNE' = FALSE BY <1>1, <2>3
      <3>2. Line \in Seq(Symbols) /\ Line # << >> /\ Line' = Tail(Line)
        BY <1>1, <3>1, RdrIsTaken
      <3> QED BY <1>1, <2>2, <3>2, FirstIsLost, PortLoses
    <2>4. CASE ~TakesByte
      <3>1. RXNE' = RXNE BY <1>1, <2>4 DEF UartInv, RxTypes
      <3>2. wire' = wire /\ RDR' = RDR BY <1>1
      <3>3. UNCHANGED Line BY <3>1, <3>2 DEF Line
      <3> QED BY <1>1, <2>2, <3>3, PortStutters
    <2> QED BY <2>3, <2>4
  <1> QED BY <1>4, <1>5

LEMMA HalErrorRefines ==
  ASSUME UartInv, PortInv, HalError
  PROVE  Port!Rs485Next \/ UNCHANGED Port!rs485Vars
  <1>1. /\ UNCHANGED <<wire, RDR, pc, is_writing, is_read_pause_>>
        /\ EIE \/ RXNEIE
    BY DEF HalError
  <1>2. ~Closed BY <1>1, ClosedIsQuiet
  <1>3. UNCHANGED Wr BY <1>1 DEF Wr, Closed
  <1>4. CASE CodeNow = {}
    <2>1. UNCHANGED <<RXNE, bufVars, error_>> BY <1>4 DEF HalError
    <2>2. UNCHANGED Line BY <1>1, <2>1 DEF Line
    <2> QED BY <1>1, <2>1, <2>2, SameView, PortStutters
  <1>5. CASE CodeNow # {}
    <2>1. /\ RxISR_8BIT /\ RXNE' = (RXNE /\ ~TakesByte) /\ error_' = "UART_OVERFLOW"
      BY <1>5 DEF HalError
    <2>2. Err' = "UART_OVERFLOW" BY <1>1, <1>2, <2>1 DEF Err, Closed
    <2>3. CASE EndsRead
      <3>1. Notify(RDR) /\ RXNE /\ RXNE' = FALSE
        BY <2>1, <2>3 DEF RxISR_8BIT, EndsRead, TakesByte
      <3>2. Line # << >> /\ Line' = Tail(Line) /\ Takes(Head(Line))
        BY <1>1, <1>2, <3>1, RdrIsTaken, NotifyTakes
      <3> QED BY <1>1, <1>3, <2>2, <3>2, PortFails
    <2>4. CASE ~EndsRead
      <3>1. UNCHANGED bufVars BY <2>1, <2>4 DEF RxISR_8BIT
      <3>2. UNCHANGED <<Rx, Wp>> BY <1>1, <3>1 DEF Rx, Wp, Closed
      <3>3. CASE TakesByte
        <4>1. RXNE /\ RXNE' = FALSE /\ RXNEIE /\ RxISR BY <2>1, <3>3 DEF TakesByte
        <4>2. RxState = "READY" BY <2>4, <3>3 DEF EndsRead, UartInv, RxTypes
        <4>3. \/ error_ = "UART_OVERFLOW"
              \/ error_ = "RX_BUFFER_OVERFLOW" /\ ~HasRoom
          BY <4>1, <4>2 DEF PortInv
        <4>4. Line \in Seq(Symbols) /\ Line # << >> /\ Line' = Tail(Line)
          BY <1>1, <4>1, RdrIsTaken
        <4>5. CASE error_ = "UART_OVERFLOW"
          <5>1. Err' = Err BY <1>2, <2>2, <4>5 DEF Err
          <5> QED BY <1>1, <1>3, <3>2, <4>4, <5>1, FirstIsLost, PortLoses
        <4>6. CASE ~HasRoom
          <5>1. ~(Len(Rx) < RxSize - 1) BY <1>2, <4>6 DEF Rx, HasRoom
          <5>2. Takes(Head(Line)) BY <3>2, <5>1 DEF Takes
          <5> QED BY <1>1, <1>3, <2>2, <4>4, <5>2, PortFails
        <4> QED BY <4>3, <4>5, <4>6
      <3>4. CASE ~TakesByte
        <4>1. RXNE' = RXNE BY <2>1, <3>4 DEF UartInv, RxTypes
        <4>2. UNCHANGED Line BY <1>1, <4>1 DEF Line
        <4> QED BY <1>1, <1>3, <2>2, <3>2, <4>2, PortFails
      <3> QED BY <3>3, <3>4
    <2> QED BY <2>3, <2>4
  <1> QED BY <1>4, <1>5

LEMMA HalOtherRefines ==
  ASSUME UartInv, HalOther
  PROVE  Port!Rs485Next \/ UNCHANGED Port!rs485Vars
  <1>1. UNCHANGED <<wire, RDR, RXNE, pc, bufVars, error_, is_read_pause_>>
    BY DEF HalOther
  <1>2. UNCHANGED <<Line, Rx, Wp, Err>> BY <1>1 DEF Line, Rx, Wp, Err, Closed
  <1>3. is_writing' = is_writing \/ is_writing' = FALSE BY DEF HalOther
  <1>4. CASE Wr /\ is_writing' = FALSE
    <2>1. Wr' = FALSE BY <1>4 DEF Wr
    <2> QED BY <1>1, <1>2, <1>4, <2>1, PortFinishes
  <1>5. CASE ~(Wr /\ is_writing' = FALSE)
    <2>1. UNCHANGED Wr BY <1>1, <1>3, <1>5 DEF Wr, Closed
    <2> QED BY <1>1, <1>2, <2>1, PortStutters
  <1> QED BY <1>4, <1>5

-----------------------------------------------------------------------------
(* The steps of the thread.                                                *)

LEMMA OffRefines == ASSUME UartInv, Off PROVE Port!Rs485Next
  <1>1. /\ pc' = "stop_write" /\ ~is_read_pause_
        /\ UNCHANGED <<wire, RDR, RXNE, is_read_pause_>>
    BY DEF Off, Thread, AbortReceive
  <1>2. is_read_pause_' = FALSE BY <1>1 DEF UartInv, FlagTypes
  <1>3. Closed' BY <1>1 DEF Closed
  <1>4. Rx' = << >> /\ Wp' = 0 /\ Err' = "NO" /\ Wr' = FALSE
    BY <1>3 DEF Rx, Wp, Err, Wr
  <1>5. Line' = Line BY <1>1 DEF Line
  <1>6. Line \in Seq(Symbols) BY LineFull, LineBare DEF UartInv, RxTypes
  <1> QED BY <1>2, <1>4, <1>5, <1>6, PortReopens

\* RDR is emptied: its symbol, if there is one, is lost.
LEMMA EmptiesRdr ==
  ASSUME UartInv, RXNE' = FALSE, wire' = wire, RDR' = RDR,
         UNCHANGED <<Rx, Wp, Err, is_read_pause_, Wr>>
  PROVE  Port!Rs485Next \/ UNCHANGED Port!rs485Vars
  <1>1. CASE RXNE
    <2>1. Line \in Seq(Symbols) /\ Line # << >> /\ Line' = Tail(Line)
      BY <1>1, RdrIsTaken
    <2> QED BY <2>1, FirstIsLost, PortLoses
  <1>2. CASE ~RXNE
    <2>1. Line' = Line BY <1>2 DEF Line
    <2> QED BY <2>1, PortStutters
  <1> QED BY <1>1, <1>2

LEMMA ReopeningRefines ==
  ASSUME UartInv, PortInv, Reopening
  PROVE  Port!Rs485Next \/ UNCHANGED Port!rs485Vars
  <1>1. CASE Off BY <1>1, OffRefines
  <1>2. CASE StopWrite
    <2>1. Closed /\ Closed' /\ UNCHANGED <<wire, RDR, RXNE, is_read_pause_>>
      BY <1>2 DEF StopWrite, Thread, Closed
    <2>2. UNCHANGED <<Rx, Wp, Err, Wr>> BY <2>1 DEF Rx, Wp, Err, Wr
    <2>3. UNCHANGED Line BY <2>1 DEF Line
    <2> QED BY <2>1, <2>2, <2>3, PortStutters
  <1>3. CASE Config
    <2>1. Closed /\ Closed' /\ UNCHANGED <<wire, RDR, is_read_pause_>> /\ RXNE' = FALSE
      BY <1>3 DEF Config, Thread, Closed
    <2>2. UNCHANGED <<Rx, Wp, Err, Wr>> BY <2>1 DEF Rx, Wp, Err, Wr
    <2> QED BY <2>1, <2>2, EmptiesRdr
  <1>4. CASE On
    <2>1. /\ pc = "on" /\ pc' = "stop_read"
          /\ rx_buf_' = << >> /\ wpos' = 0 /\ error_' = "NO"
          /\ UNCHANGED <<wire, RDR, RXNE, is_writing, is_read_pause_>>
      BY <1>4 DEF On, Thread
    <2>2. ~is_writing BY <2>1 DEF UartInv, TxInv, Opening
    <2>3. Closed /\ ~Closed' BY <2>1 DEF Closed
    <2>4. UNCHANGED <<Rx, Wp, Err>> BY <2>1, <2>3 DEF Rx, Wp, Err
    <2>5. UNCHANGED Wr BY <2>1, <2>2, <2>3 DEF Wr, UartInv, TxTypes
    <2>6. UNCHANGED Line BY <2>1 DEF Line
    <2> QED BY <2>1, <2>4, <2>5, <2>6, PortStutters
  <1>5. CASE StopRead \/ ClearRxBuf \/ EnableEIE \/ EnableRXNEIE
    <2>1. /\ UNCHANGED <<bufVars, error_, is_writing, wire, RDR, RXNE, is_read_pause_>>
          /\ ~Closed /\ ~Closed'
      BY <1>5 DEF StopRead, AbortReceive, ClearRxBuf, EnableEIE, EnableRXNEIE, Thread,
                  Closed
    <2>2. UNCHANGED <<Rx, Wp, Err, Wr>> BY <2>1 DEF Rx, Wp, Err, Wr
    <2>3. UNCHANGED Line BY <2>1 DEF Line
    <2> QED BY <2>1, <2>2, <2>3, PortStutters
  <1>6. CASE PollTakes
    <2>1. /\ UNCHANGED <<bufVars, error_, is_writing, wire, RDR, is_read_pause_, pc>>
          /\ RXNE' = FALSE
      BY <1>6 DEF PollTakes, Thread
    <2> QED BY <2>1, SameView, EmptiesRdr
  <1>7. CASE PollEnds
    <2>1. /\ UNCHANGED <<bufVars, error_, is_writing, wire, RDR, RXNE, is_read_pause_>>
          /\ ~Closed /\ ~Closed'
      BY <1>7 DEF PollEnds, Thread, Closed
    <2>2. UNCHANGED <<Rx, Wp, Err, Wr>> BY <2>1 DEF Rx, Wp, Err, Wr
    <2>3. UNCHANGED Line BY <2>1 DEF Line
    <2> QED BY <2>1, <2>2, <2>3, PortStutters
  <1>8. CASE ReceiveIT
    <2>1. /\ UNCHANGED <<bufVars, error_, is_writing, wire, RDR, RXNE>>
          /\ pc = "receive" /\ ~Closed /\ ~Closed' /\ is_read_pause_' = FALSE
      BY <1>8 DEF ReceiveIT, Thread, Closed
    <2>2. ~is_read_pause_ BY <2>1 DEF PortInv, Opening
    <2>3. UNCHANGED is_read_pause_ BY <2>1, <2>2 DEF UartInv, FlagTypes
    <2>4. UNCHANGED <<Rx, Wp, Err, Wr>> BY <2>1 DEF Rx, Wp, Err, Wr
    <2>5. UNCHANGED Line BY <2>1 DEF Line
    <2> QED BY <2>3, <2>4, <2>5, PortStutters
  <1> QED BY <1>1, <1>2, <1>3, <1>4, <1>5, <1>6, <1>7, <1>8 DEF Reopening

LEMMA CallerRefines ==
  ASSUME UartInv, PortInv, Caller
  PROVE  Port!Rs485Next \/ UNCHANGED Port!rs485Vars
  <1>1. CASE CheckError \/ \E m \in Messages : StartWrite(m)
    <2>1. /\ UNCHANGED <<bufVars, error_, is_writing, wire, RDR, RXNE, is_read_pause_>>
          /\ ~Closed /\ ~Closed'
      BY <1>1 DEF CheckError, StartWrite, Thread, Closed
    <2>2. UNCHANGED <<Rx, Wp, Err, Wr>> BY <2>1 DEF Rx, Wp, Err, Wr
    <2>3. UNCHANGED Line BY <2>1 DEF Line
    <2> QED BY <2>1, <2>2, <2>3, PortStutters
  <1>2. CASE WriteStarted
    <2>1. /\ UNCHANGED <<bufVars, error_, wire, RDR, RXNE, is_read_pause_>>
          /\ pc = "start_write" /\ pc' = "work" /\ is_writing' = TRUE
      BY <1>2 DEF WriteStarted, UartInv, FlagTypes
    <2>2. ~is_writing BY <2>1 DEF UartInv, TxInv
    <2>3. ~Closed /\ ~Closed' BY <2>1 DEF Closed
    <2>4. UNCHANGED <<Rx, Wp, Err>> /\ ~Wr /\ Wr' = TRUE
      BY <2>1, <2>2, <2>3 DEF Rx, Wp, Err, Wr
    <2>5. UNCHANGED Line BY <2>1 DEF Line
    <2> QED BY <2>1, <2>4, <2>5, PortStarts
  <1>3. ASSUME NEW n \in 0..(RxSize - 1), Read(n)
        PROVE  Port!Rs485Next \/ UNCHANGED Port!rs485Vars
    <2>1. /\ UNCHANGED <<wpos, error_, is_writing, wire, RDR, RXNE, is_read_pause_>>
          /\ ~Closed /\ ~Closed' /\ n <= Len(rx_buf_)
          /\ rx_buf_' = SubSeq(rx_buf_, n + 1, Len(rx_buf_))
      BY <1>3 DEF Read, Thread, Closed
    <2>2. /\ UNCHANGED <<Wp, Err, Wr>> /\ n <= Len(Rx)
          /\ Rx' = SubSeq(Rx, n + 1, Len(Rx)) /\ Rx \in Seq(Symbols)
      BY <2>1 DEF Rx, Wp, Err, Wr, UartInv, BufTypes
    <2>3. UNCHANGED Line BY <2>1 DEF Line
    <2>4. CASE n = 0
      <3>1. Rx' = SubSeq(Rx, 1, Len(Rx)) BY <2>2, <2>4
      <3>2. Rx' = Rx BY <2>2, <3>1, SubSeqFull
      <3> QED BY <2>1, <2>2, <2>3, <3>2, PortStutters
    <2>5. CASE n # 0
      <3>1. n \in 1..(RxSize - 1) BY <2>5, UartAssumption DEF UartAssumption
      <3>2. Len(Rx) >= n BY <2>2, <3>1, LenProperties
      <3> QED BY <2>1, <2>2, <2>3, <3>1, <3>2, PortReads
    <2> QED BY <2>4, <2>5
  <1>4. CASE PauseOrResume
    <2>1. /\ UNCHANGED <<bufVars, error_, is_writing, wire, RDR, RXNE, pc>>
          /\ is_read_pause_' = ~is_read_pause_
      BY <1>4 DEF PauseOrResume, Thread
    <2>2. UNCHANGED <<Rx, Wp, Err, Wr>> BY <2>1, SameView
    <2>3. UNCHANGED Line BY <2>1 DEF Line
    <2> QED BY <2>1, <2>2, <2>3, PortPauses
  <1> QED BY <1>1, <1>2, <1>3, <1>4 DEF Caller

-----------------------------------------------------------------------------
(* The refinement.                                                         *)

LEMMA StepRefines ==
  ASSUME UartInv, PortInv, [Next]_vars PROVE [Port!Rs485Next]_(Port!rs485Vars)
  <1>1. CASE Bus
    BY <1>1, SendRefines, ReceiveRefines, TxInterruptRefines DEF Bus
  <1>2. CASE Interrupt
    BY <1>2, RxByOneByteRefines, HalReceivedRefines, HalErrorRefines, HalOtherRefines
    DEF Interrupt
  <1>3. CASE DmaDone \/ DmaError BY <1>3, TxInterruptRefines
  <1>4. CASE Reopening BY <1>4, ReopeningRefines
  <1>5. CASE Caller BY <1>5, CallerRefines
  <1>6. CASE UNCHANGED vars
    <2>1. UNCHANGED <<wire, RDR, RXNE, pc, rx_buf_, wpos, error_, is_writing,
                      is_read_pause_>>
      BY <1>6 DEF vars
    <2>2. UNCHANGED Line BY <2>1 DEF Line
    <2> QED BY <2>1, <2>2, SameView, PortStutters
  <1> QED BY <1>1, <1>2, <1>3, <1>4, <1>5, <1>6 DEF Next

LEMMA InitRefines == ASSUME Init PROVE Port!Rs485Init
  <1>1. Closed /\ ~RXNE /\ wire = << >> /\ ~is_read_pause_ BY DEF Init, Closed
  <1>2. Line = << >> \o << >> BY <1>1 DEF Line
  <1>3. << >> \o << >> = << >> BY EmptySeq, ConcatEmptySeq
  <1>4. /\ Line = << >> /\ Rx = << >> /\ Wp = 0 /\ Err = "NO" /\ Wr = FALSE
    BY <1>1, <1>2, <1>3 DEF Rx, Wp, Err, Wr
  <1>5. is_read_pause_ = FALSE BY DEF Init
  <1> QED BY <1>4, <1>5 DEF Port!Rs485Init, Line, Rx, Wp, Err, Wr

LEMMA PortInvKept == ASSUME UartInv, PortInv, [Next]_vars PROVE PortInv'
  <1>1. CASE Bus \/ DmaDone
    <2>1. UNCHANGED <<pc, is_read_pause_, RXNEIE, RxISR, RxState, rx_buf_, error_>>
      BY <1>1 DEF Bus, Send, Receive, ShiftedOut, DmaDone
    <2> QED BY <2>1 DEF PortInv, HasRoom
  <1>2. CASE DmaError
    <2>1. /\ error_' = "UART_OVERFLOW"
          /\ UNCHANGED <<pc, is_read_pause_, RXNEIE, RxISR, RxState>>
      BY <1>2 DEF DmaError
    <2> QED BY <2>1 DEF PortInv
  <1>3. CASE RxByOneByte
    <2>1. UNCHANGED <<pc, is_read_pause_, RXNEIE, RxISR, RxState>>
      BY <1>3 DEF RxByOneByte
    <2>2. CASE RXNE /\ RXNEIE
      <3>1. /\ error_' = IF Overflows THEN "RX_BUFFER_OVERFLOW" ELSE error_
            /\ Notify(RDR)
        BY <1>3, <2>2 DEF RxByOneByte
      <3>2. pc \notin Opening \cup {"stop_write"}
        BY <2>2 DEF UartInv, RxInv, Opening
      <3>3. ~HasRoom => UNCHANGED rx_buf_ BY <3>1 DEF Notify
      <3>4. ~HasRoom => ~HasRoom' BY <3>3 DEF HasRoom
      <3> QED BY <2>1, <3>1, <3>2, <3>4 DEF PortInv, Overflows
    <2>3. CASE ~(RXNE /\ RXNEIE)
      <3>1. UNCHANGED <<rx_buf_, error_>> BY <1>3, <2>3 DEF RxByOneByte
      <3> QED BY <2>1, <3>1 DEF PortInv, HasRoom
    <2> QED BY <2>2, <2>3
  <1>4. CASE HalReceived
    <2>1. /\ UNCHANGED <<pc, is_read_pause_>> /\ RXNEIE /\ ClosesIf(EndsRead)
          /\ RxISR_8BIT
          /\ error_' = IF EndsRead /\ Overflows THEN "RX_BUFFER_OVERFLOW" ELSE error_
      BY <1>4 DEF HalReceived
    <2>2. pc \notin Opening \cup {"stop_write"}
      BY <2>1 DEF UartInv, RxInv, Opening
    <2>3. CASE EndsRead
      <3>1. RXNEIE' = FALSE BY <2>1, <2>3 DEF ClosesIf
      <3> QED BY <2>1, <2>2, <3>1 DEF PortInv, Opening
    <2>4. CASE ~EndsRead
      <3>1. UNCHANGED <<RXNEIE, RxISR, RxState, rx_buf_, error_>>
        BY <2>1, <2>4 DEF ClosesIf, RxISR_8BIT
      <3> QED BY <2>1, <3>1 DEF PortInv, HasRoom
    <2> QED BY <2>3, <2>4
  <1>5. CASE HalError
    <2>1. UNCHANGED <<pc, is_read_pause_>> BY <1>5 DEF HalError
    <2>2. CASE CodeNow = {}
      <3>1. UNCHANGED <<RXNEIE, RxISR, RxState, rx_buf_, error_>>
        BY <1>5, <2>2 DEF HalError
      <3> QED BY <2>1, <3>1 DEF PortInv, HasRoom
    <2>3. CASE CodeNow # {}
      <3>1. error_' = "UART_OVERFLOW" /\ ClosesIf(EndsRead \/ "ORE" \in CodeNow)
        BY <1>5, <2>3 DEF HalError
      <3>2. RXNEIE' = FALSE \/ UNCHANGED <<RXNEIE, RxISR, RxState>>
        BY <3>1 DEF ClosesIf
      <3> QED BY <2>1, <3>1, <3>2 DEF PortInv
    <2> QED BY <2>2, <2>3
  <1>6. CASE HalOther BY <1>6 DEF HalOther, PortInv, HasRoom
  <1>7. CASE Reopening
    <2>1. CASE Off
      <3>1. pc' = "stop_write" /\ is_read_pause_' = is_read_pause_ /\ ~is_read_pause_
            /\ RXNEIE' = FALSE
        BY <2>1 DEF Off, Thread, AbortReceive
      <3> QED BY <3>1 DEF PortInv, Opening
    <2>2. CASE StopWrite \/ Config
      <3>1. /\ pc' \in {"config", "on"} /\ is_read_pause_' = is_read_pause_
            /\ RXNEIE' = RXNEIE /\ pc \in {"stop_write", "config"}
        BY <2>2 DEF StopWrite, Config, Thread
      <3>2. ~RXNEIE /\ ~is_read_pause_
        BY <3>1 DEF UartInv, RxInv, PortInv, Opening
      <3> QED BY <3>1, <3>2 DEF PortInv, Opening
    <2>3. CASE On
      <3>1. /\ pc = "on" /\ pc' = "stop_read" /\ error_' = "NO"
            /\ UNCHANGED <<is_read_pause_, RXNEIE>>
        BY <2>3 DEF On, Thread
      <3>2. ~RXNEIE /\ ~is_read_pause_
        BY <3>1 DEF UartInv, RxInv, PortInv, Opening
      <3> QED BY <3>1, <3>2 DEF PortInv
    <2>4. CASE StopRead \/ ClearRxBuf \/ PollTakes \/ PollEnds \/ EnableEIE
      <3>1. /\ pc \in {"stop_read", "clear", "poll", "eie"}
            /\ pc' \in {"clear", "poll", "receive", "rxneie"}
            /\ UNCHANGED <<is_read_pause_, error_>>
            /\ RXNEIE' = RXNEIE \/ RXNEIE' = FALSE
        BY <2>4 DEF StopRead, AbortReceive, ClearRxBuf, PollTakes, PollEnds, EnableEIE,
                    Thread
      <3>2. /\ ~RXNEIE /\ ~is_read_pause_ /\ error_ # "RX_BUFFER_OVERFLOW"
        BY <3>1 DEF UartInv, RxInv, PortInv, Opening
      <3> QED BY <3>1, <3>2 DEF PortInv
    <2>5. CASE ReceiveIT
      <3>1. /\ pc = "receive" /\ pc' \in {"eie", "ErrorHandler"}
            /\ is_read_pause_' = FALSE /\ UNCHANGED <<error_, RXNEIE>>
        BY <2>5 DEF ReceiveIT, Thread
      <3>2. /\ ~RXNEIE /\ error_ # "RX_BUFFER_OVERFLOW"
        BY <3>1 DEF UartInv, RxInv, PortInv, Opening
      <3> QED BY <3>1, <3>2 DEF PortInv
    <2>6. CASE EnableRXNEIE
      <3>1. /\ pc = "rxneie" /\ pc' = "work" /\ RXNEIE' = TRUE
            /\ UNCHANGED <<error_, RxState>>
        BY <2>6 DEF EnableRXNEIE, Thread
      <3>2. RxState = "READY" => error_ = "UART_OVERFLOW"
        BY <3>1 DEF UartInv, RxInv, FlagTypes, PortInv, Opening
      <3> QED BY <3>1, <3>2 DEF PortInv, Opening
    <2> QED BY <1>7, <2>1, <2>2, <2>3, <2>4, <2>5, <2>6 DEF Reopening
  <1>8. CASE Caller
    <2>1. CASE CheckError
      <3>1. /\ pc' = "checked" /\ error_ = "NO" /\ error_' = error_
            /\ UNCHANGED <<RXNEIE, RxISR, RxState>>
        BY <2>1 DEF CheckError, Thread
      <3> QED BY <3>1 DEF PortInv, Opening
    <2>2. CASE \E m \in Messages : StartWrite(m)
      <3>1. /\ pc = "checked" /\ pc' = "start_write"
            /\ UNCHANGED <<RXNEIE, RxISR, RxState>>
        BY <2>2, StartWriteFinds DEF StartWrite, Thread
      <3> QED BY <3>1 DEF PortInv, Opening
    <2>3. CASE WriteStarted \/ \E n \in 0..(RxSize - 1) : Read(n)
      <3>1. /\ pc \in {"start_write", "busy", "checked"} /\ pc' = "work"
            /\ UNCHANGED <<RXNEIE, RxISR, RxState>>
        BY <2>3 DEF WriteStarted, Read, Thread
      <3> QED BY <3>1 DEF PortInv, Opening
    <2>4. CASE PauseOrResume
      <3>1. /\ pc = "work" /\ pc' = "work"
            /\ UNCHANGED <<RXNEIE, RxISR, RxState, rx_buf_, error_>>
        BY <2>4 DEF PauseOrResume, Thread
      <3> QED BY <3>1 DEF PortInv, HasRoom, Opening
    <2> QED BY <1>8, <2>1, <2>2, <2>3, <2>4 DEF Caller
  <1>9. CASE UNCHANGED vars
    <2>1. UNCHANGED <<pc, is_read_pause_, RXNEIE, RxISR, RxState, rx_buf_, error_>>
      BY <1>9 DEF vars
    <2> QED BY <2>1 DEF PortInv, HasRoom
  <1> QED BY <1>1, <1>2, <1>3, <1>4, <1>5, <1>6, <1>7, <1>8, <1>9 DEF Next, Interrupt

\* The driver of board-uart.cpp and rs485.cpp, with its interrupts, the HAL
\* and the DMA, is the port the command processor is written for.
THEOREM DriverImplementsPort == Spec => ImplementsRs485
  <1>1. Init => PortInv BY DEF Init, PortInv, Opening
  <1>2. Spec => [](UartInv /\ PortInv)
    BY <1>1, InitHolds, NextKeeps, PortInvKept, PTL DEF Spec
  <1>3. UartInv /\ PortInv /\ [Next]_vars => [Port!Rs485Next]_(Port!rs485Vars)
    BY StepRefines
  <1>4. Init => Port!Rs485Init BY InitRefines
  <1> QED BY <1>2, <1>3, <1>4, PTL DEF Spec, ImplementsRs485, Port!Rs485Spec

=============================================================================
