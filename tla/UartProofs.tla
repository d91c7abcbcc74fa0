------------------------------ MODULE UartProofs ------------------------------
(***************************************************************************)
(* The UART driver's promises, for every set of symbols and messages and   *)
(* every size of the ring: the invariants of module Uart, and that the     *)
(* driver implements the port of module Rs485.                             *)
(*                                                                         *)
(* The invariant says of each half of the USART what its registers, the    *)
(* HAL's handle and the port's flags agree on at each step of the thread.  *)
(* Its heart is that the interrupts are off while the port is opened, and  *)
(* that the second look at RXNE in one interrupt finds a symbol only if    *)
(* it came in between.                                                     *)
(***************************************************************************)
EXTENDS Uart, SequenceTheorems, TLAPS

-----------------------------------------------------------------------------
(* The invariant.                                                          *)

BufTypes == /\ wire \in Seq(Symbols) /\ sent \in 0..MaxSent
            /\ RDR \in Symbols
            /\ rx_buf_ \in Seq(Symbols) /\ Len(rx_buf_) < RxSize
            /\ wpos \in 0..(RxSize - 1)

RxTypes == /\ RXNE \in BOOLEAN /\ ORE \in BOOLEAN /\ FE \in BOOLEAN
           /\ RXNEIE \in BOOLEAN /\ EIE \in BOOLEAN
           /\ RxState \in {"READY", "BUSY"} /\ RxISR \in BOOLEAN
           /\ ErrorCode \in SUBSET {"FE", "ORE", "DMA"}
           /\ lost \in BOOLEAN

TxTypes == /\ TCIE \in BOOLEAN /\ TC \in BOOLEAN /\ dma \in BOOLEAN
           /\ gState \in {"READY", "BUSY"}
           /\ tx_buf_ \in Messages \cup {"empty"}
           /\ is_writing \in BOOLEAN

FlagTypes == /\ error_ \in {"NO", "RX_BUFFER_OVERFLOW", "UART_OVERFLOW"}
             /\ is_read_pause_ \in BOOLEAN /\ is_reading \in BOOLEAN
             /\ irq \in {"none", "hal"}
             /\ pc \in PCs \ {"ErrorHandler", "busy"}
             /\ late \in SUBSET {"rx", "tx"}

\* Off() is done and the port is not yet open.
Opening == {"config", "on", "stop_read", "clear", "poll", "receive", "eie", "rxneie"}

\* The receiver: its interrupts are off until EnableEIE and EnableRXNEIE; the
\* HAL's reception, once begun, goes on unless an error is reported.
RxInv == /\ pc \in {"stop_write"} \cup (Opening \ {"rxneie"}) => ~RXNEIE /\ ~EIE
         /\ pc = "rxneie" => ~RXNEIE /\ (error_ = "NO" => RxState = "BUSY" /\ EIE)
         /\ pc \in {"clear", "receive"} => RxState = "READY"
         /\ pc = "eie" => RxState = "BUSY"
         /\ irq = "hal" /\ RXNE /\ RXNEIE => "rx" \in late
         /\ pc \in {"receive", "eie", "rxneie"} /\ lost => ORE \/ error_ # "NO"
         /\ ReceptionKept
         /\ NoSilentLoss

\* The transmitter: what the DMA, the interrupt that is to come, the HAL and
\* is_writing say of one transmission.
TxInv == /\ dma => gState = "BUSY" /\ ~TCIE
         /\ TCIE => gState = "BUSY"
         /\ pc \in Opening => ~dma /\ gState = "READY" /\ ~is_writing
         /\ pc = "start_write" =>
              ~is_writing /\ (gState = "BUSY" \/ error_ # "NO" \/ "tx" \in late)
         /\ WritingIsReal

UartInv == BufTypes /\ RxTypes /\ TxTypes /\ FlagTypes /\ RxInv /\ TxInv

LEMMA TypeParts == ASSUME UartInv PROVE TypeOK
  BY DEF UartInv, BufTypes, RxTypes, TxTypes, FlagTypes, TypeOK

-----------------------------------------------------------------------------
(* The sequences.                                                          *)

LEMMA TailIsSeq == ASSUME NEW s \in Seq(Symbols), s # << >>
                   PROVE  /\ Head(s) \in Symbols /\ Tail(s) \in Seq(Symbols)
                          /\ Len(Tail(s)) = Len(s) - 1
  BY HeadTailProperties

LEMMA CutIsSeq == ASSUME NEW s \in Seq(Symbols), NEW n \in Nat, n <= Len(s)
                  PROVE  /\ SubSeq(s, n + 1, Len(s)) \in Seq(Symbols)
                         /\ Len(SubSeq(s, n + 1, Len(s))) = Len(s) - n
  <1>1. Len(s) \in Nat BY LenProperties
  <1>2. /\ n + 1 \in 1..(Len(s) + 1) /\ Len(s) \in (n + 1) - 1 .. Len(s) BY <1>1
  <1>3. CASE n + 1 <= Len(s) BY <1>1, <1>2, <1>3, SubSeqProperties
  <1>4. CASE n + 1 > Len(s) BY <1>1, <1>2, <1>4, SubSeqProperties
  <1> QED BY <1>1, <1>3, <1>4

LEMMA EmptyFits == /\ << >> \in Seq(Symbols) /\ Len(<< >>) < RxSize
                   /\ 0 \in 0..(RxSize - 1)
  <1>1. << >> \in Seq(Symbols) /\ Len(<< >>) = 0 BY EmptySeq
  <1>2. 0 < RxSize /\ 0 \in 0..(RxSize - 1) BY UartAssumption DEF UartAssumption
  <1> QED BY <1>1, <1>2

LEMMA NotifyTypes == ASSUME BufTypes, Notify(RDR)
                     PROVE  /\ rx_buf_' \in Seq(Symbols) /\ Len(rx_buf_') < RxSize
                            /\ wpos' \in 0..(RxSize - 1)
  <1>1. CASE ~is_read_pause_ /\ HasRoom
    <2>1. /\ rx_buf_' = Append(rx_buf_, RDR)
          /\ wpos' = IF wpos = RxSize - 1 THEN 0 ELSE wpos + 1
      BY <1>1 DEF Notify
    <2>2. rx_buf_' \in Seq(Symbols) /\ Len(rx_buf_') = Len(rx_buf_) + 1
      BY <2>1, AppendProperties DEF BufTypes
    <2>3. Len(rx_buf_') < RxSize
      BY <1>1, <2>2, LenProperties, UartAssumption DEF HasRoom, BufTypes, UartAssumption
    <2>4. wpos' \in 0..(RxSize - 1)
      BY <2>1, UartAssumption DEF BufTypes, UartAssumption
    <2> QED BY <2>2, <2>3, <2>4
  <1>2. CASE ~(~is_read_pause_ /\ HasRoom) BY <1>2 DEF Notify, bufVars, BufTypes
  <1> QED BY <1>1, <1>2

-----------------------------------------------------------------------------
(* The bus, the DMA and the interrupts.                                    *)
USE DEF busVars, rxRegs, txRegs, rxHal, bufVars, flagVars

LEMMA SendKeeps == ASSUME UartInv, NEW s \in Symbols, Send(s) PROVE UartInv'
  <1>1. /\ wire' = Append(wire, s) /\ sent' = sent + 1 /\ sent < MaxSent
        /\ UNCHANGED <<rxRegs, txRegs, rxHal, gState, bufVars, tx_buf_, error_,
                       flagVars, irq, pc, late, lost>>
    BY DEF Send
  <1>2. BufTypes'
    BY <1>1, AppendProperties, UartAssumption DEF UartInv, BufTypes, UartAssumption
  <1>3. RxTypes' /\ TxTypes' /\ FlagTypes'
    BY <1>1 DEF UartInv, RxTypes, TxTypes, FlagTypes
  <1>4. RxInv'
    BY <1>1 DEF UartInv, RxInv, ReceptionKept, NoSilentLoss
  <1>5. TxInv' BY <1>1 DEF UartInv, TxInv, WritingIsReal
  <1> QED BY <1>2, <1>3, <1>4, <1>5 DEF UartInv

LEMMA ReceiveKeeps == ASSUME UartInv, Receive PROVE UartInv'
  <1>1. /\ wire # << >> /\ wire' = Tail(wire)
        /\ UNCHANGED <<sent, RXNEIE, EIE, txRegs, rxHal, gState, bufVars, tx_buf_,
                       error_, flagVars, irq, pc>>
        /\ late' = IF irq = "hal" /\ ~RXNE /\ RXNEIE THEN late \cup {"rx"} ELSE late
    BY DEF Receive
  <1>2. TxTypes' /\ TxInv'
    BY <1>1 DEF UartInv, TxTypes, TxInv, WritingIsReal
  <1>3. FlagTypes' BY <1>1 DEF UartInv, FlagTypes
  <1>4. wire' \in Seq(Symbols) BY <1>1, TailIsSeq DEF UartInv, BufTypes
  <1>5. CASE RXNE
    <2>1. ORE' = TRUE /\ lost' = TRUE /\ UNCHANGED <<RDR, RXNE, FE>> /\ late' = late
      BY <1>1, <1>5 DEF Receive
    <2>2. BufTypes' /\ RxTypes'
      BY <1>1, <1>4, <2>1 DEF UartInv, BufTypes, RxTypes
    <2>3. RxInv'
      BY <1>1, <2>1 DEF UartInv, RxInv, ReceptionKept, NoSilentLoss
    <2> QED BY <1>2, <1>3, <2>2, <2>3 DEF UartInv
  <1>6. CASE ~RXNE
    <2>1. /\ RDR' \in {Head(wire), Noise} /\ FE' \in {FE, TRUE} /\ RXNE' = TRUE
          /\ UNCHANGED <<ORE, lost>>
      BY <1>6 DEF Receive
    <2>2. BufTypes'
      BY <1>1, <1>4, <2>1, TailIsSeq, UartAssumption
      DEF UartInv, BufTypes, UartAssumption
    <2>3. RxTypes' BY <1>1, <2>1 DEF UartInv, RxTypes
    <2>4. late \subseteq late' /\ ("rx" \notin late' => late' = late) BY <1>1
    <2>5. RxInv'
      BY <1>1, <1>6, <2>1, <2>4 DEF UartInv, RxInv, ReceptionKept, NoSilentLoss
    <2> QED BY <1>2, <1>3, <2>2, <2>3, <2>5 DEF UartInv
  <1> QED BY <1>5, <1>6 DEF UartInv, RxTypes

LEMMA TxInterruptKeeps == ASSUME UartInv, ShiftedOut \/ DmaDone \/ DmaError
                          PROVE  UartInv'
  <1>1. CASE ShiftedOut
    BY <1>1 DEF ShiftedOut, UartInv, BufTypes, RxTypes, TxTypes, FlagTypes, RxInv, TxInv,
                ReceptionKept, NoSilentLoss, WritingIsReal
  <1>2. CASE DmaDone
    <2>1. BufTypes' /\ RxTypes' /\ TxTypes' /\ FlagTypes'
      <3>1. BufTypes' BY <1>2 DEF DmaDone, UartInv, BufTypes
      <3>2. RxTypes' BY <1>2 DEF DmaDone, UartInv, RxTypes
      <3>3. TxTypes' BY <1>2 DEF DmaDone, UartInv, TxTypes
      <3>4. FlagTypes' BY <1>2 DEF DmaDone, UartInv, FlagTypes
      <3> QED BY <3>1, <3>2, <3>3, <3>4
    <2>2. RxInv' BY <1>2 DEF DmaDone, UartInv, RxInv, ReceptionKept, NoSilentLoss
    <2>3. TxInv' BY <1>2 DEF DmaDone, UartInv, TxInv, WritingIsReal
    <2> QED BY <2>1, <2>2, <2>3 DEF UartInv
  <1>3. CASE DmaError
    <2>1. BufTypes' BY <1>3 DEF DmaError, UartInv, BufTypes
    <2>2. RxTypes' BY <1>3 DEF DmaError, UartInv, RxTypes
    <2>3. TxTypes' /\ FlagTypes' BY <1>3 DEF DmaError, UartInv, TxTypes, FlagTypes
    <2>4. RxInv' BY <1>3 DEF DmaError, UartInv, RxInv, ReceptionKept, NoSilentLoss
    <2>5. TxInv' BY <1>3 DEF DmaError, UartInv, TxInv, WritingIsReal
    <2> QED BY <2>1, <2>2, <2>3, <2>4, <2>5 DEF UartInv
  <1> QED BY <1>1, <1>2, <1>3

LEMMA RxByOneByteKeeps == ASSUME UartInv, RxByOneByte PROVE UartInv'
  <1>1. /\ irq' = "hal"
        /\ UNCHANGED <<busVars, RDR, ORE, FE, RXNEIE, EIE, txRegs, rxHal, gState,
                       tx_buf_, flagVars, pc, late, lost>>
    BY DEF RxByOneByte
  <1>2. TxTypes' BY <1>1 DEF UartInv, TxTypes
  <1>3. CASE RXNE /\ RXNEIE
    <2>1. /\ RXNE' = FALSE /\ Notify(RDR)
          /\ error_' = error_ \/ (error_' = "RX_BUFFER_OVERFLOW" /\ error_' # "NO")
      BY <1>3 DEF RxByOneByte
    <2>2. BufTypes' BY <1>1, <2>1, NotifyTypes DEF UartInv, BufTypes
    <2>3. RxTypes' BY <1>1, <2>1 DEF UartInv, RxTypes
    <2>4. FlagTypes' BY <1>1, <2>1 DEF UartInv, FlagTypes
    <2>5. RxInv' BY <1>1, <2>1 DEF UartInv, RxInv, ReceptionKept, NoSilentLoss
    <2>6. TxInv' BY <1>1, <2>1 DEF UartInv, TxInv, WritingIsReal
    <2> QED BY <1>2, <2>2, <2>3, <2>4, <2>5, <2>6 DEF UartInv
  <1>4. CASE ~(RXNE /\ RXNEIE)
    <2>1. UNCHANGED <<RXNE, bufVars, error_>> BY <1>4 DEF RxByOneByte
    <2>2. BufTypes' BY <1>1, <2>1 DEF UartInv, BufTypes
    <2>3. RxTypes' BY <1>1, <2>1 DEF UartInv, RxTypes
    <2>4. FlagTypes' BY <1>1, <2>1 DEF UartInv, FlagTypes
    <2>5. RxInv' BY <1>1, <1>4, <2>1 DEF UartInv, RxInv, ReceptionKept, NoSilentLoss
    <2>6. TxInv' BY <1>1, <2>1 DEF UartInv, TxInv, WritingIsReal
    <2> QED BY <1>2, <2>2, <2>3, <2>4, <2>5, <2>6 DEF UartInv
  <1> QED BY <1>3, <1>4

\* What the HAL does with a symbol that came in between.
LEMMA RxIsrTypes ==
  ASSUME UartInv, RxISR_8BIT, ClosesIf(EndsRead \/ "ORE" \in CodeNow) \/ ClosesIf(EndsRead)
  PROVE  /\ rx_buf_' \in Seq(Symbols) /\ Len(rx_buf_') < RxSize
         /\ wpos' \in 0..(RxSize - 1)
         /\ lost' \in BOOLEAN /\ (~TakesByte => lost' = lost)
         /\ RXNEIE' \in BOOLEAN /\ EIE' \in BOOLEAN
         /\ RxState' \in {"READY", "BUSY"} /\ RxISR' \in BOOLEAN
  <1>1. /\ rx_buf_' \in Seq(Symbols) /\ Len(rx_buf_') < RxSize
        /\ wpos' \in 0..(RxSize - 1)
    BY NotifyTypes DEF RxISR_8BIT, UartInv, BufTypes
  <1>2. lost' \in BOOLEAN /\ (~TakesByte => lost' = lost)
    BY DEF RxISR_8BIT, EndsRead, TakesByte, UartInv, RxTypes
  <1>3. /\ RXNEIE' \in BOOLEAN /\ EIE' \in BOOLEAN
        /\ RxState' \in {"READY", "BUSY"} /\ RxISR' \in BOOLEAN
    BY DEF ClosesIf, UartInv, RxTypes
  <1> QED BY <1>1, <1>2, <1>3

LEMMA HalReceivedKeeps == ASSUME UartInv, HalReceived PROVE UartInv'
  <1>1. /\ irq = "hal" /\ irq' = "none" /\ RXNE /\ RXNEIE
        /\ RxISR_8BIT /\ ClosesIf(EndsRead)
        /\ RXNE' = (RXNE /\ ~TakesByte)
        /\ error_' = error_ \/ error_' = "RX_BUFFER_OVERFLOW"
        /\ UNCHANGED <<busVars, RDR, ORE, FE, txRegs, ErrorCode, gState, tx_buf_,
                       flagVars, pc, late>>
    BY DEF HalReceived, InHal
  <1>2. "rx" \in late BY <1>1 DEF UartInv, RxInv
  <1>3. pc \notin {"stop_write", "rxneie"} \cup Opening
    BY <1>1 DEF UartInv, RxInv, Opening
  <1>4. BufTypes' BY <1>1, RxIsrTypes DEF UartInv, BufTypes
  <1>5. RxTypes' BY <1>1, RxIsrTypes DEF UartInv, RxTypes
  <1>6. TxTypes' BY <1>1 DEF UartInv, TxTypes
  <1>7. FlagTypes' BY <1>1 DEF UartInv, FlagTypes
  <1>8. RxInv'
    BY <1>1, <1>2, <1>3 DEF RxInv, ReceptionKept, NoSilentLoss, Opening
  <1>9. TxInv' BY <1>1, <1>3 DEF UartInv, TxInv, WritingIsReal
  <1> QED BY <1>4, <1>5, <1>6, <1>7, <1>8, <1>9 DEF UartInv

LEMMA HalErrorKeeps == ASSUME UartInv, HalError PROVE UartInv'
  <1>1. /\ irq = "hal" /\ irq' = "none" /\ Errors /\ (EIE \/ RXNEIE)
        /\ FE' = (FE /\ ~EIE) /\ ORE' = FALSE
        /\ UNCHANGED <<busVars, RDR, txRegs, gState, tx_buf_, flagVars, pc, late>>
    BY DEF HalError, InHal
  <1>2. pc \in Open \cup {"rxneie"}
    BY <1>1 DEF UartInv, RxInv, FlagTypes, Opening, Open, PCs
  <1>3. TxTypes' BY <1>1 DEF UartInv, TxTypes
  <1>4. CASE CodeNow = {}
    <2>1. UNCHANGED <<RXNE, RXNEIE, EIE, rxHal, bufVars, error_, lost>>
      BY <1>4 DEF HalError
    <2>2. ~EIE /\ ~ORE
      BY <1>1, <1>4 DEF CodeNow, Errors, UartInv, RxTypes
    <2>3. BufTypes' BY <1>1, <2>1 DEF UartInv, BufTypes
    <2>4. RxTypes' BY <1>1, <2>1 DEF UartInv, RxTypes
    <2>5. FlagTypes' BY <1>1, <2>1 DEF UartInv, FlagTypes
    <2>6. RxInv'
      BY <1>1, <2>1, <2>2 DEF UartInv, RxInv, ReceptionKept, NoSilentLoss
    <2>7. TxInv' BY <1>1, <2>1 DEF UartInv, TxInv, WritingIsReal
    <2> QED BY <1>3, <2>3, <2>4, <2>5, <2>6, <2>7 DEF UartInv
  <1>5. CASE CodeNow # {}
    <2>1. /\ RxISR_8BIT /\ RXNE' = (RXNE /\ ~TakesByte)
          /\ ClosesIf(EndsRead \/ "ORE" \in CodeNow)
          /\ ErrorCode' = IF "ORE" \in CodeNow THEN CodeNow ELSE {}
          /\ error_' = "UART_OVERFLOW"
      BY <1>5 DEF HalError
    <2>2. BufTypes' BY <1>1, <2>1, RxIsrTypes DEF UartInv, BufTypes
    <2>3. RxTypes'
      <3>1. CodeNow \in SUBSET {"FE", "ORE", "DMA"} BY DEF CodeNow, UartInv, RxTypes
      <3>2. ErrorCode' \in SUBSET {"FE", "ORE", "DMA"} BY <2>1, <3>1
      <3>3. RXNE' \in BOOLEAN /\ ORE' \in BOOLEAN /\ FE' \in BOOLEAN
        BY <1>1, <2>1 DEF UartInv, RxTypes
      <3> QED BY <2>1, <3>2, <3>3, RxIsrTypes DEF RxTypes
    <2>4. FlagTypes' BY <1>1, <2>1 DEF UartInv, FlagTypes
    <2>5. RxInv'
      <3>1. pc = "rxneie" => ~RXNEIE' BY <2>1 DEF ClosesIf, UartInv, RxInv
      <3>2. irq' # "hal" /\ error_' # "NO" BY <1>1, <2>1
      <3>3. pc' = pc BY <1>1
      <3> QED BY <1>2, <3>1, <3>2, <3>3 DEF RxInv, ReceptionKept, NoSilentLoss,
                                           Open, Opening
    <2>6. TxInv' BY <1>1, <2>1 DEF UartInv, TxInv, WritingIsReal
    <2> QED BY <1>3, <2>2, <2>3, <2>4, <2>5, <2>6 DEF UartInv
  <1> QED BY <1>4, <1>5

LEMMA HalOtherKeeps == ASSUME UartInv, HalOther PROVE UartInv'
  <1>1. /\ irq' = "none"
        /\ UNCHANGED <<busVars, rxRegs, TC, dma, rxHal, bufVars, error_,
                       is_read_pause_, is_reading, pc, lost>>
    BY DEF HalOther, InHal
  <1>2. BufTypes' BY <1>1 DEF UartInv, BufTypes
  <1>3. RxTypes' BY <1>1 DEF UartInv, RxTypes
  <1>4. "rx" \in late' <=> "rx" \in late BY DEF HalOther
  <1>5. RxInv' BY <1>1, <1>4 DEF UartInv, RxInv, ReceptionKept, NoSilentLoss
  <1>6. CASE TC /\ TCIE
    <2>1. /\ TCIE' = FALSE /\ gState' = "READY" /\ tx_buf_' = "empty"
          /\ is_writing' = FALSE
          /\ late' = IF pc = "start_write" THEN late \cup {"tx"} ELSE late
      BY <1>6 DEF HalOther
    <2>2. ~dma BY <1>6 DEF UartInv, TxInv
    <2>3. TxTypes' BY <1>1, <2>1 DEF UartInv, TxTypes
    <2>4. FlagTypes' BY <1>1, <2>1 DEF UartInv, FlagTypes
    <2>5. TxInv' BY <1>1, <2>1, <2>2 DEF UartInv, TxInv, WritingIsReal
    <2> QED BY <1>2, <1>3, <1>5, <2>3, <2>4, <2>5 DEF UartInv
  <1>7. CASE ~(TC /\ TCIE)
    <2>1. UNCHANGED <<TCIE, gState, tx_buf_, is_writing, late>>
      BY <1>7 DEF HalOther
    <2>2. TxTypes' BY <1>1, <2>1 DEF UartInv, TxTypes
    <2>3. FlagTypes' BY <1>1, <2>1 DEF UartInv, FlagTypes
    <2>4. TxInv' BY <1>1, <2>1 DEF UartInv, TxInv, WritingIsReal
    <2> QED BY <1>2, <1>3, <1>5, <2>2, <2>3, <2>4 DEF UartInv
  <1> QED BY <1>6, <1>7

-----------------------------------------------------------------------------
(* The thread opens the port.                                              *)

LEMMA OffKeeps == ASSUME UartInv, Off PROVE UartInv'
  <1>1. /\ pc = "work" /\ pc' = "stop_write" /\ irq = "none"
        /\ error_ # "NO" /\ ~is_read_pause_
        /\ is_reading' = FALSE /\ RXNEIE' = FALSE /\ EIE' = FALSE
        /\ ORE' = FALSE /\ FE' = FALSE /\ RxState' = "READY"
        /\ UNCHANGED <<busVars, RDR, RXNE, txRegs, RxISR, ErrorCode, gState, bufVars,
                       tx_buf_, error_, is_read_pause_, is_writing, irq, late, lost>>
    BY DEF Off, Thread, AbortReceive
  <1>2. BufTypes' BY <1>1 DEF UartInv, BufTypes
  <1>3. RxTypes' BY <1>1 DEF UartInv, RxTypes
  <1>4. TxTypes' BY <1>1 DEF UartInv, TxTypes
  <1>5. FlagTypes' BY <1>1 DEF UartInv, FlagTypes, PCs
  <1>6. RxInv' BY <1>1 DEF RxInv, ReceptionKept, NoSilentLoss, Open, Opening
  <1>7. TxInv' BY <1>1 DEF UartInv, TxInv, WritingIsReal, Opening
  <1> QED BY <1>2, <1>3, <1>4, <1>5, <1>6, <1>7 DEF UartInv

LEMMA StopWriteKeeps == ASSUME UartInv, StopWrite PROVE UartInv'
  <1>1. /\ pc = "stop_write" /\ pc' = "config"
        /\ is_writing' = FALSE /\ TCIE' = FALSE /\ dma' = FALSE /\ gState' = "READY"
        /\ late' = late \ {"tx"}
        /\ UNCHANGED <<busVars, rxRegs, TC, rxHal, bufVars, tx_buf_, error_,
                       is_read_pause_, is_reading, irq, lost>>
    BY DEF StopWrite, Thread
  <1>2. BufTypes' BY <1>1 DEF UartInv, BufTypes
  <1>3. RxTypes' BY <1>1 DEF UartInv, RxTypes
  <1>4. TxTypes' BY <1>1 DEF UartInv, TxTypes
  <1>5. FlagTypes' BY <1>1 DEF UartInv, FlagTypes, PCs
  <1>6. RxInv' BY <1>1 DEF UartInv, RxInv, ReceptionKept, NoSilentLoss, Open, Opening
  <1>7. TxInv' BY <1>1 DEF TxInv, WritingIsReal, Opening
  <1> QED BY <1>2, <1>3, <1>4, <1>5, <1>6, <1>7 DEF UartInv

LEMMA ConfigKeeps == ASSUME UartInv, Config PROVE UartInv'
  <1>1. /\ pc = "config" /\ pc' = "on"
        /\ RXNE' = FALSE /\ ORE' = FALSE /\ FE' = FALSE /\ TC' = FALSE
        /\ RxState' = "READY" /\ gState' = "READY" /\ ErrorCode' = {}
        /\ is_writing' = FALSE /\ is_reading' = FALSE
        /\ UNCHANGED <<busVars, RDR, RXNEIE, EIE, TCIE, dma, RxISR, bufVars,
                       tx_buf_, error_, is_read_pause_, irq, late, lost>>
    BY DEF Config, Thread
  <1>2. BufTypes' BY <1>1 DEF UartInv, BufTypes
  <1>3. RxTypes' BY <1>1 DEF UartInv, RxTypes
  <1>4. TxTypes' BY <1>1 DEF UartInv, TxTypes
  <1>5. FlagTypes' BY <1>1 DEF UartInv, FlagTypes, PCs
  <1>6. RxInv' BY <1>1 DEF UartInv, RxInv, ReceptionKept, NoSilentLoss, Open, Opening
  <1>7. TxInv' BY <1>1 DEF UartInv, TxInv, WritingIsReal, Opening
  <1> QED BY <1>2, <1>3, <1>4, <1>5, <1>6, <1>7 DEF UartInv

LEMMA OnKeeps == ASSUME UartInv, On PROVE UartInv'
  <1>1. /\ pc = "on" /\ pc' = "stop_read"
        /\ tx_buf_' = "empty" /\ rx_buf_' = << >> /\ wpos' = 0 /\ error_' = "NO"
        /\ UNCHANGED <<busVars, rxRegs, txRegs, rxHal, gState, flagVars, irq,
                       late, lost>>
    BY DEF On, Thread
  <1>2. BufTypes' BY <1>1, EmptyFits DEF UartInv, BufTypes
  <1>3. RxTypes' BY <1>1 DEF UartInv, RxTypes
  <1>4. TxTypes' BY <1>1 DEF UartInv, TxTypes
  <1>5. FlagTypes' BY <1>1 DEF UartInv, FlagTypes, PCs
  <1>6. RxInv' BY <1>1 DEF UartInv, RxInv, ReceptionKept, NoSilentLoss, Open, Opening
  <1>7. TxInv' BY <1>1 DEF UartInv, TxInv, WritingIsReal, Opening
  <1> QED BY <1>2, <1>3, <1>4, <1>5, <1>6, <1>7 DEF UartInv

LEMMA StopReadKeeps == ASSUME UartInv, StopRead PROVE UartInv'
  <1>1. /\ pc = "stop_read" /\ pc' = "clear"
        /\ is_reading' = FALSE /\ RXNEIE' = FALSE /\ EIE' = FALSE
        /\ ORE' = FALSE /\ FE' = FALSE /\ RxState' = "READY"
        /\ UNCHANGED <<busVars, RDR, RXNE, txRegs, RxISR, ErrorCode, gState, bufVars,
                       tx_buf_, error_, is_read_pause_, is_writing, irq, late, lost>>
    BY DEF StopRead, Thread, AbortReceive
  <1>2. BufTypes' BY <1>1 DEF UartInv, BufTypes
  <1>3. RxTypes' BY <1>1 DEF UartInv, RxTypes
  <1>4. TxTypes' BY <1>1 DEF UartInv, TxTypes
  <1>5. FlagTypes' BY <1>1 DEF UartInv, FlagTypes, PCs
  <1>6. RxInv' BY <1>1 DEF RxInv, ReceptionKept, NoSilentLoss, Open, Opening
  <1>7. TxInv' BY <1>1 DEF UartInv, TxInv, WritingIsReal, Opening
  <1> QED BY <1>2, <1>3, <1>4, <1>5, <1>6, <1>7 DEF UartInv

LEMMA ClearKeeps == ASSUME UartInv, ClearRxBuf \/ PollTakes PROVE UartInv'
  <1>1. /\ pc \in {"clear", "poll"} /\ pc' = "poll"
        /\ ORE' \in BOOLEAN /\ RXNE' \in BOOLEAN
        /\ RxState' \in {"READY", "BUSY"}
        /\ ErrorCode' \in SUBSET {"FE", "ORE", "DMA"}
        /\ UNCHANGED <<busVars, RDR, FE, RXNEIE, EIE, txRegs, RxISR,
                       gState, bufVars, tx_buf_, error_, flagVars, irq, late, lost>>
    <2>1. CASE ClearRxBuf
      BY <2>1 DEF ClearRxBuf, Thread, UartInv, RxInv, RxTypes
    <2>2. CASE PollTakes BY <2>2 DEF PollTakes, Thread, UartInv, RxTypes
    <2> QED BY <2>1, <2>2
  <1>2. BufTypes' BY <1>1 DEF UartInv, BufTypes
  <1>3. RxTypes' BY <1>1 DEF UartInv, RxTypes
  <1>4. TxTypes' BY <1>1 DEF UartInv, TxTypes
  <1>5. FlagTypes' BY <1>1 DEF UartInv, FlagTypes, PCs
  <1>6. RxInv' BY <1>1 DEF UartInv, RxInv, ReceptionKept, NoSilentLoss, Open, Opening
  <1>7. TxInv' BY <1>1 DEF UartInv, TxInv, WritingIsReal, Opening
  <1> QED BY <1>2, <1>3, <1>4, <1>5, <1>6, <1>7 DEF UartInv

LEMMA PollEndsKeeps == ASSUME UartInv, PollEnds PROVE UartInv'
  <1>1. /\ pc = "poll" /\ pc' = "receive" /\ ~RXNE
        /\ RxState' = "READY" /\ lost' = FALSE
        /\ ORE' \in BOOLEAN /\ RXNEIE' = FALSE /\ EIE' = FALSE
        /\ RxISR' \in BOOLEAN
        /\ ErrorCode' \in SUBSET {"FE", "ORE", "DMA"}
        /\ UNCHANGED <<busVars, RDR, RXNE, FE, txRegs, gState, bufVars, tx_buf_,
                       error_, flagVars, irq, late>>
    BY DEF PollEnds, Thread, UartInv, RxTypes, RxInv, Opening
  <1>2. BufTypes' BY <1>1 DEF UartInv, BufTypes
  <1>3. RxTypes' BY <1>1 DEF UartInv, RxTypes
  <1>4. TxTypes' BY <1>1 DEF UartInv, TxTypes
  <1>5. FlagTypes' BY <1>1 DEF UartInv, FlagTypes, PCs
  <1>6. RxInv' BY <1>1 DEF RxInv, ReceptionKept, NoSilentLoss, Open, Opening
  <1>7. TxInv' BY <1>1 DEF UartInv, TxInv, WritingIsReal, Opening
  <1> QED BY <1>2, <1>3, <1>4, <1>5, <1>6, <1>7 DEF UartInv

LEMMA ReceiveITKeeps == ASSUME UartInv, ReceiveIT PROVE UartInv'
  <1>1. /\ pc = "receive" /\ pc' = "eie" /\ irq = "none"
        /\ is_read_pause_' = FALSE
        /\ RxState' = "BUSY" /\ RxISR' = FALSE /\ ErrorCode' = {}
        /\ late' = late \ {"rx"}
        /\ UNCHANGED <<busVars, rxRegs, txRegs, gState, bufVars, tx_buf_, error_,
                       is_reading, is_writing, irq, lost>>
    BY DEF ReceiveIT, Thread, UartInv, RxInv
  <1>2. BufTypes' BY <1>1 DEF UartInv, BufTypes
  <1>3. RxTypes' BY <1>1 DEF UartInv, RxTypes
  <1>4. TxTypes' BY <1>1 DEF UartInv, TxTypes
  <1>5. FlagTypes' BY <1>1 DEF UartInv, FlagTypes, PCs
  <1>6. RxInv' BY <1>1 DEF UartInv, RxInv, ReceptionKept, NoSilentLoss, Open, Opening
  <1>7. TxInv' BY <1>1 DEF UartInv, TxInv, WritingIsReal, Opening
  <1> QED BY <1>2, <1>3, <1>4, <1>5, <1>6, <1>7 DEF UartInv

LEMMA EnableKeeps == ASSUME UartInv, EnableEIE \/ EnableRXNEIE PROVE UartInv'
  <1>1. CASE EnableEIE
    <2>1. /\ pc = "eie" /\ pc' = "rxneie" /\ irq = "none" /\ EIE' = TRUE
          /\ UNCHANGED <<busVars, RDR, RXNE, ORE, FE, RXNEIE, txRegs, rxHal, gState,
                         bufVars, tx_buf_, error_, flagVars, irq, late, lost>>
      BY <1>1 DEF EnableEIE, Thread
    <2>2. BufTypes' BY <2>1 DEF UartInv, BufTypes
    <2>3. RxTypes' BY <2>1 DEF UartInv, RxTypes
    <2>4. TxTypes' BY <2>1 DEF UartInv, TxTypes
    <2>5. FlagTypes' BY <2>1 DEF UartInv, FlagTypes, PCs
    <2>6. RxInv' BY <2>1 DEF UartInv, RxInv, ReceptionKept, NoSilentLoss, Open, Opening
    <2>7. TxInv' BY <2>1 DEF UartInv, TxInv, WritingIsReal, Opening
    <2> QED BY <2>2, <2>3, <2>4, <2>5, <2>6, <2>7 DEF UartInv
  <1>2. CASE EnableRXNEIE
    <2>1. /\ pc = "rxneie" /\ pc' = "work" /\ irq = "none"
          /\ RXNEIE' = TRUE /\ RxISR' = TRUE /\ is_reading' = TRUE
          /\ UNCHANGED <<busVars, RDR, RXNE, ORE, FE, EIE, txRegs, RxState, ErrorCode,
                         gState, bufVars, tx_buf_, error_, is_read_pause_,
                         is_writing, irq, late, lost>>
      BY <1>2 DEF EnableRXNEIE, Thread
    <2>2. BufTypes' BY <2>1 DEF UartInv, BufTypes
    <2>3. RxTypes' BY <2>1 DEF UartInv, RxTypes
    <2>4. TxTypes' BY <2>1 DEF UartInv, TxTypes
    <2>5. FlagTypes' BY <2>1 DEF UartInv, FlagTypes, PCs
    <2>6. RxInv' BY <2>1 DEF UartInv, RxInv, ReceptionKept, NoSilentLoss, Open, Opening
    <2>7. TxInv' BY <2>1 DEF UartInv, TxInv, WritingIsReal, Opening
    <2> QED BY <2>2, <2>3, <2>4, <2>5, <2>6, <2>7 DEF UartInv
  <1> QED BY <1>1, <1>2

-----------------------------------------------------------------------------
(* The caller.                                                             *)

LEMMA CheckErrorKeeps == ASSUME UartInv, CheckError \/ PauseOrResume PROVE UartInv'
  <1>1. /\ pc = "work" /\ pc' \in {"checked", "work"}
        /\ is_read_pause_' \in BOOLEAN
        /\ UNCHANGED <<busVars, rxRegs, txRegs, rxHal, gState, bufVars, tx_buf_, error_,
                       is_reading, is_writing, irq, late, lost>>
    BY DEF CheckError, PauseOrResume, Thread, UartInv, FlagTypes
  <1>2. BufTypes' BY <1>1 DEF UartInv, BufTypes
  <1>3. RxTypes' BY <1>1 DEF UartInv, RxTypes
  <1>4. TxTypes' BY <1>1 DEF UartInv, TxTypes
  <1>5. FlagTypes' BY <1>1 DEF UartInv, FlagTypes, PCs
  <1>6. RxInv' BY <1>1 DEF UartInv, RxInv, ReceptionKept, NoSilentLoss, Open, Opening
  <1>7. TxInv' BY <1>1 DEF UartInv, TxInv, WritingIsReal, Opening
  <1> QED BY <1>2, <1>3, <1>4, <1>5, <1>6, <1>7 DEF UartInv

\* The port's StartWrite() finds the HAL free whenever is_writing is false.
LEMMA StartWriteFinds ==
  ASSUME UartInv, NEW m \in Messages, StartWrite(m)
  PROVE  gState = "READY" /\ ~dma /\ ~TCIE
  BY DEF StartWrite, Thread, UartInv, TxTypes, TxInv, WritingIsReal

LEMMA StartWriteKeeps ==
  ASSUME UartInv, NEW m \in Messages, StartWrite(m) PROVE UartInv'
  <1>1. gState = "READY" /\ ~dma /\ ~TCIE BY StartWriteFinds
  <1>2. /\ pc = "checked" /\ pc' = "start_write" /\ ~is_writing
        /\ tx_buf_' = m /\ gState' = "BUSY" /\ dma' = TRUE /\ TC' = FALSE
        /\ ErrorCode' = {}
        /\ UNCHANGED <<busVars, rxRegs, TCIE, RxState, RxISR, bufVars, error_,
                       flagVars, irq, late, lost>>
    BY <1>1 DEF StartWrite, Thread
  <1>3. BufTypes' BY <1>2 DEF UartInv, BufTypes
  <1>4. RxTypes' BY <1>2 DEF UartInv, RxTypes
  <1>5. TxTypes' BY <1>2 DEF UartInv, TxTypes
  <1>6. FlagTypes' BY <1>2 DEF UartInv, FlagTypes, PCs
  <1>7. RxInv' BY <1>2 DEF UartInv, RxInv, ReceptionKept, NoSilentLoss, Open, Opening
  <1>8. TxInv' BY <1>1, <1>2 DEF UartInv, TxInv, WritingIsReal, Opening
  <1> QED BY <1>3, <1>4, <1>5, <1>6, <1>7, <1>8 DEF UartInv

LEMMA WriteStartedKeeps == ASSUME UartInv, WriteStarted PROVE UartInv'
  <1>1. /\ pc = "start_write" /\ pc' = "work" /\ is_writing' = TRUE
        /\ UNCHANGED <<busVars, rxRegs, txRegs, rxHal, gState, bufVars, tx_buf_, error_,
                       is_read_pause_, is_reading, irq, late, lost>>
    BY DEF WriteStarted, UartInv, FlagTypes
  <1>2. BufTypes' BY <1>1 DEF UartInv, BufTypes
  <1>3. RxTypes' BY <1>1 DEF UartInv, RxTypes
  <1>4. TxTypes' BY <1>1 DEF UartInv, TxTypes
  <1>5. FlagTypes' BY <1>1 DEF UartInv, FlagTypes, PCs
  <1>6. RxInv' BY <1>1 DEF UartInv, RxInv, ReceptionKept, NoSilentLoss, Open, Opening
  <1>7. TxInv' BY <1>1 DEF UartInv, TxInv, WritingIsReal, Opening
  <1> QED BY <1>2, <1>3, <1>4, <1>5, <1>6, <1>7 DEF UartInv

LEMMA ReadKeeps == ASSUME UartInv, NEW n \in 0..(RxSize - 1), Read(n) PROVE UartInv'
  <1>1. /\ pc = "checked" /\ pc' = "work" /\ n <= Len(rx_buf_)
        /\ rx_buf_' = SubSeq(rx_buf_, n + 1, Len(rx_buf_))
        /\ UNCHANGED <<busVars, rxRegs, txRegs, rxHal, gState, wpos, tx_buf_, error_,
                       flagVars, irq, late, lost>>
    BY DEF Read, Thread
  <1>2. BufTypes'
    <2>1. n \in Nat BY UartAssumption DEF UartAssumption
    <2>2. /\ rx_buf_' \in Seq(Symbols) /\ Len(rx_buf_') = Len(rx_buf_) - n
      BY <1>1, <2>1, CutIsSeq DEF UartInv, BufTypes
    <2>3. Len(rx_buf_') < RxSize
      BY <2>1, <2>2, LenProperties, UartAssumption DEF UartInv, BufTypes, UartAssumption
    <2> QED BY <1>1, <2>2, <2>3 DEF UartInv, BufTypes
  <1>3. RxTypes' BY <1>1 DEF UartInv, RxTypes
  <1>4. TxTypes' BY <1>1 DEF UartInv, TxTypes
  <1>5. FlagTypes' BY <1>1 DEF UartInv, FlagTypes, PCs
  <1>6. RxInv' BY <1>1 DEF UartInv, RxInv, ReceptionKept, NoSilentLoss, Open, Opening
  <1>7. TxInv' BY <1>1 DEF UartInv, TxInv, WritingIsReal, Opening
  <1> QED BY <1>2, <1>3, <1>4, <1>5, <1>6, <1>7 DEF UartInv

-----------------------------------------------------------------------------
LEMMA InitHolds == Init => UartInv
  <1> SUFFICES ASSUME Init PROVE UartInv OBVIOUS
  <1>1. BufTypes BY EmptyFits, EmptySeq, UartAssumption DEF Init, BufTypes, UartAssumption
  <1>2. RxTypes BY DEF Init, RxTypes
  <1>3. TxTypes BY DEF Init, TxTypes
  <1>4. FlagTypes BY DEF Init, FlagTypes, PCs
  <1>5. RxInv BY DEF Init, RxInv, ReceptionKept, NoSilentLoss, Open, Opening
  <1>6. TxInv BY DEF Init, TxInv, WritingIsReal
  <1> QED BY <1>1, <1>2, <1>3, <1>4, <1>5, <1>6 DEF UartInv

LEMMA StepKeeps == ASSUME UartInv, Next PROVE UartInv'
  <1>1. CASE Bus BY <1>1, SendKeeps, ReceiveKeeps, TxInterruptKeeps DEF Bus
  <1>2. CASE Interrupt
    BY <1>2, RxByOneByteKeeps, HalReceivedKeeps, HalErrorKeeps, HalOtherKeeps
    DEF Interrupt
  <1>3. CASE DmaDone \/ DmaError BY <1>3, TxInterruptKeeps
  <1>4. CASE Reopening
    BY <1>4, OffKeeps, StopWriteKeeps, ConfigKeeps, OnKeeps, StopReadKeeps, ClearKeeps,
       PollEndsKeeps, ReceiveITKeeps, EnableKeeps
    DEF Reopening
  <1>5. CASE Caller
    BY <1>5, CheckErrorKeeps, StartWriteKeeps, WriteStartedKeeps, ReadKeeps DEF Caller
  <1> QED BY <1>1, <1>2, <1>3, <1>4, <1>5 DEF Next

LEMMA NextKeeps == ASSUME UartInv, [Next]_vars PROVE UartInv'
  <1>1. CASE UNCHANGED vars
    <2>1. UNCHANGED <<wire, sent, RDR, rx_buf_, wpos>> BY <1>1 DEF vars
    <2>2. BufTypes' BY <2>1 DEF UartInv, BufTypes
    <2>3. RxTypes' BY <1>1 DEF vars, UartInv, RxTypes
    <2>4. TxTypes' BY <1>1 DEF vars, UartInv, TxTypes
    <2>5. FlagTypes' BY <1>1 DEF vars, UartInv, FlagTypes
    <2>6. RxInv' BY <1>1 DEF vars, UartInv, RxInv, ReceptionKept, NoSilentLoss
    <2>7. TxInv' BY <1>1 DEF vars, UartInv, TxInv, WritingIsReal
    <2> QED BY <2>2, <2>3, <2>4, <2>5, <2>6, <2>7 DEF UartInv
  <1> QED BY <1>1, StepKeeps

LEMMA Inductive == Spec => []UartInv
  BY InitHolds, NextKeeps, PTL DEF Spec

-----------------------------------------------------------------------------
\* Every variable of the driver keeps its type; in particular the receive ring
\* is never full, and HAL_UART_Receive_IT() is never refused (ErrorHandler()).
THEOREM TypesKept == Spec => []TypeOK
  BY TypeParts, Inductive, PTL

\* While the port is open and no error is reported the HAL's one-byte reception
\* is under way, with its interrupts on.
THEOREM ReceptionGoesOn == Spec => []ReceptionKept
  <1>1. UartInv => ReceptionKept BY DEF UartInv, RxInv
  <1> QED BY <1>1, Inductive, PTL

\* No symbol is lost without an error that is reported or about to be.
THEOREM LossIsReported == Spec => []NoSilentLoss
  <1>1. UartInv => NoSilentLoss BY DEF UartInv, RxInv
  <1> QED BY <1>1, Inductive, PTL

\* is_writing agrees with the HAL's transmission.
THEOREM WritingIsTrue == Spec => []WritingIsReal
  <1>1. UartInv => WritingIsReal BY DEF UartInv, TxInv
  <1> QED BY <1>1, Inductive, PTL

LEMMA TxBufStep == ASSUME UartInv, [Next]_vars, dma, dma' PROVE UNCHANGED tx_buf_
  <1>1. CASE Bus BY <1>1 DEF Bus, Send, Receive, ShiftedOut
  <1>2. CASE Interrupt
    <2>1. ~TCIE BY DEF UartInv, TxInv
    <2> QED BY <1>2, <2>1 DEF Interrupt, RxByOneByte, HalReceived, HalError, HalOther
  <1>3. CASE DmaDone \/ DmaError BY <1>3 DEF DmaDone, DmaError
  <1>4. CASE Reopening
    <2>1. pc \notin Opening BY DEF UartInv, TxInv
    <2> QED BY <1>4, <2>1
            DEF Reopening, Off, AbortReceive, StopWrite, Config, On, StopRead,
                ClearRxBuf, PollTakes, PollEnds, ReceiveIT, EnableEIE, EnableRXNEIE,
                Thread, Opening
  <1>5. CASE Caller
    <2>1. ~\E m \in Messages : StartWrite(m) BY StartWriteFinds
    <2> QED BY <1>5, <2>1 DEF Caller, CheckError, WriteStarted, Read, PauseOrResume
  <1>6. CASE UNCHANGED vars BY <1>6 DEF vars
  <1> QED BY <1>1, <1>2, <1>3, <1>4, <1>5, <1>6 DEF Next

\* The transmit buffer is not written while the DMA reads it.
THEOREM TransmitBufferKept == Spec => TxBufKept
  <1>1. UartInv /\ [Next]_vars => [dma /\ dma' => UNCHANGED tx_buf_]_vars
    BY TxBufStep
  <1> QED BY <1>1, Inductive, PTL DEF Spec, TxBufKept

=============================================================================
