-------------------------------- MODULE Uart --------------------------------
(***************************************************************************)
(* The driver under the RS485 port: the USART's registers, the interrupt   *)
(* handler of boards/rd10/board-uart.cpp, the parts of the vendor's HAL it *)
(* relies on (stm32f3xx_hal_uart.c), and the port's calls taken apart into *)
(* the steps an interrupt can fall between.  Module Rs485 is what all this *)
(* promises to the command processor.                                      *)
(*                                                                         *)
(* Three programs run: the bus and the DMA, at any moment; the interrupt   *)
(* handler, in two steps (irq), which the thread cannot interrupt; and the *)
(* thread (pc).  The driver asks the HAL for a reception of one byte and   *)
(* never lets it end: it takes the byte out of RDR before the HAL looks.   *)
(***************************************************************************)
EXTENDS Integers, Sequences

CONSTANTS Symbols, Noise,  \* as in Rs485
          RxSize,          \* slots of the receive ring; one is always free
          Messages,        \* what the command processor sends
          MaxSent          \* bound: symbols sent to the device

ASSUME UartAssumption == /\ RxSize \in Nat /\ RxSize >= 2
                         /\ Noise \in Symbols
                         /\ "empty" \notin Messages
                         /\ MaxSent \in Nat

VARIABLES wire, sent,                \* symbols on the bus; how many there were
          RDR, RXNE, ORE, FE,        \* received symbol, flags; FE is also noise
          RXNEIE, EIE, TCIE, TC,     \* interrupt enables, transmission complete
          dma,                       \* the DMA is reading tx_buf_
          RxState, RxISR, gState, ErrorCode,             \* the HAL's handle
          rx_buf_, wpos, tx_buf_, error_, is_read_pause_, is_reading, is_writing,
          irq, pc,
          late,   \* history: a symbol arrived between two looks of one interrupt
                  \* ("rx"), a message went out in the call that sends it ("tx")
          lost    \* history: a symbol was lost since the port was opened

busVars  == <<wire, sent>>
rxRegs   == <<RDR, RXNE, ORE, FE, RXNEIE, EIE>>
txRegs   == <<TCIE, TC, dma>>
rxHal    == <<RxState, RxISR, ErrorCode>>
bufVars  == <<rx_buf_, wpos>>
flagVars == <<is_read_pause_, is_reading, is_writing>>
vars == <<busVars, rxRegs, txRegs, rxHal, gState, bufVars, tx_buf_, error_,
          flagVars, irq, pc, late, lost>>

\* Thread: the main loop, Work() after it saw no error, StartWrite(), then Off(), Config(), On() and
\* StartRead(), which is StopRead(), UartClearRxBuf() and UartStartRead().
PCs == {"work", "checked", "start_write", "busy", "stop_write", "config", "on", "stop_read",
        "clear", "poll", "receive", "eie", "rxneie", "ErrorHandler"}

TypeOK == /\ wire \in Seq(Symbols) /\ sent \in 0..MaxSent
          /\ RDR \in Symbols
          /\ {RXNE, ORE, FE, RXNEIE, EIE, TCIE, TC, dma} \subseteq BOOLEAN
          /\ {RxState, gState} \subseteq {"READY", "BUSY"}
          /\ RxISR \in BOOLEAN
          /\ ErrorCode \in SUBSET {"FE", "ORE", "DMA"}
          /\ rx_buf_ \in Seq(Symbols) /\ Len(rx_buf_) < RxSize
          /\ wpos \in 0..(RxSize - 1)
          /\ tx_buf_ \in Messages \cup {"empty"}
          /\ error_ \in {"NO", "RX_BUFFER_OVERFLOW", "UART_OVERFLOW"}
          /\ {is_read_pause_, is_reading, is_writing, lost} \subseteq BOOLEAN
          /\ irq \in {"none", "hal"}
          /\ pc \in PCs \ {"ErrorHandler"}
          /\ late \in SUBSET {"rx", "tx"}

Init == /\ wire = << >> /\ sent = 0
        /\ RDR \in Symbols
        /\ RXNE = FALSE /\ ORE = FALSE /\ FE = FALSE
        /\ RXNEIE = FALSE /\ EIE = FALSE /\ TCIE = FALSE
        /\ TC = FALSE /\ dma = FALSE
        /\ RxState = "READY" /\ RxISR = FALSE /\ gState = "READY"
        /\ ErrorCode = {}
        /\ rx_buf_ = << >> /\ wpos = 0 /\ tx_buf_ = "empty"
        /\ error_ = "NO"
        /\ is_read_pause_ = FALSE /\ is_reading = FALSE /\ is_writing = FALSE
        /\ irq = "none" /\ pc = "config"
        /\ late = {} /\ lost = FALSE

-----------------------------------------------------------------------------
\* The bus.
Send(s) == /\ sent < MaxSent
           /\ wire' = Append(wire, s)
           /\ sent' = sent + 1
           /\ UNCHANGED <<rxRegs, txRegs, rxHal, gState, bufVars, tx_buf_,
                          error_, flagVars, irq, pc, late, lost>>

\* A symbol arrives: whole, damaged, or damaged so that the receiver sees it.
\* When the one before has not been read, the new one is lost.
Receive == /\ wire # << >>
           /\ wire' = Tail(wire)
           /\ IF RXNE
              THEN /\ ORE' = TRUE /\ lost' = TRUE
                   /\ UNCHANGED <<RDR, RXNE, FE>>
              ELSE /\ \/ RDR' = Head(wire) /\ UNCHANGED FE
                      \/ RDR' = Noise /\ FE' \in {FE, TRUE}
                   /\ RXNE' = TRUE
                   /\ UNCHANGED <<ORE, lost>>
           /\ late' = IF irq = "hal" /\ ~RXNE /\ RXNEIE THEN late \cup {"rx"} ELSE late
           /\ UNCHANGED <<sent, RXNEIE, EIE, txRegs, rxHal, gState, bufVars,
                          tx_buf_, error_, flagVars, irq, pc>>

\* The last symbol has left the shift register.
ShiftedOut == /\ TCIE /\ ~TC
              /\ TC' = TRUE
              /\ UNCHANGED <<busVars, rxRegs, TCIE, dma, rxHal, gState, bufVars,
                             tx_buf_, error_, flagVars, irq, pc, late, lost>>

-----------------------------------------------------------------------------
\* Interrupts.
\* Mutant of HasRoom: fills the slot that must stay free.
HasRoomOffByOne == Len(rx_buf_) < RxSize

HasRoom == Len(rx_buf_) < RxSize - 1

\* Mutant of Notify: does not look at the pause.
NotifyAlways(s) == IF HasRoom
                   THEN /\ rx_buf_' = Append(rx_buf_, s)
                        /\ wpos' = IF wpos = RxSize - 1 THEN 0 ELSE wpos + 1
                   ELSE UNCHANGED bufVars

\* Rs485Interface::IrqHandleRx(), called with the symbol just read.
Notify(s) == IF ~is_read_pause_ /\ HasRoom
             THEN /\ rx_buf_' = Append(rx_buf_, s)
                  /\ wpos' = IF wpos = RxSize - 1 THEN 0 ELSE wpos + 1
             ELSE UNCHANGED bufVars

Overflows == ~is_read_pause_ /\ ~HasRoom

Pending == \/ RXNE /\ RXNEIE
           \/ ORE /\ (RXNEIE \/ EIE)
           \/ FE /\ EIE
           \/ TC /\ TCIE

\* Mutant of RxByOneByte: leaves the reading of RDR to the HAL.
RxByHal == /\ irq = "none" /\ Pending
           /\ irq' = "hal"
           /\ UNCHANGED <<busVars, rxRegs, txRegs, rxHal, gState, bufVars,
                          tx_buf_, error_, flagVars, pc, late, lost>>

\* USART2_IRQHandler(): the driver takes the symbol itself, so that the HAL
\* does not see that one arrived ...
RxByOneByte ==
  /\ irq = "none" /\ Pending
  /\ irq' = "hal"
  /\ IF RXNE /\ RXNEIE
     THEN /\ RXNE' = FALSE
          /\ Notify(RDR)
          /\ error_' = IF Overflows THEN "RX_BUFFER_OVERFLOW" ELSE error_
     ELSE UNCHANGED <<RXNE, bufVars, error_>>
  /\ UNCHANGED <<busVars, RDR, ORE, FE, RXNEIE, EIE, txRegs, rxHal, gState,
                 tx_buf_, flagVars, pc, late, lost>>

\* ... and goes on to HAL_UART_IRQHandler().
InHal == irq = "hal" /\ irq' = "none"

Errors == ORE \/ FE

\* Mutant of CodeNow: an overrun is cleared and not noted.
CodeNowNoOverrun == ErrorCode \cup (IF FE /\ EIE THEN {"FE"} ELSE {})

CodeNow == ErrorCode \cup (IF FE /\ EIE THEN {"FE"} ELSE {})
                     \cup (IF ORE /\ (RXNEIE \/ EIE) THEN {"ORE"} ELSE {})

\* UART_RxISR_8BIT(): a symbol that arrived after RDR was read completes the
\* reception of one byte.  Nobody starts the next one.
TakesByte == RXNE /\ RXNEIE /\ RxISR
EndsRead == TakesByte /\ RxState = "BUSY"

RxISR_8BIT == IF EndsRead THEN Notify(RDR) /\ UNCHANGED lost
                          ELSE UNCHANGED bufVars /\ lost' = (lost \/ TakesByte)

\* Interrupts for the reception are disabled with its end or an overrun.
ClosesIf(c) == IF c THEN /\ RXNEIE' = FALSE /\ EIE' = FALSE
                         /\ RxState' = "READY" /\ RxISR' = FALSE
                    ELSE UNCHANGED <<RXNEIE, EIE, RxState, RxISR>>

HalReceived ==
  /\ InHal
  /\ ~Errors /\ RXNE /\ RXNEIE
  /\ RxISR_8BIT
  /\ RXNE' = (RXNE /\ ~TakesByte)
  /\ ClosesIf(EndsRead)
  /\ error_' = IF EndsRead /\ Overflows THEN "RX_BUFFER_OVERFLOW" ELSE error_
  /\ UNCHANGED <<busVars, RDR, ORE, FE, txRegs, ErrorCode, gState, tx_buf_,
                 flagVars, pc, late>>

\* An overrun ends the reception, the other errors do not.
HalError ==
  /\ InHal
  /\ Errors /\ (EIE \/ RXNEIE)
  /\ FE' = (FE /\ ~EIE) /\ ORE' = FALSE
  /\ IF CodeNow = {}
     THEN UNCHANGED <<RXNE, RXNEIE, EIE, rxHal, bufVars, error_, lost>>
     ELSE /\ RxISR_8BIT
          /\ RXNE' = (RXNE /\ ~TakesByte)
          /\ ClosesIf(EndsRead \/ "ORE" \in CodeNow)
          /\ ErrorCode' = IF "ORE" \in CodeNow THEN CodeNow ELSE {}
          /\ error_' = "UART_OVERFLOW"
  /\ UNCHANGED <<busVars, RDR, txRegs, gState, tx_buf_, flagVars, pc, late>>

\* UART_EndTransmit_IT() and HAL_UART_TxCpltCallback(); the interrupt may also
\* have been only for the symbol the driver took.
HalOther ==
  /\ InHal
  /\ ~(Errors /\ (EIE \/ RXNEIE)) /\ (Errors \/ ~(RXNE /\ RXNEIE))
  /\ IF TC /\ TCIE
     THEN /\ TCIE' = FALSE /\ gState' = "READY"
          /\ tx_buf_' = "empty" /\ is_writing' = FALSE
          /\ late' = IF pc = "start_write" THEN late \cup {"tx"} ELSE late
     ELSE UNCHANGED <<TCIE, gState, tx_buf_, is_writing, late>>
  /\ UNCHANGED <<busVars, rxRegs, TC, dma, rxHal, bufVars, error_,
                 is_read_pause_, is_reading, pc, lost>>

\* DMA1_Channel4_IRQHandler(): the transfer is done, or has failed.
DmaDone == /\ irq = "none" /\ dma
           /\ dma' = FALSE
           /\ TCIE' = TRUE
           /\ UNCHANGED <<busVars, rxRegs, TC, rxHal, gState, bufVars, tx_buf_,
                          error_, flagVars, irq, pc, late, lost>>

DmaError == /\ irq = "none" /\ dma
            /\ dma' = FALSE /\ gState' = "READY"
            /\ ErrorCode' = ErrorCode \cup {"DMA"}
            /\ error_' = "UART_OVERFLOW"
            /\ UNCHANGED <<busVars, rxRegs, TCIE, TC, RxState, RxISR, bufVars,
                           tx_buf_, flagVars, irq, pc, late, lost>>

Interrupt == RxByOneByte \/ HalReceived \/ HalError \/ HalOther

-----------------------------------------------------------------------------
\* The thread.
Thread(from, to) == irq = "none" /\ pc = from /\ pc' = to

\* Work() begins with the error flag.
CheckError == /\ Thread("work", "checked")
              /\ error_ = "NO" /\ ~is_read_pause_
              /\ UNCHANGED <<busVars, rxRegs, txRegs, rxHal, gState, bufVars,
                             tx_buf_, error_, flagVars, irq, late, lost>>

\* StopRead(), with which Off() begins.
AbortReceive == /\ is_reading' = FALSE
                /\ RXNEIE' = FALSE /\ EIE' = FALSE
                /\ ORE' = FALSE /\ FE' = FALSE
                /\ RxState' = "READY"
                /\ UNCHANGED <<busVars, RDR, RXNE, txRegs, RxISR, ErrorCode,
                               gState, bufVars, tx_buf_, error_,
                               is_read_pause_, is_writing, irq, late, lost>>

\* Mutant of Off: takes the overflow of the buffer for the only error.
OffIfOverflow == /\ Thread("work", "stop_write")
                 /\ error_ = "RX_BUFFER_OVERFLOW" /\ ~is_read_pause_
                 /\ AbortReceive

Off == /\ Thread("work", "stop_write")
       /\ error_ # "NO" /\ ~is_read_pause_
       /\ AbortReceive

\* Mutant of StopWrite: leaves the transmission to the HAL.
StopWriteFlagOnly ==
  /\ Thread("stop_write", "config")
  /\ is_writing' = FALSE
  /\ UNCHANGED <<busVars, rxRegs, txRegs, rxHal, gState, bufVars, tx_buf_,
                 error_, is_read_pause_, is_reading, irq, late, lost>>

StopWrite == /\ Thread("stop_write", "config")
             /\ is_writing' = FALSE
             /\ TCIE' = FALSE /\ dma' = FALSE /\ gState' = "READY"
             /\ late' = late \ {"tx"}
             /\ UNCHANGED <<busVars, rxRegs, TC, rxHal, bufVars, tx_buf_, error_,
                            is_read_pause_, is_reading, irq, lost>>

\* UartConfig() disables the peripheral, which clears its flags.
Config == /\ Thread("config", "on")
          /\ RXNE' = FALSE /\ ORE' = FALSE /\ FE' = FALSE /\ TC' = FALSE
          /\ RxState' = "READY" /\ gState' = "READY" /\ ErrorCode' = {}
          /\ is_writing' = FALSE /\ is_reading' = FALSE
          /\ UNCHANGED <<busVars, RDR, RXNEIE, EIE, TCIE, dma, RxISR, bufVars,
                         tx_buf_, error_, is_read_pause_, irq, late, lost>>

On == /\ Thread("on", "stop_read")
      /\ tx_buf_' = "empty"
      /\ rx_buf_' = << >> /\ wpos' = 0
      /\ error_' = "NO"
      /\ UNCHANGED <<busVars, rxRegs, txRegs, rxHal, gState, flagVars, irq,
                     late, lost>>

StopRead == Thread("stop_read", "clear") /\ AbortReceive

\* UartClearRxBuf(): up to 20 symbols are read by polling, in 2 ms.
ClearRxBuf == /\ Thread("clear", IF RxState = "READY" THEN "poll" ELSE "receive")
              /\ ORE' = FALSE
              /\ RxState' = "BUSY"
              /\ ErrorCode' = IF RxState = "READY" THEN {} ELSE ErrorCode
              /\ UNCHANGED <<busVars, RDR, RXNE, FE, RXNEIE, EIE, txRegs, RxISR,
                             gState, bufVars, tx_buf_, error_, flagVars, irq,
                             late, lost>>

PollTakes == /\ Thread("poll", "poll")
             /\ RXNE
             /\ RXNE' = FALSE
             /\ UNCHANGED <<busVars, RDR, ORE, FE, RXNEIE, EIE, txRegs, rxHal,
                            gState, bufVars, tx_buf_, error_, flagVars, irq,
                            late, lost>>

\* The polling ends: all was read, the time is over, or an overrun.
PollEnds ==
  /\ Thread("poll", "receive")
  /\ ~RXNE
  /\ RxState' = "READY"
  /\ lost' = FALSE
  /\ \/ ORE /\ ORE' = FALSE /\ ErrorCode' = {"ORE"}
        /\ RXNEIE' = FALSE /\ EIE' = FALSE /\ RxISR' = FALSE
     \/ UNCHANGED <<ORE, ErrorCode, RXNEIE, EIE, RxISR>>
  /\ UNCHANGED <<busVars, RDR, RXNE, FE, txRegs, gState, bufVars, tx_buf_,
                 error_, flagVars, irq, late>>

\* HAL_UART_Receive_IT(), whose refusal Start() takes for a fatal error.
ReceiveIT ==
  /\ Thread("receive", IF RxState = "READY" THEN "eie" ELSE "ErrorHandler")
  /\ is_read_pause_' = FALSE
  /\ RxState' = "BUSY" /\ RxISR' = FALSE /\ ErrorCode' = {}
  /\ late' = late \ {"rx"}
  /\ UNCHANGED <<busVars, rxRegs, txRegs, gState, bufVars, tx_buf_, error_,
                 is_reading, is_writing, irq, lost>>

EnableEIE == /\ Thread("eie", "rxneie")
             /\ EIE' = TRUE
             /\ UNCHANGED <<busVars, RDR, RXNE, ORE, FE, RXNEIE, txRegs, rxHal,
                            gState, bufVars, tx_buf_, error_, flagVars, irq,
                            late, lost>>

EnableRXNEIE == /\ Thread("rxneie", "work")
                /\ RxISR' = TRUE /\ RXNEIE' = TRUE
                /\ is_reading' = TRUE
                /\ UNCHANGED <<busVars, RDR, RXNE, ORE, FE, EIE, txRegs, RxState,
                               ErrorCode, gState, bufVars, tx_buf_, error_,
                               is_read_pause_, is_writing, irq, late, lost>>

Reopening == \/ Off \/ StopWrite \/ Config \/ On \/ StopRead \/ ClearRxBuf
             \/ PollTakes \/ PollEnds \/ ReceiveIT \/ EnableEIE \/ EnableRXNEIE

\* Mutant of StartWrite: does not ask whether a transmission is under way.
StartWriteAnyTime(m) ==
  /\ Thread("checked", IF gState = "READY" THEN "start_write" ELSE "busy")
  /\ tx_buf_' = m
  /\ gState' = "BUSY" /\ dma' = TRUE /\ TC' = FALSE
  /\ ErrorCode' = {}
  /\ UNCHANGED <<busVars, rxRegs, TCIE, RxState, RxISR, bufVars, error_,
                 flagVars, irq, late, lost>>

\* Rs485Interface::StartWrite(): the message is copied, the HAL starts the DMA,
\* and only then is_writing is set to what the HAL returned.
StartWrite(m) ==
  /\ Thread("checked", IF gState = "READY" THEN "start_write" ELSE "busy")
  /\ ~is_writing
  /\ tx_buf_' = m
  /\ IF gState = "READY"
     THEN gState' = "BUSY" /\ dma' = TRUE /\ TC' = FALSE /\ ErrorCode' = {}
     ELSE UNCHANGED <<gState, dma, TC, ErrorCode>>
  /\ UNCHANGED <<busVars, rxRegs, TCIE, RxState, RxISR, bufVars, error_,
                 flagVars, irq, late, lost>>

WriteStarted == /\ irq = "none" /\ pc \in {"start_write", "busy"}
                /\ pc' = "work"
                /\ is_writing' = (pc = "start_write")
                /\ UNCHANGED <<busVars, rxRegs, txRegs, rxHal, gState, bufVars,
                               tx_buf_, error_, is_read_pause_, is_reading, irq,
                               late, lost>>

\* The command processor takes n symbols, or does not call the port; the application pauses the reading
\* while it measures and makes no other call meanwhile.
Read(n) == /\ Thread("checked", "work")
           /\ n <= Len(rx_buf_)
           /\ rx_buf_' = SubSeq(rx_buf_, n + 1, Len(rx_buf_))
           /\ UNCHANGED <<busVars, rxRegs, txRegs, rxHal, gState, wpos, tx_buf_,
                          error_, flagVars, irq, late, lost>>

PauseOrResume == /\ Thread("work", "work")
                 /\ is_read_pause_' = ~is_read_pause_
                 /\ UNCHANGED <<busVars, rxRegs, txRegs, rxHal, gState, bufVars,
                                tx_buf_, error_, is_reading, is_writing, irq,
                                late, lost>>

Caller == \/ CheckError
          \/ \E m \in Messages : StartWrite(m)
          \/ WriteStarted
          \/ \E n \in 0..(RxSize - 1) : Read(n)
          \/ PauseOrResume

-----------------------------------------------------------------------------
Bus == (\E s \in Symbols : Send(s)) \/ Receive \/ ShiftedOut

Next == Bus \/ Interrupt \/ DmaDone \/ DmaError \/ Reopening \/ Caller

Spec == Init /\ [][Next]_vars

\* Interrupts are served, the thread goes on, and a pause ends.  Every pass of
\* the main loop calls Work(), whatever else it does: Off is not put off for ever.
Fairness == /\ WF_vars(Interrupt) /\ WF_vars(Reopening) /\ WF_vars(WriteStarted \/ Read(0))
            /\ SF_vars(Off)
            /\ WF_vars(is_read_pause_ /\ PauseOrResume)

FairSpec == Spec /\ Fairness

-----------------------------------------------------------------------------
Open == {"work", "checked", "start_write", "busy"}

\* While the port is open and no error is reported, the HAL's reception of one
\* byte is under way and its interrupts are on: nothing ends it behind the
\* driver's back (board-uart.cpp:303 reads RDR itself for that) but a symbol
\* that arrives between the two looks at RXNE of one interrupt.
ReceptionKept ==
  pc \in Open /\ error_ = "NO" /\ "rx" \notin late =>
    RxState = "BUSY" /\ RxISR /\ RXNEIE /\ EIE

\* A symbol lost since the port was opened is reported: the error flag is set
\* or its interrupt is pending (rs485.cpp:64; the command processor then opens
\* the port again and does not wait for the rest of the message).
NoSilentLoss ==
  pc \in Open /\ lost /\ "rx" \notin late =>
    error_ # "NO" \/ (ORE /\ EIE /\ RXNEIE)

\* is_writing says whether the HAL is transmitting, between the calls, unless
\* an error is reported or the whole message went out before UartStartWrite()
\* had its result stored (board-uart.cpp:248, 327).
WritingIsReal ==
  /\ gState = "BUSY" => is_writing \/ pc = "start_write"
  /\ is_writing => gState = "BUSY" \/ error_ # "NO" \/ "tx" \in late

\* The transmit buffer does not change while the DMA reads it: neither a new
\* message nor On(), which empties it, comes over one that is going out.
TxBufKept == [][dma /\ dma' => UNCHANGED tx_buf_]_vars

\* Whatever the state in which an error finds the port, it is opened again and
\* works, and HAL_UART_Receive_IT() never refuses, which would be the endless
\* loop of ErrorHandler() (cmd-processor.cpp:32, 21).
Reopens == error_ # "NO" ~> pc = "work" /\ error_ = "NO"

\* The driver does what the command processor's port promises.  Off() is where
\* the port is opened again, as far as the caller can see.
Closed == pc \in {"stop_write", "config", "on"}
Port == INSTANCE Rs485 WITH
          ClearMax <- 0, TornSize <- FALSE,
          line <- (IF RXNE THEN <<RDR>> ELSE << >>) \o wire,
          rx_buf_ <- IF Closed THEN << >> ELSE rx_buf_,
          wpos <- IF Closed THEN 0 ELSE wpos,
          error_ <- IF Closed THEN "NO" ELSE error_,
          is_writing <- ~Closed /\ is_writing
ImplementsRs485 == Port!Rs485Spec
=============================================================================
