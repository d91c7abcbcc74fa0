------------------------------- MODULE Rs485 -------------------------------
(***************************************************************************)
(* The RS485 port: ext::Rs485Interface (peripherals/rs485.cpp) and the     *)
(* UART driver under it (boards/rd10/board-uart.cpp), with the bus it      *)
(* listens to.  The bus carries symbols: a symbol stands for one field of  *)
(* a message (the marker, the address, the rest of the header, a byte of   *)
(* data), so that a message cut in the middle, or joined to the leftovers  *)
(* of another one, is something the model can see.                         *)
(*                                                                         *)
(* The receive buffer is the bounded queue that RoundBuf was shown to      *)
(* implement.  What the queue does not show is the size check that the     *)
(* interrupt fools when write_ind_ wraps (RoundBuf!ShortReadOnlyAtWrap);   *)
(* wpos, the write index, is kept here for it.                             *)
(***************************************************************************)
EXTENDS Integers, Sequences

CONSTANTS Symbols,   \* what can appear on the bus
          Noise,     \* a symbol damaged on the bus
          RxSize,    \* slots of the receive ring; one is always free
          ClearMax,  \* symbols UartClearRxBuf() can swallow in its 2 ms
          TornSize   \* whether an interrupt may fall between the two looks
                     \* Size() takes at write_ind_

ASSUME Rs485Assumption == /\ RxSize \in Nat /\ RxSize >= 2
                          /\ ClearMax \in Nat
                          /\ Noise \in Symbols
                          /\ TornSize \in BOOLEAN

VARIABLES line,            \* symbols on the bus that have not arrived yet
          rx_buf_,         \* the receive buffer, oldest symbol first
          wpos,            \* its write index
          error_,          \* GetError()
          is_read_pause_,
          is_writing

rs485Vars == <<line, rx_buf_, wpos, error_, is_read_pause_, is_writing>>

Errors == {"NO", "RX_BUFFER_OVERFLOW", "UART_OVERFLOW"}

Rs485TypeOK == /\ line \in Seq(Symbols)
               /\ rx_buf_ \in Seq(Symbols) /\ Len(rx_buf_) < RxSize
               /\ wpos \in 0..(RxSize - 1)
               /\ error_ \in Errors
               /\ is_read_pause_ \in BOOLEAN
               /\ is_writing \in BOOLEAN

Rs485Init == /\ line = << >>
             /\ rx_buf_ = << >> /\ wpos = 0
             /\ error_ = "NO"
             /\ is_read_pause_ = FALSE
             /\ is_writing = FALSE

-----------------------------------------------------------------------------
\* Mutant of HasRoom: fills the slot that must stay free.
HasRoomOffByOne == Len(rx_buf_) < RxSize

HasRoom == Len(rx_buf_) < RxSize - 1

NextPos == IF wpos = RxSize - 1 THEN 0 ELSE wpos + 1

\* IrqHandleRx(): dropped while paused, an error when the buffer is full.
IrqHandleRx(b) ==
  IF ~is_read_pause_ /\ HasRoom
  THEN /\ rx_buf_' = Append(rx_buf_, b)
       /\ wpos' = NextPos
       /\ UNCHANGED error_
  ELSE /\ error_' = IF is_read_pause_ THEN error_ ELSE "RX_BUFFER_OVERFLOW"
       /\ UNCHANGED <<rx_buf_, wpos>>

Arrive == /\ line # << >>
          /\ line' = Tail(line)
          /\ IrqHandleRx(Head(line))
          /\ UNCHANGED <<is_read_pause_, is_writing>>

\* A symbol is damaged on the bus, or lost to the receiver.
Damage == /\ \E i \in DOMAIN line : /\ line[i] # Noise
                                   /\ line' = [line EXCEPT ![i] = Noise]
          /\ UNCHANGED <<rx_buf_, wpos, error_, is_read_pause_, is_writing>>

Lose == /\ \E i \in DOMAIN line :
             line' = SubSeq(line, 1, i - 1) \o SubSeq(line, i + 1, Len(line))
        /\ UNCHANGED <<rx_buf_, wpos, error_, is_read_pause_, is_writing>>

\* IrqHandleErr(): the UART reports an overrun, a framing or noise error, or
\* the failure of a DMA transfer, after the symbol it read, if any.
IrqHandleErr == /\ error_' = "UART_OVERFLOW"
                /\ \/ UNCHANGED <<line, rx_buf_, wpos>>
                   \/ /\ line # << >>
                      /\ line' = Tail(line)
                      /\ IF ~is_read_pause_ /\ HasRoom
                         THEN rx_buf_' = Append(rx_buf_, Head(line)) /\ wpos' = NextPos
                         ELSE UNCHANGED <<rx_buf_, wpos>>
                /\ UNCHANGED <<is_read_pause_, is_writing>>

\* The transmission is complete (IrqHandleTx(), then is_writing = false).
IrqHandleTx == /\ is_writing
               /\ is_writing' = FALSE
               /\ UNCHANGED <<line, rx_buf_, wpos, error_, is_read_pause_>>

\* Off(), Config(), On() and StartRead(), one after the other.  On() empties
\* the buffer; UartClearRxBuf() then swallows what arrives in 2 ms.
Reopen == /\ \E n \in 0..ClearMax :
               /\ n <= Len(line)
               /\ line' = SubSeq(line, n + 1, Len(line))
          /\ rx_buf_' = << >> /\ wpos' = 0
          /\ error_' = "NO"
          /\ is_read_pause_' = FALSE
          /\ is_writing' = FALSE

\* An arriving symbol wraps the write index between the two looks of Size(),
\* which then reports a huge size although less than n symbols are there.
SizeFooled(n) == /\ TornSize /\ Len(rx_buf_) < n
                 /\ line # << >> /\ wpos = RxSize - 1
                 /\ HasRoom /\ ~is_read_pause_

\* GetRxDataSize() >= n, and what ReadRxData() of n symbols then returns.
HasRxData(n) == Len(rx_buf_) >= n \/ SizeFooled(n)

RxData(n) == IF Len(rx_buf_) >= n THEN SubSeq(rx_buf_, 1, n)
                                  ELSE Append(rx_buf_, Head(line))

ReadRxData(n) ==
  /\ IF Len(rx_buf_) >= n
     THEN /\ rx_buf_' = SubSeq(rx_buf_, n + 1, Len(rx_buf_))
          /\ UNCHANGED <<line, wpos>>
     ELSE /\ rx_buf_' = << >>
          /\ line' = Tail(line)
          /\ wpos' = 0
  /\ UNCHANGED <<error_, is_read_pause_, is_writing>>
-----------------------------------------------------------------------------
\* The port by itself, whoever calls it: what the driver of module Uart is
\* shown to implement.
StartWrite485 == /\ ~is_writing
                 /\ is_writing' = TRUE
                 /\ UNCHANGED <<line, rx_buf_, wpos, error_, is_read_pause_>>

PauseOrResume == /\ is_read_pause_' \in BOOLEAN
                 /\ UNCHANGED <<line, rx_buf_, wpos, error_, is_writing>>

\* Another device puts a symbol, or a whole message, on the bus.
Heard == /\ line' \in Seq(Symbols) /\ Len(line') > Len(line)
         /\ SubSeq(line', 1, Len(line)) = line
         /\ UNCHANGED <<rx_buf_, wpos, error_, is_read_pause_, is_writing>>

Rs485Next == \/ Arrive \/ Damage \/ Lose \/ IrqHandleErr \/ IrqHandleTx
             \/ Reopen \/ StartWrite485 \/ PauseOrResume
             \/ \E n \in 1..(RxSize - 1) : HasRxData(n) /\ ReadRxData(n)
             \/ Heard

Rs485Spec == Rs485Init /\ [][Rs485Next]_rs485Vars
=============================================================================
