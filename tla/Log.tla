-------------------------------- MODULE Log --------------------------------
(***************************************************************************)
(* utils::log (utils/log.cpp): the debug output.  Out() appends a message  *)
(* to the write buffer; Flush() hands the read buffer to the UART, which   *)
(* sends it from where it is, under interrupt; when it is sent, the        *)
(* handler moves on to the next buffer.  The buffers are those of          *)
(* utils::ShiftStaticVectors (utils/shift-static-vectors.hpp).             *)
(*                                                                         *)
(* The main loop shares with the handler, without a lock, the volatile     *)
(* tx_complete_ and the two buffer pointers; each of its steps below looks *)
(* at one of them.  All messages are of the same length here, and a        *)
(* message leaves the UART in one step.                                    *)
(***************************************************************************)
EXTENDS Integers, Sequences

CONSTANTS Messages,
          BuffersCount,   \* 3 in log.cpp
          MaxSize         \* messages that fit into a buffer

ASSUME LogAssumption == /\ BuffersCount \in Nat /\ BuffersCount >= 2
                        /\ MaxSize \in Nat /\ MaxSize >= 1

VARIABLES buffers_, write_buffer_, read_buffer_, tx_complete_,
          sending, data, len, pos,   \* the UART: from which buffer, how many
                                     \* messages, how many are out
          taken,                     \* what the UART has put out last
          pc,                        \* the main loop's next step
          waiting                    \* it is in while(!IsTransmited())

uartVars == <<sending, data, len, pos, taken>>
vars == <<buffers_, write_buffer_, read_buffer_, tx_complete_, uartVars, pc, waiting>>

Buffers == 0..(BuffersCount - 1)
Steps == {"idle", "flush", "start", "mark", "move", "size", "look", "complete"}

TypeOK == /\ buffers_ \in [Buffers -> Seq(Messages)]
          /\ \A b \in Buffers : Len(buffers_[b]) <= MaxSize
          /\ write_buffer_ \in Buffers /\ read_buffer_ \in Buffers
          /\ tx_complete_ \in BOOLEAN
          /\ sending \in BOOLEAN
          /\ data \in Buffers
          /\ len \in 0..MaxSize /\ pos \in 0..len
          /\ taken \in Seq(Messages)
          /\ pc \in Steps /\ waiting \in BOOLEAN

Init == /\ buffers_ = [b \in Buffers |-> << >>]
        /\ write_buffer_ = 0 /\ read_buffer_ = 0
        /\ tx_complete_ = TRUE
        /\ sending = FALSE /\ data = 0 /\ len = 0 /\ pos = 0
        /\ taken = << >>
        /\ pc = "idle" /\ waiting = FALSE

-----------------------------------------------------------------------------
NextBuffer(b) == IF b = BuffersCount - 1 THEN 0 ELSE b + 1

WriteSize == Len(buffers_[write_buffer_])

\* Where Flush() returns to.
Return == pc' = IF waiting THEN "size" ELSE "idle"

\* Mutant of Out: no look at the space that is left.
OutUnchecked(m) ==
  /\ pc = "idle" /\ pc' = "flush"
  /\ buffers_' = [buffers_ EXCEPT ![write_buffer_] = Append(@, m)]
  /\ UNCHANGED <<write_buffer_, read_buffer_, tx_complete_, uartVars, waiting>>

\* Out(): a message that does not fit is dropped.
Out(m) ==
  /\ pc = "idle" /\ pc' = "flush"
  /\ buffers_' = IF WriteSize < MaxSize
                 THEN [buffers_ EXCEPT ![write_buffer_] = Append(@, m)]
                 ELSE buffers_
  /\ UNCHANGED <<write_buffer_, read_buffer_, tx_complete_, uartVars, waiting>>

\* LOG_FLUSH().
CallFlush ==
  /\ pc = "idle" /\ pc' = "flush"
  /\ UNCHANGED <<buffers_, write_buffer_, read_buffer_, tx_complete_, uartVars,
                 waiting>>

\* Flush(): only when nothing is being sent.
Flush ==
  /\ pc = "flush"
  /\ IF tx_complete_ THEN pc' = "start" ELSE Return
  /\ UNCHANGED <<buffers_, write_buffer_, read_buffer_, tx_complete_, uartVars,
                 waiting>>

\* UartStartWrite(), which refuses an empty buffer.
StartWrite ==
  /\ pc = "start"
  /\ IF buffers_[read_buffer_] # << >> /\ ~sending
     THEN /\ sending' = TRUE /\ data' = read_buffer_
          /\ len' = Len(buffers_[read_buffer_]) /\ pos' = 0
          /\ pc' = "mark"
     ELSE Return /\ UNCHANGED <<sending, data, len, pos>>
  /\ UNCHANGED <<buffers_, write_buffer_, read_buffer_, tx_complete_, taken,
                 waiting>>

MarkBusy ==
  /\ pc = "mark" /\ pc' = "move"
  /\ tx_complete_' = FALSE
  /\ UNCHANGED <<buffers_, write_buffer_, read_buffer_, uartVars, waiting>>

\* Mutant of MoveWriteToNext: goes on writing where the UART reads.
MoveWriteNot ==
  /\ pc = "move" /\ Return
  /\ UNCHANGED <<buffers_, write_buffer_, read_buffer_, tx_complete_, uartVars,
                 waiting>>

MoveWriteToNext ==
  /\ pc = "move" /\ Return
  /\ LET next == NextBuffer(write_buffer_)
     IN  IF next = read_buffer_
         THEN UNCHANGED <<buffers_, write_buffer_>>
         ELSE /\ write_buffer_' = next
              /\ buffers_' = [buffers_ EXCEPT ![next] = << >>]
  /\ UNCHANGED <<read_buffer_, tx_complete_, uartVars, waiting>>

-----------------------------------------------------------------------------
\* while(!LOG_IS_TRANSMITED());
StartWait ==
  /\ pc = "idle" /\ pc' = "size"
  /\ waiting' = TRUE
  /\ UNCHANGED <<buffers_, write_buffer_, read_buffer_, tx_complete_, uartVars>>

\* Mutant of AskSize: does not flush what is left to write.
AskSizeOnly ==
  /\ pc = "size"
  /\ pc' = IF WriteSize # 0 THEN "size" ELSE "look"
  /\ UNCHANGED <<buffers_, write_buffer_, read_buffer_, tx_complete_, uartVars,
                 waiting>>

\* IsTransmited(): if something is left to write, flushes and returns false.
AskSize ==
  /\ pc = "size"
  /\ pc' = IF WriteSize # 0 THEN "flush" ELSE "look"
  /\ UNCHANGED <<buffers_, write_buffer_, read_buffer_, tx_complete_, uartVars,
                 waiting>>

Transmited == pc' = "idle" /\ waiting' = FALSE

\* Mutant of AskCanRead: takes an empty write buffer for the end.
AskCanReadNot ==
  /\ pc = "look"
  /\ Transmited
  /\ UNCHANGED <<buffers_, write_buffer_, read_buffer_, tx_complete_, uartVars>>

\* Otherwise returns !IsCanRead() || tx_complete_.
AskCanRead ==
  /\ pc = "look"
  /\ IF read_buffer_ = write_buffer_ THEN Transmited
                                     ELSE pc' = "complete" /\ UNCHANGED waiting
  /\ UNCHANGED <<buffers_, write_buffer_, read_buffer_, tx_complete_, uartVars>>

AskComplete ==
  /\ pc = "complete"
  /\ IF tx_complete_ THEN Transmited ELSE pc' = "size" /\ UNCHANGED waiting
  /\ UNCHANGED <<buffers_, write_buffer_, read_buffer_, tx_complete_, uartVars>>

Step == \/ Flush \/ StartWrite \/ MarkBusy \/ MoveWriteToNext
        \/ AskSize \/ AskCanRead \/ AskComplete

-----------------------------------------------------------------------------
\* The UART puts out the next message.
Transmit ==
  /\ sending /\ pos < len
  /\ taken' = <<buffers_[data][pos + 1]>>
  /\ pos' = pos + 1
  /\ UNCHANGED <<buffers_, write_buffer_, read_buffer_, tx_complete_, sending,
                 data, len, pc, waiting>>

\* Mutant of TxComplete: does not move on to the next buffer.
TxCompleteStays ==
  /\ sending /\ pos = len
  /\ pc \notin {"mark", "move"}
  /\ sending' = FALSE
  /\ tx_complete_' = TRUE
  /\ UNCHANGED <<buffers_, read_buffer_, write_buffer_, data, len, pos, taken,
                 pc, waiting>>

\* TxCompleteHandle(), with MoveReadToNext().  It does not come between the
\* start of the transmission and MoveWriteToNext(): that is a few instructions,
\* one character takes 87 us (115200 baud).
TxComplete ==
  /\ sending /\ pos = len
  /\ pc \notin {"mark", "move"}
  /\ sending' = FALSE
  /\ IF write_buffer_ = read_buffer_
     THEN UNCHANGED <<buffers_, read_buffer_>>
     ELSE /\ buffers_' = [buffers_ EXCEPT ![read_buffer_] = << >>]
          /\ read_buffer_' = NextBuffer(read_buffer_)
  /\ tx_complete_' = TRUE
  /\ UNCHANGED <<write_buffer_, data, len, pos, taken, pc, waiting>>

Next == \/ \E m \in Messages : Out(m)
        \/ CallFlush \/ StartWait \/ Step
        \/ Transmit \/ TxComplete

Spec == Init /\ [][Next]_vars

\* The main loop goes on, the UART transmits.
Fairness == WF_vars(Step) /\ WF_vars(Transmit) /\ WF_vars(TxComplete)

FairSpec == Spec /\ Fairness

-----------------------------------------------------------------------------
\* What was accepted and is not out yet: the rest of the buffer that is sent,
\* and what has been written after it.
Rest == IF sending THEN SubSeq(buffers_[data], pos + 1, len) ELSE << >>
Unsent == IF sending /\ data = write_buffer_ THEN << >> ELSE buffers_[write_buffer_]
Pending == Rest \o Unsent

\* The buffer the UART sends from is left alone until it is sent (log.cpp:61,
\* the pointer given to UartStartWrite(); Out() writes at the same time).
SendingKept == [][sending /\ sending' => buffers_'[data] = buffers_[data]]_vars

\* The wait for the end of the output (log.h:20: the transmission of the debug
\* messages is complete) ends only when every accepted message is out.
WaitEndsDrained == [][waiting /\ ~waiting' => Pending = << >>]_vars

\* Every wait for the end of the output ends: the loops at main.cpp:45,
\* app_core.cpp:71 and temp_sensor.cpp:320 have no limit of their own.
WaitEnds == waiting ~> ~waiting

Fifo == INSTANCE BoundedFifo WITH Capacity <- 2 * MaxSize, Values <- Messages,
                                  queue <- Pending, taken <- taken

\* The log is a queue of the size of two buffers: what Out() accepted is put out
\* once, in order, whatever buffers it went through.
ImplementsFifo == Fifo!FifoSpec
=============================================================================
