----------------------------- MODULE LogProofs -----------------------------
(***************************************************************************)
(* Proofs about Log, for any set of messages, any size of the buffers and  *)
(* two buffers or more.                                                    *)
(*                                                                         *)
(* The invariant says how far the two buffer pointers can be apart at each *)
(* step of the main loop: they are equal while nothing is sent and until   *)
(* MoveWriteToNext(), and neighbours from then until the handler runs.     *)
(* That is why two buffers suffice, and why the writer never meets the     *)
(* buffer that is sent.                                                    *)
(***************************************************************************)
EXTENDS Log, SequenceTheorems, TLAPS

\* What the UART holds is the read buffer, all of it.
UartInv == sending => /\ data = read_buffer_
                      /\ len = Len(buffers_[data])

\* Starting a transmission, before the write buffer has moved.
Starting == pc \in {"mark", "move"}

PointerInv == /\ ~sending \/ Starting => write_buffer_ = read_buffer_
              /\ sending /\ ~Starting => write_buffer_ = NextBuffer(read_buffer_)

\* tx_complete_ tells the truth, except while a transmission is being started.
FlagInv == /\ ~sending => tx_complete_ = TRUE
           /\ sending /\ ~Starting => tx_complete_ = FALSE
           /\ Starting => sending
           /\ pc = "start" => ~sending
           /\ pc = "move" => tx_complete_ = FALSE

\* Once IsTransmited() has seen an empty write buffer it stays empty.
AskInv == pc \in {"look", "complete"} => buffers_[write_buffer_] = << >>

IInv == TypeOK /\ UartInv /\ PointerInv /\ FlagInv /\ AskInv

\* With two buffers or more, the next one is another one.
LEMMA NextIsAnother ==
  ASSUME NEW b \in Buffers
  PROVE  NextBuffer(b) \in Buffers /\ NextBuffer(b) # b
BY LogAssumption DEF Buffers, NextBuffer

LEMMA InitInv == Init => IInv
<1> SUFFICES ASSUME Init PROVE IInv
  OBVIOUS
<1>1. 0 \in Buffers /\ MaxSize \in Nat
  BY LogAssumption DEF Buffers
<1>2. << >> \in Seq(Messages) /\ Len(<< >>) = 0
  BY EmptySeq
<1>. QED
  BY <1>1, <1>2 DEF Init, IInv, TypeOK, Steps, UartInv, Starting, PointerInv,
                    FlagInv, AskInv

LEMMA OutInv == ASSUME IInv, NEW m \in Messages, Out(m) PROVE IInv'
<1> USE DEF IInv
<1>1. /\ pc = "idle" /\ pc' = "flush"
      /\ UNCHANGED <<write_buffer_, read_buffer_, tx_complete_, sending, data,
                     len, pos, taken, waiting>>
  BY DEF Out, uartVars
<1>2. CASE WriteSize < MaxSize
  <2>1. buffers_' = [buffers_ EXCEPT ![write_buffer_] = Append(@, m)]
    BY <1>2 DEF Out
  <2>2. /\ Append(buffers_[write_buffer_], m) \in Seq(Messages)
        /\ Len(Append(buffers_[write_buffer_], m)) = WriteSize + 1
    BY AppendProperties DEF TypeOK, WriteSize
  <2>3. WriteSize \in Nat
    BY LenProperties DEF TypeOK, WriteSize
  <2>4. /\ buffers_' \in [Buffers -> Seq(Messages)]
        /\ \A b \in Buffers : Len(buffers_'[b]) <= MaxSize
    BY <1>2, <2>1, <2>2, <2>3, LogAssumption DEF TypeOK
  <2>5. TypeOK'
    BY <1>1, <2>4 DEF TypeOK, Steps
  <2>6. sending => buffers_'[data] = buffers_[data]
    BY <1>1, <2>1, NextIsAnother DEF TypeOK, UartInv, PointerInv, Starting
  <2>. QED
    BY <1>1, <2>5, <2>6 DEF UartInv, PointerInv, FlagInv, AskInv, Starting
<1>3. CASE ~(WriteSize < MaxSize)
  <2>1. buffers_' = buffers_
    BY <1>3 DEF Out
  <2>2. TypeOK'
    BY <1>1, <2>1 DEF TypeOK, Steps
  <2>. QED
    BY <1>1, <2>1, <2>2 DEF UartInv, PointerInv, FlagInv, AskInv, Starting
<1>. QED  BY <1>2, <1>3

\* The steps of the main loop that move neither buffers nor pointers.
LEMMA LookInv ==
  ASSUME IInv, CallFlush \/ Flush \/ StartWait \/ AskSize \/ AskCanRead \/ AskComplete
  PROVE  IInv'
<1> USE DEF IInv
<1>1. UNCHANGED <<buffers_, write_buffer_, read_buffer_, tx_complete_, sending,
                  data, len, pos, taken>>
  BY DEF CallFlush, Flush, StartWait, AskSize, AskCanRead, AskComplete, uartVars
<1>2. /\ pc' \in Steps \ {"mark", "move"} /\ waiting' \in BOOLEAN
      /\ ~Starting
      /\ pc' = "start" => tx_complete_ = TRUE
  BY DEF CallFlush, Flush, StartWait, AskSize, AskCanRead, AskComplete, TypeOK,
         Steps, Return, Transmited, Starting
<1>3. TypeOK'
  BY <1>1, <1>2 DEF TypeOK
<1>4. UartInv' /\ PointerInv' /\ FlagInv'
  BY <1>1, <1>2 DEF UartInv, PointerInv, FlagInv, Starting
<1>5. AskInv'
  <2>1. ASSUME pc' = "look" PROVE buffers_[write_buffer_] = << >>
    <3>1. AskSize /\ WriteSize = 0
      BY <2>1 DEF CallFlush, Flush, StartWait, AskSize, AskCanRead, AskComplete,
                  Return, Transmited
    <3>. QED  BY <3>1, EmptySeq DEF TypeOK, WriteSize
  <2>2. pc' = "complete" => pc = "look"
    BY DEF CallFlush, Flush, StartWait, AskSize, AskCanRead, AskComplete,
           Return, Transmited
  <2>. QED  BY <1>1, <2>1, <2>2 DEF AskInv
<1>. QED  BY <1>3, <1>4, <1>5

LEMMA StartWriteInv == ASSUME IInv, StartWrite PROVE IInv'
<1> USE DEF IInv
<1>1. /\ pc = "start" /\ ~sending
      /\ UNCHANGED <<buffers_, write_buffer_, read_buffer_, tx_complete_, taken,
                     waiting>>
  BY DEF StartWrite, FlagInv
<1>2. CASE buffers_[read_buffer_] # << >>
  <2>1. /\ sending' = TRUE /\ data' = read_buffer_
        /\ len' = Len(buffers_[read_buffer_]) /\ pos' = 0 /\ pc' = "mark"
    BY <1>1, <1>2 DEF StartWrite
  <2>2. len' \in 0..MaxSize /\ pos' \in 0..len'
    BY <2>1, LenProperties, LogAssumption DEF TypeOK
  <2>3. TypeOK'
    BY <1>1, <2>1, <2>2 DEF TypeOK, Steps
  <2>. QED
    BY <1>1, <2>1, <2>3 DEF UartInv, PointerInv, FlagInv, AskInv, Starting
<1>3. CASE ~(buffers_[read_buffer_] # << >>)
  <2>1. /\ UNCHANGED <<sending, data, len, pos>>
        /\ pc' \in {"size", "idle"}
    BY <1>3 DEF StartWrite, Return
  <2>2. TypeOK'
    BY <1>1, <2>1 DEF TypeOK, Steps
  <2>. QED
    BY <1>1, <2>1, <2>2 DEF UartInv, PointerInv, FlagInv, AskInv, Starting
<1>. QED  BY <1>2, <1>3

LEMMA MarkBusyInv == ASSUME IInv, MarkBusy PROVE IInv'
<1> USE DEF IInv
<1>1. /\ pc = "mark" /\ pc' = "move" /\ tx_complete_' = FALSE
      /\ UNCHANGED <<buffers_, write_buffer_, read_buffer_, sending, data, len,
                     pos, taken, waiting>>
  BY DEF MarkBusy, uartVars
<1>2. TypeOK'
  BY <1>1 DEF TypeOK, Steps
<1>. QED
  BY <1>1, <1>2 DEF UartInv, PointerInv, FlagInv, AskInv, Starting

\* The write buffer moves to the neighbour of the read buffer, and clears it.
LEMMA MoveWriteInv ==
  ASSUME IInv, MoveWriteToNext
  PROVE  /\ IInv'
         /\ write_buffer_' # data /\ buffers_'[data] = buffers_[data]
         /\ buffers_'[write_buffer_'] = << >>
<1> USE DEF IInv
<1> DEFINE next == NextBuffer(write_buffer_)
<1>1. /\ pc = "move" /\ pc' \in {"size", "idle"}
      /\ UNCHANGED <<read_buffer_, tx_complete_, sending, data, len, pos, taken,
                     waiting>>
  BY DEF MoveWriteToNext, Return, uartVars
<1>2. sending /\ write_buffer_ = read_buffer_ /\ data = read_buffer_
  BY <1>1 DEF UartInv, PointerInv, FlagInv, Starting
<1>3. next \in Buffers /\ next # read_buffer_
  BY <1>2, NextIsAnother DEF TypeOK
<1>4. /\ write_buffer_' = next
      /\ buffers_' = [buffers_ EXCEPT ![next] = << >>]
  BY <1>3 DEF MoveWriteToNext
<1> HIDE DEF next
<1>5. /\ buffers_' \in [Buffers -> Seq(Messages)]
      /\ \A b \in Buffers : Len(buffers_'[b]) <= MaxSize
      /\ buffers_'[next] = << >>
      /\ buffers_'[data] = buffers_[data]
  BY <1>2, <1>3, <1>4, EmptySeq, LogAssumption DEF TypeOK
<1>6. TypeOK'
  BY <1>1, <1>3, <1>4, <1>5 DEF TypeOK, Steps
<1>7. write_buffer_' = NextBuffer(read_buffer_)
  BY <1>2, <1>4 DEF next
<1>8. UartInv' /\ PointerInv' /\ AskInv'
  BY <1>1, <1>2, <1>5, <1>7 DEF UartInv, PointerInv, AskInv, Starting
<1>9. FlagInv'
  <2>1. tx_complete_ = FALSE
    BY <1>1 DEF FlagInv
  <2>. QED  BY <1>1, <1>2, <2>1 DEF FlagInv, Starting
<1>. QED  BY <1>2, <1>3, <1>4, <1>5, <1>6, <1>8, <1>9

LEMMA TransmitInv == ASSUME IInv, Transmit PROVE IInv'
<1> USE DEF IInv
<1>1. /\ sending /\ pos < len /\ pos' = pos + 1
      /\ taken' = <<buffers_[data][pos + 1]>>
      /\ UNCHANGED <<buffers_, write_buffer_, read_buffer_, tx_complete_, sending,
                     data, len, pc, waiting>>
  BY DEF Transmit
<1>2. pos' \in 0..len
  BY <1>1 DEF TypeOK
<1>3. taken' \in Seq(Messages)
  <2>1. buffers_[data] \in Seq(Messages) /\ pos + 1 \in 1..Len(buffers_[data])
    BY <1>1 DEF TypeOK, UartInv
  <2>2. buffers_[data][pos + 1] \in Messages
    BY <2>1, ElementOfSeq
  <2>. QED  BY <1>1, <2>2
<1>4. TypeOK'
  BY <1>1, <1>2, <1>3 DEF TypeOK
<1>. QED
  BY <1>1, <1>4 DEF UartInv, PointerInv, FlagInv, AskInv, Starting

\* The handler clears the buffer that was sent and follows the write buffer.
LEMMA TxCompleteInv ==
  ASSUME IInv, TxComplete
  PROVE  /\ IInv'
         /\ write_buffer_ # data
         /\ buffers_'[write_buffer_] = buffers_[write_buffer_]
<1> USE DEF IInv
<1>1. /\ sending /\ pos = len /\ ~Starting
      /\ sending' = FALSE /\ tx_complete_' = TRUE
      /\ UNCHANGED <<write_buffer_, data, len, pos, taken, pc, waiting>>
  BY DEF TxComplete, Starting
<1>2. /\ write_buffer_ = NextBuffer(read_buffer_)
      /\ write_buffer_ # read_buffer_
      /\ data = read_buffer_
  BY <1>1, NextIsAnother DEF PointerInv, UartInv, TypeOK
<1>3. /\ buffers_' = [buffers_ EXCEPT ![read_buffer_] = << >>]
      /\ read_buffer_' = write_buffer_
  BY <1>2 DEF TxComplete
<1>4. /\ buffers_' \in [Buffers -> Seq(Messages)]
      /\ \A b \in Buffers : Len(buffers_'[b]) <= MaxSize
      /\ buffers_'[write_buffer_] = buffers_[write_buffer_]
  BY <1>2, <1>3, EmptySeq, LogAssumption DEF TypeOK
<1>5. TypeOK'
  BY <1>1, <1>3, <1>4 DEF TypeOK
<1>6. UartInv' /\ PointerInv' /\ AskInv'
  BY <1>1, <1>3, <1>4 DEF UartInv, PointerInv, AskInv, Starting
<1>7. FlagInv'
  BY <1>1 DEF FlagInv, Starting
<1>. QED  BY <1>2, <1>4, <1>5, <1>6, <1>7

LEMMA NextInv == ASSUME IInv, [Next]_vars PROVE IInv'
<1>1. CASE UNCHANGED vars
  BY <1>1 DEF vars, uartVars, IInv, TypeOK, UartInv, PointerInv, FlagInv, AskInv,
              Starting
<1>. QED
  BY <1>1, OutInv, LookInv, StartWriteInv, MarkBusyInv, MoveWriteInv,
     TransmitInv, TxCompleteInv DEF Next, Step

\* The strengthened invariant of the log.
THEOREM Invariant == Spec => []IInv
<1>1. Init => IInv
  BY InitInv
<1>2. IInv /\ [Next]_vars => IInv'
  BY NextInv
<1>. QED  BY <1>1, <1>2, PTL DEF Spec

\* Type correctness: the buffers never hold more than they can (log.cpp:15,
\* shift-static-vectors.hpp:44-50).
THEOREM TypeCorrect == Spec => []TypeOK
<1>1. IInv => TypeOK
  BY DEF IInv
<1>. QED  BY <1>1, Invariant, PTL

\* The buffer under transmission is left alone by whatever the main loop does
\* meanwhile (log.cpp:61).
THEOREM SentUntouched == Spec => SendingKept
<1>1. ASSUME IInv, Next, sending, sending'
      PROVE  buffers_'[data] = buffers_[data]
  <2> USE DEF IInv
  <2>1. CASE \E m \in Messages : Out(m)
    <3>1. write_buffer_ # data /\ write_buffer_ \in Buffers
      BY <1>1, <2>1, NextIsAnother DEF Out, TypeOK, UartInv, PointerInv, Starting
    <3>2. PICK m \in Messages : Out(m)
      BY <2>1
    <3>3. /\ buffers_ \in [Buffers -> Seq(Messages)] /\ data \in Buffers
      BY <1>1 DEF TypeOK
    <3>. QED  BY <3>1, <3>2, <3>3 DEF Out
  <2>2. CASE MoveWriteToNext
    BY <1>1, <2>2, MoveWriteInv
  <2>3. CASE \/ CallFlush \/ StartWait \/ Flush \/ StartWrite \/ MarkBusy
             \/ AskSize \/ AskCanRead \/ AskComplete \/ Transmit
    BY <2>3 DEF CallFlush, StartWait, Flush, StartWrite, MarkBusy, AskSize,
                AskCanRead, AskComplete, Transmit
  <2>4. CASE TxComplete
    BY <1>1, <2>4 DEF TxComplete
  <2>. QED  BY <1>1, <2>1, <2>2, <2>3, <2>4 DEF Next, Step
<1>2. IInv /\ [Next]_vars => [sending /\ sending' => buffers_'[data] = buffers_[data]]_vars
  BY <1>1
<1>. QED  BY <1>2, Invariant, PTL DEF Spec, SendingKept

\* The wait for the end of the output ends only when all of it is out
\* (log.cpp:68-74).
THEOREM WaitIsExact == Spec => WaitEndsDrained
<1>1. ASSUME IInv, Next, waiting, ~waiting'
      PROVE  Pending = << >>
  <2> USE DEF IInv
  <2>1. \/ AskCanRead /\ read_buffer_ = write_buffer_
        \/ AskComplete /\ tx_complete_
    BY <1>1 DEF Next, Step, Out, CallFlush, StartWait, Flush, StartWrite,
                MarkBusy, MoveWriteToNext, AskSize, AskCanRead, AskComplete,
                Transmit, TxComplete, Return, Transmited
  <2>2. buffers_[write_buffer_] = << >> /\ ~Starting
    BY <1>1, <2>1 DEF AskCanRead, AskComplete, AskInv, Starting
  <2>3. ~sending
    BY <1>1, <2>1, <2>2, NextIsAnother DEF PointerInv, FlagInv, TypeOK
  <2>. QED
    BY <2>2, <2>3, ConcatEmptySeq, EmptySeq DEF Pending, Rest, Unsent
<1>2. IInv /\ [Next]_vars => [waiting /\ ~waiting' => Pending = << >>]_vars
  BY <1>1
<1>. QED  BY <1>2, Invariant, PTL DEF Spec, WaitEndsDrained

-----------------------------------------------------------------------------
(***************************************************************************)
(* The log implements the bounded queue.                                   *)
(***************************************************************************)
LEMMA PendingParts ==
  ASSUME IInv
  PROVE  /\ Rest \in Seq(Messages) /\ Unsent \in Seq(Messages)
         /\ Len(Rest) <= MaxSize /\ Len(Unsent) <= MaxSize
         /\ Pending \in Seq(Messages)
         /\ Len(Pending) = Len(Rest) + Len(Unsent)
<1> USE DEF IInv
<1>1. << >> \in Seq(Messages) /\ Len(<< >>) = 0
  BY EmptySeq
<1>2. Rest \in Seq(Messages) /\ Len(Rest) <= MaxSize
  <2>1. CASE sending
    <3>1. /\ buffers_[data] \in Seq(Messages) /\ len = Len(buffers_[data])
          /\ len \in 0..MaxSize /\ pos \in 0..len
      BY <2>1 DEF TypeOK, UartInv
    <3>2. \A i \in (pos + 1)..len : buffers_[data][i] \in Messages
      BY <3>1, ElementOfSeq
    <3>3. /\ SubSeq(buffers_[data], pos + 1, len) \in Seq(Messages)
          /\ Len(SubSeq(buffers_[data], pos + 1, len)) =
               IF pos + 1 <= len THEN len - (pos + 1) + 1 ELSE 0
      <4>1. pos + 1 \in Int /\ len \in Int
        BY <3>1, LogAssumption
      <4>. QED  BY <3>2, <4>1, SubSeqProperties
    <3>. QED  BY <2>1, <3>1, <3>3, LogAssumption DEF Rest
  <2>2. CASE ~sending
    BY <1>1, <2>2, LogAssumption DEF Rest
  <2>. QED  BY <2>1, <2>2
<1>3. Unsent \in Seq(Messages) /\ Len(Unsent) <= MaxSize
  BY <1>1, LogAssumption DEF Unsent, TypeOK
<1>. QED  BY <1>2, <1>3, ConcatProperties DEF Pending

\* A queue with an element in front: what Take(1) returns and leaves.
LEMMA FirstAndRest ==
  ASSUME NEW x \in Messages, NEW s \in Seq(Messages)
  PROVE  LET q == <<x>> \o s
         IN  SubSeq(q, 1, 1) = <<x>> /\ SubSeq(q, 2, Len(q)) = s
<1> DEFINE q == <<x>> \o s
<1>1. <<x>> \in Seq(Messages) /\ Len(<<x>>) = 1 /\ <<x>>[1] = x
  OBVIOUS
<1>2. /\ q \in Seq(Messages) /\ Len(q) = 1 + Len(s) /\ Len(s) \in Nat
      /\ q[1] = x
      /\ \A i \in 1..Len(s) : q[i + 1] = s[i]
  BY <1>1, ConcatProperties, LenProperties
<1> HIDE DEF q
<1>3. SubSeq(q, 1, 1) = <<x>>
  <2>1. \A i \in 1..1 : q[i] \in Messages
    BY <1>2
  <2>2. /\ SubSeq(q, 1, 1) \in Seq(Messages) /\ Len(SubSeq(q, 1, 1)) = 1
        /\ SubSeq(q, 1, 1)[1] = x
    BY <1>2, <2>1, SubSeqProperties
  <2>3. \A i \in 1..Len(SubSeq(q, 1, 1)) : SubSeq(q, 1, 1)[i] = <<x>>[i]
    BY <1>1, <2>2
  <2> DEFINE front == SubSeq(q, 1, 1)
             one == <<x>>
  <2>4. /\ front \in Seq(Messages) /\ one \in Seq(Messages)
        /\ Len(front) = Len(one)
        /\ \A i \in 1..Len(front) : front[i] = one[i]
    BY <1>1, <2>2, <2>3
  <2> HIDE DEF front, one
  <2>5. front = one
    BY <2>4, SeqEqual
  <2>. QED  BY <2>5 DEF front, one
<1>4. SubSeq(q, 2, Len(q)) = s
  <2>1. \A i \in 2..Len(q) : q[i] \in Messages
    BY <1>2, ElementOfSeq
  <2>2. /\ SubSeq(q, 2, Len(q)) \in Seq(Messages)
        /\ Len(SubSeq(q, 2, Len(q))) = Len(s)
        /\ \A i \in 1..Len(s) : SubSeq(q, 2, Len(q))[i] = q[i + 1]
    BY <1>2, <2>1, SubSeqProperties
  <2>. QED  BY <1>2, <2>2, SeqEqual
<1>. QED  BY <1>3, <1>4 DEF q

\* Out() puts its message at the end of the queue, or drops it.
LEMMA OutRefines ==
  ASSUME IInv, NEW m \in Messages, Out(m)
  PROVE  Fifo!Put(m) \/ UNCHANGED <<Pending, taken>>
<1> USE DEF IInv
<1>1. /\ pc = "idle"
      /\ UNCHANGED <<write_buffer_, sending, data, len, pos, taken>>
  BY DEF Out, uartVars
<1>2. CASE WriteSize < MaxSize
  <2>1. buffers_' = [buffers_ EXCEPT ![write_buffer_] = Append(@, m)]
    BY <1>2 DEF Out
  <2>2. sending => data # write_buffer_
    BY <1>1, NextIsAnother DEF TypeOK, UartInv, PointerInv, Starting
  <2>3. Unsent = buffers_[write_buffer_]
    BY <2>2 DEF Unsent
  <2>4. Unsent' = Append(Unsent, m)
    BY <1>1, <2>1, <2>2, <2>3 DEF Unsent, TypeOK
  <2>5. Rest' = Rest
    BY <1>1, <2>1, <2>2 DEF Rest, TypeOK
  <2>6. Pending' = Append(Pending, m)
    <3>1. Append(Unsent, m) = Unsent \o <<m>> /\ Append(Pending, m) = Pending \o <<m>>
      BY PendingParts, AppendIsConcat
    <3>2. <<m>> \in Seq(Messages)
      OBVIOUS
    <3>. QED  BY <2>4, <2>5, <3>1, <3>2, PendingParts, ConcatAssociative DEF Pending
  <2>7. Len(Pending) < 2 * MaxSize
    BY <1>2, <2>3, PendingParts, LenProperties, LogAssumption DEF WriteSize
  <2>. QED  BY <1>1, <2>6, <2>7 DEF Fifo!Put
<1>3. CASE ~(WriteSize < MaxSize)
  <2>1. buffers_' = buffers_
    BY <1>3 DEF Out
  <2>. QED  BY <1>1, <2>1 DEF Pending, Rest, Unsent
<1>. QED  BY <1>2, <1>3

\* Handing the buffer to the UART changes nothing about what is pending.
LEMMA StartWriteRefines ==
  ASSUME IInv, StartWrite
  PROVE  UNCHANGED <<Pending, taken>>
<1> USE DEF IInv
<1>1. /\ pc = "start" /\ ~sending /\ write_buffer_ = read_buffer_
      /\ UNCHANGED <<buffers_, write_buffer_, taken>>
  BY DEF StartWrite, FlagInv, PointerInv
<1>2. CASE sending'
  <2>1. /\ data' = read_buffer_ /\ len' = Len(buffers_[read_buffer_]) /\ pos' = 0
    BY <1>1, <1>2 DEF StartWrite
  <2>2. buffers_[read_buffer_] \in Seq(Messages)
    BY DEF TypeOK
  <2>3. Rest' = buffers_[read_buffer_] /\ Unsent' = << >>
    <3>1. Rest' = SubSeq(buffers_[read_buffer_], 1, Len(buffers_[read_buffer_]))
      BY <1>1, <1>2, <2>1 DEF Rest
    <3>. QED  BY <1>1, <1>2, <2>1, <2>2, <3>1, SubSeqFull DEF Unsent
  <2>4. Rest = << >> /\ Unsent = buffers_[read_buffer_]
    BY <1>1 DEF Rest, Unsent
  <2>. QED  BY <1>1, <2>2, <2>3, <2>4, ConcatEmptySeq DEF Pending
<1>3. CASE ~sending'
  BY <1>1, <1>3 DEF Pending, Rest, Unsent
<1>. QED  BY <1>2, <1>3

\* A message leaves the UART: it is the first of the queue.
LEMMA TransmitRefines ==
  ASSUME IInv, Transmit
  PROVE  Fifo!Take(1) /\ 1 \in 1..Len(Pending)
<1> USE DEF IInv
<1> DEFINE first == buffers_[data][pos + 1]
<1>1. /\ sending /\ pos < len /\ pos' = pos + 1 /\ taken' = <<first>>
      /\ UNCHANGED <<buffers_, write_buffer_, sending, data, len>>
  BY DEF Transmit
<1>2. /\ buffers_[data] \in Seq(Messages)
      /\ pos + 1 \in 1..Len(buffers_[data])
      /\ len \in (pos + 1)..Len(buffers_[data])
  BY <1>1 DEF TypeOK, UartInv
<1>3. first \in Messages
  BY <1>2, ElementOfSeq
<1>4. Rest = <<first>> \o Rest'
  <2>1. SubSeq(buffers_[data], pos + 1, len) =
          <<first>> \o SubSeq(buffers_[data], (pos + 1) + 1, len)
    BY <1>2, SubSeqRecursiveFirst
  <2>. QED  BY <1>1, <2>1 DEF Rest
<1> HIDE DEF first
<1>6. /\ Rest' \in Seq(Messages) /\ Unsent' \in Seq(Messages)
      /\ Pending' \in Seq(Messages)
  <2>1. Rest' = SubSeq(buffers_[data], pos' + 1, len)
    BY <1>1 DEF Rest
  <2>2. /\ pos' + 1 \in Int /\ len \in Int
        /\ \A i \in (pos' + 1)..len : i \in 1..Len(buffers_[data])
    BY <1>1, <1>2, LenProperties DEF TypeOK
  <2>3. \A i \in (pos' + 1)..len : buffers_[data][i] \in Messages
    BY <1>2, <2>2, ElementOfSeq
  <2>4. Rest' \in Seq(Messages)
    BY <2>1, <2>2, <2>3, SubSeqProperties
  <2>5. Unsent' \in Seq(Messages)
    BY <1>1, PendingParts DEF Unsent
  <2>. QED  BY <2>4, <2>5, ConcatProperties DEF Pending
<1>7. Unsent' = Unsent
  BY <1>1 DEF Unsent
<1>8. <<first>> \in Seq(Messages) /\ Len(<<first>>) = 1
  BY <1>3
<1>9. Pending = <<first>> \o Pending'
  BY <1>4, <1>6, <1>7, <1>8, ConcatAssociative DEF Pending
<1>10. /\ Len(Pending) = 1 + Len(Pending') /\ Len(Pending') \in Nat
       /\ Pending \in Seq(Messages)
  BY <1>6, <1>8, <1>9, ConcatProperties, LenProperties
<1>11. /\ SubSeq(Pending, 1, 1) = <<first>>
       /\ SubSeq(Pending, 2, Len(Pending)) = Pending'
  BY <1>3, <1>6, <1>9, FirstAndRest
<1>12. taken' = SubSeq(Pending, 1, 1)
  BY <1>1, <1>11
<1>13. Pending' = SubSeq(Pending, 1 + 1, Len(Pending))
  <2>1. 1 + 1 = 2
    OBVIOUS
  <2>. QED  BY <1>11, <2>1
<1>14. 1 \in 1..Len(Pending)
  BY <1>10
<1>. QED  BY <1>12, <1>13, <1>14 DEF Fifo!Take

\* The write buffer moves on: what is left of the old one is being sent.
LEMMA MoveWriteRefines ==
  ASSUME IInv, MoveWriteToNext
  PROVE  UNCHANGED <<Pending, taken>>
<1>1. /\ sending /\ data = write_buffer_
      /\ UNCHANGED <<sending, data, len, pos, taken>>
  BY DEF MoveWriteToNext, IInv, UartInv, PointerInv, FlagInv, Starting, uartVars
<1>2. /\ write_buffer_' # data /\ buffers_'[data] = buffers_[data]
      /\ buffers_'[write_buffer_'] = << >>
  BY MoveWriteInv
<1>3. Rest' = Rest
  BY <1>1, <1>2 DEF Rest
<1>4. Unsent = << >> /\ Unsent' = << >>
  BY <1>1, <1>2 DEF Unsent
<1>. QED  BY <1>1, <1>3, <1>4 DEF Pending

\* The handler gives back a buffer that is out; the writer's is not touched.
LEMMA TxCompleteRefines ==
  ASSUME IInv, TxComplete
  PROVE  UNCHANGED <<Pending, taken>>
<1>1. /\ sending /\ ~sending' /\ pos = len
      /\ UNCHANGED <<write_buffer_, taken>>
  BY DEF TxComplete
<1>2. /\ write_buffer_ # data
      /\ buffers_'[write_buffer_] = buffers_[write_buffer_]
  BY TxCompleteInv
<1>3. Rest = << >> /\ Rest' = << >>
  <2>1. Len(Rest) = 0
    <3>1. /\ \A i \in (pos + 1)..len : buffers_[data][i] \in Messages
          /\ pos + 1 \in Int /\ len \in Int /\ ~(pos + 1 <= len)
      BY <1>1, LogAssumption DEF IInv, TypeOK
    <3>2. Len(SubSeq(buffers_[data], pos + 1, len)) = 0
      BY <3>1, SubSeqProperties
    <3>. QED  BY <1>1, <3>2 DEF Rest
  <2>2. Rest \in Seq(Messages)
    BY PendingParts
  <2>. QED  BY <1>1, <2>1, <2>2, EmptySeq DEF Rest
<1>4. Unsent' = Unsent
  BY <1>1, <1>2 DEF Unsent
<1>. QED  BY <1>1, <1>3, <1>4 DEF Pending

LEMMA InitRefines == Init => Fifo!FifoInit
<1> SUFFICES ASSUME Init PROVE Fifo!FifoInit
  OBVIOUS
<1>1. 0 \in Buffers
  BY LogAssumption DEF Buffers
<1>2. Rest = << >> /\ Unsent = << >>
  BY <1>1 DEF Init, Rest, Unsent
<1>3. Pending = << >>
  <2>1. << >> \in Seq(Messages)
    BY EmptySeq
  <2>. QED  BY <1>2, <2>1, ConcatEmptySeq DEF Pending
<1>. QED  BY <1>3 DEF Init, Fifo!FifoInit

\* Every step of the log is a step of the queue or leaves it alone.
LEMMA NextRefines ==
  ASSUME IInv, [Next]_vars
  PROVE  [Fifo!FifoNext]_(Fifo!fifoVars)
<1> SUFFICES Fifo!FifoNext \/ UNCHANGED <<Pending, taken>>
  BY DEF Fifo!fifoVars
<1>1. CASE \E m \in Messages : Out(m)
  BY <1>1, OutRefines DEF Fifo!FifoNext
<1>2. CASE \/ CallFlush \/ StartWait \/ Flush \/ MarkBusy \/ AskSize \/ AskCanRead
           \/ AskComplete \/ UNCHANGED vars
  <2>1. UNCHANGED <<buffers_, write_buffer_, sending, data, len, pos, taken>>
    BY <1>2 DEF CallFlush, StartWait, Flush, MarkBusy, AskSize, AskCanRead,
                AskComplete, vars, uartVars
  <2>. QED  BY <2>1 DEF Pending, Rest, Unsent
<1>3. CASE StartWrite
  BY <1>3, StartWriteRefines
<1>4. CASE MoveWriteToNext
  BY <1>4, MoveWriteRefines
<1>5. CASE Transmit
  BY <1>5, TransmitRefines DEF Fifo!FifoNext
<1>6. CASE TxComplete
  BY <1>6, TxCompleteRefines
<1>. QED  BY <1>1, <1>2, <1>3, <1>4, <1>5, <1>6 DEF Next, Step

\* What Out() accepted is put out once, in order: the log is a bounded queue
\* of the size of two buffers, however many buffers there are.
THEOREM LogIsFifo == Spec => ImplementsFifo
<1>1. Init => Fifo!FifoInit
  BY InitRefines
<1>2. IInv /\ [Next]_vars => [Fifo!FifoNext]_(Fifo!fifoVars)
  BY NextRefines
<1>. QED
  BY <1>1, <1>2, Invariant, PTL DEF Spec, ImplementsFifo, Fifo!FifoSpec
=============================================================================
