---------------------------- MODULE BoundedFifo ----------------------------
(***************************************************************************)
(* What a user of a buffer between the main loop and an interrupt may      *)
(* count on: a first-in first-out queue of bounded length.  An element     *)
(* that does not fit is dropped and nothing else happens to the queue; a   *)
(* reader removes elements from the front, any number at a time, and never *)
(* one that was not put in; the owner may empty the queue.                 *)
(*                                                                         *)
(* RoundBuf, the ring of src/utils/round_buf.hpp, implements this module   *)
(* (theorem RoundBufProofs!RingIsFifo), and so does Log, the debug output  *)
(* of src/utils/log.cpp (theorem LogProofs!LogIsFifo).                     *)
(***************************************************************************)
EXTENDS Naturals, Sequences

CONSTANTS Values,    \* the values an element can take
          Capacity   \* the largest number of elements stored

VARIABLES queue,     \* the stored elements, oldest first
          taken      \* the elements the last completed read returned

fifoVars == <<queue, taken>>

FifoTypeOK == /\ queue \in Seq(Values)
              /\ Len(queue) <= Capacity
              /\ taken \in Seq(Values)

FifoInit == queue = << >> /\ taken = << >>

\* An element comes and there is room for it.
Put(v) == /\ Len(queue) < Capacity
          /\ queue' = Append(queue, v)
          /\ UNCHANGED taken

\* A read of n elements: the n oldest ones, in the order they were put.
Take(n) == /\ taken' = SubSeq(queue, 1, n)
           /\ queue' = SubSeq(queue, n + 1, Len(queue))

Clear == queue' = << >> /\ UNCHANGED taken

FifoNext == \/ \E v \in Values : Put(v)
            \/ \E n \in 1..Len(queue) : Take(n)
            \/ Clear

FifoSpec == FifoInit /\ [][FifoNext]_fifoVars
=============================================================================
