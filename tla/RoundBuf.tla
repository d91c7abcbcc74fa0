------------------------------ MODULE RoundBuf ------------------------------
(***************************************************************************)
(* utils::RoundBuf<T, MaxSize> (src/utils/round_buf.hpp) as the firmware   *)
(* uses it: the receive buffer of the RS485 port.  The UART interrupt      *)
(* pushes one element at a time; the main loop asks for the size and, when *)
(* enough is stored, reads.  There is one core, so the interrupt handler   *)
(* is atomic, but it may run between any two accesses the main loop makes  *)
(* to the volatile indices.  Each step of the main loop below therefore    *)
(* touches the volatile write_ind_ at most once.                           *)
(*                                                                         *)
(* The code never masks the interrupt around these accesses.  Size() reads *)
(* write_ind_ twice, to compare and to subtract; when the write index      *)
(* wraps in between, the difference is taken modulo 2^32 and is huge.      *)
(***************************************************************************)
EXTENDS Integers, Sequences

CONSTANTS MaxSize,   \* number of slots; one of them is always free
          SizeMod,   \* size_t counts modulo this (2^32 on the target)
          Values,    \* the values an element can take
          Needs      \* the lengths the reader asks for

ASSUME RoundBufAssumption == /\ MaxSize \in Nat /\ MaxSize >= 2
                             /\ SizeMod \in Nat /\ SizeMod >= 2 * MaxSize
                             /\ Needs \subseteq 1..(MaxSize - 1)
                             /\ Values # {}

VARIABLES buf_, write_ind_, read_ind_,
          pc,        \* the reader's next step
          need,      \* the length the reader asked for
          le,        \* the outcome of Size()'s comparison read_ind_ <= write_ind_
          len,       \* the length Read() settled on
          linear,    \* Read() took its first branch, read_ind_ < write_ind_
          out,       \* the elements memcpy has moved so far
          result     \* what the last completed Read() returned

readerVars == <<pc, need, le, len, linear, out, result>>
vars == <<buf_, write_ind_, read_ind_, pc, need, le, len, linear, out, result>>

Slots == 0..(MaxSize - 1)
Steps == {"idle", "size", "check", "compare", "clamp", "branch", "copy"}

TypeOK == /\ buf_ \in [Slots -> Values]
          /\ write_ind_ \in Slots
          /\ read_ind_ \in Slots
          /\ pc \in Steps
          /\ need \in 1..(MaxSize - 1)
          /\ le \in BOOLEAN
          /\ len \in 0..(MaxSize - 1)
          /\ linear \in BOOLEAN
          /\ out \in Seq(Values)
          /\ result \in Seq(Values)

-----------------------------------------------------------------------------
\* Mutant of NextInd: the index runs off the end of the array.
NextIndNoWrap(i) == i + 1
NextInd(i) == IF i = MaxSize - 1 THEN 0 ELSE i + 1

\* Mutant of SizeAfter: counts one element too few.
SizeAfterOffByOne(cmp) == IF cmp THEN (write_ind_ - read_ind_ - 1) % SizeMod
                                 ELSE write_ind_ + (MaxSize - read_ind_) - 1

\* Size() after its comparison: the second look at write_ind_.
SizeAfter(cmp) == IF cmp THEN (write_ind_ - read_ind_) % SizeMod
                         ELSE write_ind_ + (MaxSize - read_ind_)

\* The number of elements really stored.
Stored == IF read_ind_ <= write_ind_ THEN write_ind_ - read_ind_
                                     ELSE write_ind_ + (MaxSize - read_ind_)

\* The slot memcpy takes the i-th element from (i counts from 0).  The first
\* branch of Read() copies straight on; the second one wraps.
SlotAt(i) == IF ~linear /\ read_ind_ + i >= MaxSize THEN read_ind_ + i - MaxSize
                                                    ELSE read_ind_ + i

Init == /\ buf_ = [i \in Slots |-> CHOOSE v \in Values : TRUE]
        /\ write_ind_ = 0 /\ read_ind_ = 0
        /\ pc = "idle" /\ need = 1 /\ le = TRUE /\ len = 0 /\ linear = TRUE
        /\ out = << >> /\ result = << >>

\* Mutant of PushBack: no check for a full buffer.
PushBackUnchecked(v) ==
  /\ buf_' = [buf_ EXCEPT ![write_ind_] = v]
  /\ write_ind_' = NextInd(write_ind_)
  /\ UNCHANGED <<read_ind_, readerVars>>

\* PushBack(), from the UART interrupt.
PushBack(v) ==
  /\ NextInd(write_ind_) # read_ind_
  /\ buf_' = [buf_ EXCEPT ![write_ind_] = v]
  /\ write_ind_' = NextInd(write_ind_)
  /\ UNCHANGED <<read_ind_, readerVars>>

\* Reset(), from the main loop while reception is off.
Reset ==
  /\ pc = "idle"
  /\ write_ind_' = 0 /\ read_ind_' = 0
  /\ UNCHANGED <<buf_, readerVars>>

\* The reader calls Size(); the comparison.
SizeCompare(n) ==
  /\ pc = "idle"
  /\ need' = n
  /\ le' = (read_ind_ <= write_ind_)
  /\ pc' = "size"
  /\ UNCHANGED <<buf_, write_ind_, read_ind_, len, linear, out, result>>

\* Size() returns; the reader goes on to Read() when enough is reported.
SizeReturn ==
  /\ pc = "size"
  /\ pc' = IF SizeAfter(le) < need THEN "idle" ELSE "check"
  /\ UNCHANGED <<buf_, write_ind_, read_ind_, need, le, len, linear, out, result>>

\* Read(buf, len): nothing to read when the indices are equal.
ReadCheck ==
  /\ pc = "check"
  /\ pc' = IF write_ind_ = read_ind_ THEN "idle" ELSE "compare"
  /\ UNCHANGED <<buf_, write_ind_, read_ind_, need, le, len, linear, out, result>>

\* Read() calls Size(); the comparison.
ReadCompare ==
  /\ pc = "compare"
  /\ le' = (read_ind_ <= write_ind_)
  /\ pc' = "clamp"
  /\ UNCHANGED <<buf_, write_ind_, read_ind_, need, len, linear, out, result>>

\* Mutant of ReadClamp: trusts the caller's length.
ReadClampNot ==
  /\ pc = "clamp"
  /\ len' = need
  /\ pc' = "branch"
  /\ UNCHANGED <<buf_, write_ind_, read_ind_, need, le, linear, out, result>>

\* Size() returns into Read(), which reads no more than that.
ReadClamp ==
  /\ pc = "clamp"
  /\ len' = IF need > SizeAfter(le) THEN SizeAfter(le) ELSE need
  /\ pc' = "branch"
  /\ UNCHANGED <<buf_, write_ind_, read_ind_, need, le, linear, out, result>>

ReadBranch ==
  /\ pc = "branch"
  /\ linear' = (read_ind_ < write_ind_)
  /\ out' = << >>
  /\ pc' = "copy"
  /\ UNCHANGED <<buf_, write_ind_, read_ind_, need, le, len, result>>

\* One element of memcpy.
ReadCopy ==
  /\ pc = "copy" /\ Len(out) < len
  /\ out' = Append(out, buf_[SlotAt(Len(out))])
  /\ UNCHANGED <<buf_, write_ind_, read_ind_, pc, need, le, len, linear, result>>

\* The copy is complete: read_ind_ moves past it and Read() returns.  In the
\* linear branch that is read_ind_ += len, and 0 when this reaches MaxSize.
\* A byte takes 520 us on the wire, so at most one push falls between the two
\* stores; read_ind_ = MaxSize then makes no slot look free that was not, and
\* the push commutes with the second store: one step stands for both.
ReadReturn ==
  /\ pc = "copy" /\ Len(out) = len
  /\ read_ind_' = SlotAt(len)
  /\ result' = out
  /\ pc' = "idle"
  /\ UNCHANGED <<buf_, write_ind_, need, le, len, linear, out>>

Reader == \/ \E n \in Needs : SizeCompare(n)
          \/ SizeReturn
          \/ ReadCheck
          \/ ReadCompare
          \/ ReadClamp
          \/ ReadBranch
          \/ ReadCopy
          \/ ReadReturn

Next == \/ \E v \in Values : PushBack(v)
        \/ Reset
        \/ Reader

Spec == Init /\ [][Next]_vars

-----------------------------------------------------------------------------
(***************************************************************************)
(* The safety of the reader, which rests on how its caller behaves: it     *)
(* asks for a length only after Size() reported that many.                 *)
(***************************************************************************)

\* While memcpy runs (round_buf.hpp:83-99), whatever the interrupt pushes
\* meanwhile and however the two looks of Size() at write_ind_ disagreed,
\* Read() moves only elements that are stored, from slots of the array.
NoOverRead == pc = "copy" => /\ len <= Stored
                             /\ SlotAt(len) \in Slots

\* A Read() that follows a size check returns at least one element, so the
\* caller, which ignores the count (cmd-processor.cpp:46), gets its byte; it
\* comes up short of what was asked for only when the check was fooled by
\* the wrap of write_ind_, and write_ind_ is then still behind read_ind_.
ShortReadOnlyAtWrap == pc = "copy" => /\ len >= 1
                                      /\ len < need => write_ind_ < read_ind_

-----------------------------------------------------------------------------
(***************************************************************************)
(* The ring implements the bounded queue: the queue is what lies between   *)
(* the two indices.                                                        *)
(***************************************************************************)
Wrap(i) == IF i >= MaxSize THEN i - MaxSize ELSE i

Contents == [i \in 1..Stored |-> buf_[Wrap(read_ind_ + (i - 1))]]

Fifo == INSTANCE BoundedFifo WITH Capacity <- MaxSize - 1,
                                  queue <- Contents, taken <- result

\* Every behaviour of the ring buffer under interrupts is one of a bounded
\* queue: no element is lost, duplicated, reordered or overwritten between
\* a successful PushBack() and the Read() that returns it.
ImplementsFifo == Fifo!FifoSpec
=============================================================================
