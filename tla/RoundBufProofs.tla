--------------------------- MODULE RoundBufProofs ---------------------------
(***************************************************************************)
(* Proofs about RoundBuf, for every array size, every set of values and    *)
(* every set of lengths the reader may ask for.                            *)
(*                                                                         *)
(* The reader's safety is not inductive by itself: it depends on what was  *)
(* true at the earlier looks at write_ind_.  ReaderInv carries that        *)
(* knowledge from step to step.  Its heart is the observation that, once   *)
(* write_ind_ has wrapped below read_ind_, it stays below until the reader *)
(* moves (PushBack never closes the gap), so that a size check fooled by   *)
(* the wrap is followed by a Read() whose own size check cannot be.        *)
(***************************************************************************)
EXTENDS RoundBuf, SequenceTheorems, TLAPS

Reading == {"check", "compare", "clamp", "branch", "copy"}

\* From a successful size check to the end of the read the buffer is not empty.
NotEmpty == pc \in Reading => Stored >= 1

\* The size check promised enough, or write_ind_ wrapped during it.
Promised == pc \in {"check", "compare"} => need <= Stored \/ write_ind_ < read_ind_

\* What the comparison inside Size() still tells at its second look.
Compared == /\ pc \in {"size", "clamp"} /\ ~le => write_ind_ < read_ind_
            /\ pc = "clamp" /\ le => need <= Stored

\* The length Read() settled on is stored.
Settled == pc \in {"branch", "copy"} => /\ len \in 1..Stored
                                        /\ len < need => write_ind_ < read_ind_

\* The part being copied, and what has been copied of it.
Copied == pc = "copy" => /\ linear => read_ind_ + len < MaxSize
                         /\ ~linear => write_ind_ < read_ind_
                         /\ Len(out) <= len
                         /\ \A i \in 1..Len(out) :
                              out[i] = buf_[Wrap(read_ind_ + (i - 1))]

ReaderInv == NotEmpty /\ Promised /\ Compared /\ Settled /\ Copied

IInv == TypeOK /\ ReaderInv

\* The value of size_t subtraction: exact when it does not go below zero,
\* and at least the array size when it does.
LEMMA SizeTSubtract ==
  ASSUME NEW w \in Slots, NEW r \in Slots
  PROVE  /\ r <= w => (w - r) % SizeMod = w - r
         /\ w < r => /\ (w - r) % SizeMod \in Nat
                     /\ (w - r) % SizeMod > MaxSize
<1>1. CASE r <= w
  <2>1. w - r \in 0..(SizeMod - 1)
    BY <1>1, RoundBufAssumption DEF Slots
  <2>. QED  BY <1>1, <2>1, RoundBufAssumption, Z3 DEF Slots
<1>2. CASE w < r
  <2>1. w - r \in (-SizeMod)..(-1)
    BY <1>2, RoundBufAssumption DEF Slots
  <2>2. (w - r) % SizeMod = w - r + SizeMod
    BY <2>1, RoundBufAssumption, Z3 DEF Slots
  <2>. QED  BY <1>2, <2>2, RoundBufAssumption DEF Slots
<1>. QED  BY <1>1, <1>2, RoundBufAssumption DEF Slots

\* What Size() returns once its comparison has been made.
LEMMA SizeAfterValue ==
  ASSUME TypeOK, pc \in {"size", "clamp"}, Compared
  PROVE  /\ SizeAfter(le) \in Nat
         /\ ~le => SizeAfter(le) = Stored
         /\ le /\ read_ind_ <= write_ind_ => SizeAfter(le) = Stored
         /\ le /\ write_ind_ < read_ind_ => SizeAfter(le) > MaxSize
<1>1. write_ind_ \in Slots /\ read_ind_ \in Slots /\ le \in BOOLEAN
  BY DEF TypeOK
<1>2. /\ read_ind_ <= write_ind_ =>
            (write_ind_ - read_ind_) % SizeMod = write_ind_ - read_ind_
      /\ write_ind_ < read_ind_ => /\ (write_ind_ - read_ind_) % SizeMod \in Nat
                                   /\ (write_ind_ - read_ind_) % SizeMod > MaxSize
  BY <1>1, SizeTSubtract
<1>3. CASE le = TRUE
  <2>1. SizeAfter(le) = (write_ind_ - read_ind_) % SizeMod
    BY <1>3 DEF SizeAfter
  <2>. QED  BY <1>1, <1>2, <1>3, <2>1, RoundBufAssumption DEF Stored, Slots
<1>4. CASE le = FALSE
  <2>1. SizeAfter(le) = write_ind_ + (MaxSize - read_ind_)
    BY <1>4 DEF SizeAfter
  <2>2. write_ind_ < read_ind_
    BY <1>4 DEF Compared
  <2>. QED  BY <1>1, <1>4, <2>1, <2>2, RoundBufAssumption DEF Stored, Slots
<1>. QED  BY <1>1, <1>3, <1>4

LEMMA StoredRange == ASSUME TypeOK PROVE Stored \in 0..(MaxSize - 1)
  BY RoundBufAssumption DEF TypeOK, Stored, Slots

\* The interrupt adds one element behind the stored ones, leaves those alone
\* and never closes the gap a wrapped write index left.
LEMMA PushBackEffect ==
  ASSUME TypeOK, NEW v \in Values, PushBack(v)
  PROVE  /\ TypeOK'
         /\ Stored' = Stored + 1
         /\ Stored + 1 < MaxSize
         /\ write_ind_ < read_ind_ => write_ind_' < read_ind_
         /\ \A i \in 1..Stored :
              buf_'[Wrap(read_ind_ + (i - 1))] = buf_[Wrap(read_ind_ + (i - 1))]
         /\ buf_'[Wrap(read_ind_ + Stored)] = v
<1> USE RoundBufAssumption
<1>1. TypeOK'
  BY DEF TypeOK, PushBack, readerVars, NextInd, Slots
<1>2. /\ Stored' = Stored + 1
      /\ Stored + 1 < MaxSize
      /\ write_ind_ < read_ind_ => write_ind_' < read_ind_
  BY DEF TypeOK, PushBack, NextInd, Slots, Stored
<1>3. Wrap(read_ind_ + Stored) = write_ind_
  BY DEF TypeOK, Stored, Wrap, Slots
<1>4. buf_'[Wrap(read_ind_ + Stored)] = v
  BY <1>3 DEF TypeOK, PushBack
<1>5. ASSUME NEW i \in 1..Stored
      PROVE  /\ Wrap(read_ind_ + (i - 1)) \in Slots
             /\ Wrap(read_ind_ + (i - 1)) # write_ind_
  BY DEF TypeOK, Stored, Wrap, Slots
<1>6. \A i \in 1..Stored :
        buf_'[Wrap(read_ind_ + (i - 1))] = buf_[Wrap(read_ind_ + (i - 1))]
  BY <1>5 DEF TypeOK, PushBack
<1>. QED  BY <1>1, <1>2, <1>4, <1>6

\* The slot memcpy reads is the one where the next stored element lies.
LEMMA SlotAtIsWrap ==
  ASSUME TypeOK, Settled, Copied, pc = "copy", NEW i \in 0..len
  PROVE  /\ SlotAt(i) = Wrap(read_ind_ + i)
         /\ SlotAt(i) \in Slots
  BY StoredRange, RoundBufAssumption
  DEF TypeOK, Settled, Copied, SlotAt, Wrap, Slots, Stored

-----------------------------------------------------------------------------
LEMMA InitInv == Init => IInv
  <1> SUFFICES ASSUME Init PROVE IInv
    OBVIOUS
  <1>1. TypeOK
    <2>1. << >> \in Seq(Values)
      BY EmptySeq
    <2>. QED
      BY <2>1, RoundBufAssumption DEF Init, TypeOK, Slots, Steps
  <1>. QED
    BY <1>1 DEF Init, IInv, ReaderInv, NotEmpty, Promised, Compared, Settled,
                Copied, Reading

\* The interrupt preserves the invariant wherever the reader stands.
LEMMA PushBackInv == ASSUME IInv, NEW v \in Values, PushBack(v) PROVE IInv'
<1> USE DEF IInv, ReaderInv
<1>1. /\ TypeOK'
      /\ Stored' = Stored + 1
      /\ write_ind_ < read_ind_ => write_ind_' < read_ind_
  BY PushBackEffect
<1>2. Stored \in 0..(MaxSize - 1)
  BY StoredRange
<1>3. UNCHANGED <<read_ind_, pc, need, le, len, linear, out, result>>
  BY DEF PushBack, readerVars
<1>4. need \in Nat /\ len \in Nat
  BY RoundBufAssumption DEF TypeOK
<1>5. NotEmpty' /\ Promised'
  BY <1>1, <1>2, <1>3, <1>4 DEF NotEmpty, Promised
<1>6. Compared'
  BY <1>1, <1>2, <1>3, <1>4 DEF Compared
<1>7. Settled'
  BY <1>1, <1>2, <1>3, <1>4 DEF Settled
<1>8. Copied'
  <2> SUFFICES ASSUME pc = "copy"
               PROVE  /\ linear => read_ind_ + len < MaxSize
                      /\ ~linear => write_ind_' < read_ind_
                      /\ Len(out) <= len
                      /\ \A i \in 1..Len(out) :
                            out[i] = buf_'[Wrap(read_ind_ + (i - 1))]
    BY <1>3 DEF Copied, Wrap
  <2>1. Len(out) \in Nat /\ Len(out) <= len /\ len <= Stored
    BY <1>2, LenProperties DEF Copied, Settled, TypeOK
  <2>2. \A i \in 1..Len(out) : i \in 1..Stored
    BY <1>2, <1>4, <2>1
  <2>3. \A i \in 1..Len(out) :
           buf_'[Wrap(read_ind_ + (i - 1))] = buf_[Wrap(read_ind_ + (i - 1))]
    BY <2>2, PushBackEffect
  <2>. QED
    BY <1>1, <2>1, <2>3 DEF Copied
<1>. QED  BY <1>1, <1>5, <1>6, <1>7, <1>8

LEMMA ResetInv == ASSUME IInv, Reset PROVE IInv'
  BY RoundBufAssumption
  DEF IInv, ReaderInv, Reset, readerVars, TypeOK, Slots, NotEmpty, Promised,
      Compared, Settled, Copied, Reading

\* The steps of the reader before it copies.
LEMMA ReaderCheckInv ==
  ASSUME IInv,
         (\E n \in Needs : SizeCompare(n)) \/ SizeReturn \/ ReadCheck \/ ReadCompare
  PROVE  IInv'
<1> USE RoundBufAssumption DEF IInv, ReaderInv
<1>1. Stored \in 0..(MaxSize - 1)
  BY StoredRange
<1>2. need \in Nat
  BY DEF TypeOK
<1>3. ASSUME NEW n \in Needs, SizeCompare(n) PROVE IInv'
  <2>1. TypeOK'
    BY <1>3 DEF SizeCompare, TypeOK, Steps
  <2>2. Compared'
    BY <1>3 DEF SizeCompare, TypeOK, Compared, Slots
  <2>. QED
    BY <1>3, <2>1, <2>2 DEF SizeCompare, NotEmpty, Promised, Settled, Copied, Reading
<1>4. CASE SizeReturn
  <2>1. TypeOK'
    BY <1>4 DEF SizeReturn, TypeOK, Steps
  <2>2. Stored' = Stored
    BY <1>4 DEF SizeReturn, Stored
  <2>3. pc = "size" /\ pc' \in {"idle", "check"}
    BY <1>4 DEF SizeReturn
  <2>4. ASSUME pc' = "check"
        PROVE  Stored >= 1 /\ (need <= Stored \/ write_ind_ < read_ind_)
    <3>1. need <= SizeAfter(le)
      BY <1>2, <1>4, <2>3, <2>4, SizeAfterValue DEF SizeReturn
    <3>2. CASE write_ind_ < read_ind_
      BY <3>2 DEF Stored, TypeOK, Slots
    <3>3. CASE read_ind_ <= write_ind_
      <4>1. SizeAfter(le) = Stored
        BY <2>3, <3>3, SizeAfterValue DEF TypeOK, Slots
      <4>. QED  BY <1>1, <3>1, <4>1 DEF TypeOK
    <3>. QED  BY <3>2, <3>3 DEF TypeOK, Slots
  <2>5. UNCHANGED <<write_ind_, read_ind_, need, le, len, linear, out, buf_>>
    BY <1>4 DEF SizeReturn
  <2>6. NotEmpty' /\ Promised'
    BY <2>2, <2>3, <2>4, <2>5 DEF NotEmpty, Promised, Reading
  <2>. QED
    BY <2>1, <2>3, <2>6 DEF Compared, Settled, Copied
<1>5. CASE ReadCheck
  <2>1. TypeOK'
    BY <1>5 DEF ReadCheck, TypeOK, Steps
  <2>2. Stored' = Stored
    BY <1>5 DEF ReadCheck, Stored
  <2>. QED
    BY <1>5, <2>1, <2>2
    DEF ReadCheck, NotEmpty, Promised, Compared, Settled, Copied, Reading
<1>6. CASE ReadCompare
  <2>1. TypeOK'
    BY <1>6 DEF ReadCompare, TypeOK, Steps
  <2>2. Stored' = Stored
    BY <1>6 DEF ReadCompare, Stored
  <2>3. Compared'
    BY <1>6, <2>2 DEF ReadCompare, Promised, Compared, TypeOK, Slots
  <2>. QED
    BY <1>6, <2>1, <2>2, <2>3
    DEF ReadCompare, NotEmpty, Promised, Settled, Copied, Reading
<1>. QED  BY <1>3, <1>4, <1>5, <1>6

\* The steps of Read() from the clamped length to the return.
LEMMA ReadClampInv == ASSUME IInv, ReadClamp PROVE IInv'
<1> USE RoundBufAssumption DEF IInv, ReaderInv
<1>1. Stored \in 0..(MaxSize - 1) /\ Stored >= 1
  BY StoredRange DEF ReadClamp, NotEmpty, Reading
<1>2. /\ UNCHANGED <<write_ind_, read_ind_, need, le, linear, out, buf_, result>>
      /\ pc = "clamp" /\ pc' = "branch"
  BY DEF ReadClamp
<1>3. Stored' = Stored
  BY <1>2 DEF Stored
<1>4. len' \in 1..Stored /\ (len' < need => write_ind_ < read_ind_)
  <2>1. need \in 1..(MaxSize - 1) /\ write_ind_ \in Slots /\ read_ind_ \in Slots
    BY DEF TypeOK
  <2>2. len' = IF need > SizeAfter(le) THEN SizeAfter(le) ELSE need
    BY DEF ReadClamp
  <2>3. CASE le = TRUE
    <3>1. need <= Stored
      BY <1>2, <2>3 DEF Compared
    <3>2. need <= SizeAfter(le)
      <4>1. pc \in {"size", "clamp"} /\ le
        BY <1>2, <2>3
      <4>2. read_ind_ <= write_ind_ \/ write_ind_ < read_ind_
        BY <2>1 DEF Slots
      <4>3. SizeAfter(le) = Stored \/ SizeAfter(le) > MaxSize
        BY <4>1, <4>2, SizeAfterValue
      <4>. QED  BY <1>2, <2>1, <3>1, <4>3, SizeAfterValue
    <3>3. len' = need
      BY <1>2, <2>1, <2>2, <3>2, SizeAfterValue
    <3>. QED  BY <1>1, <2>1, <3>1, <3>3
  <2>4. CASE le = FALSE
    <3>1. SizeAfter(le) = Stored /\ write_ind_ < read_ind_
      BY <1>2, <2>4, SizeAfterValue DEF Compared
    <3>. QED  BY <1>1, <2>1, <2>2, <3>1
  <2>. QED  BY <2>3, <2>4 DEF TypeOK
<1>5. TypeOK'
  BY <1>1, <1>2, <1>4 DEF TypeOK, Steps
<1>6. NotEmpty' /\ Promised' /\ Compared' /\ Settled' /\ Copied'
  BY <1>1, <1>2, <1>3, <1>4
  DEF NotEmpty, Promised, Compared, Settled, Copied, Reading
<1>. QED  BY <1>5, <1>6

LEMMA ReadBranchInv == ASSUME IInv, ReadBranch PROVE IInv'
<1> USE RoundBufAssumption DEF IInv, ReaderInv
<1>1. Stored \in 0..(MaxSize - 1) /\ Stored >= 1
  BY StoredRange DEF ReadBranch, NotEmpty, Reading
<1>2. /\ UNCHANGED <<write_ind_, read_ind_, need, le, len, buf_, result>>
      /\ pc = "branch" /\ pc' = "copy"
      /\ linear' = (read_ind_ < write_ind_)
      /\ out' = << >>
  BY DEF ReadBranch
<1>3. Stored' = Stored
  BY <1>2 DEF Stored
<1>4. out' \in Seq(Values) /\ Len(out') = 0
  BY <1>2, EmptySeq
<1>5. TypeOK'
  BY <1>2, <1>4 DEF TypeOK, Steps
<1>6. Copied'
  <2>1. CASE read_ind_ < write_ind_
    <3>1. linear' = TRUE
      BY <1>2, <2>1
    <3>2. read_ind_ + len < MaxSize
      BY <1>2, <2>1 DEF Settled, Stored, TypeOK, Slots
    <3>. QED  BY <1>2, <1>4, <3>1, <3>2 DEF Copied, TypeOK
  <2>2. CASE ~(read_ind_ < write_ind_)
    <3>1. ~linear'
      <4>1. linear' = (read_ind_ < write_ind_)
        BY <1>2
      <4>. QED  BY <2>2, <4>1, Zenon
    <3>2. write_ind_ < read_ind_
      BY <1>1, <2>2 DEF Stored, TypeOK, Slots
    <3>. QED  BY <1>2, <1>4, <3>1, <3>2 DEF Copied, TypeOK
  <2>. QED  BY <2>1, <2>2
<1>7. NotEmpty' /\ Promised' /\ Compared' /\ Settled'
  BY <1>1, <1>2, <1>3 DEF NotEmpty, Promised, Compared, Settled, Reading
<1>. QED  BY <1>5, <1>6, <1>7

LEMMA ReadCopyInv == ASSUME IInv, ReadCopy PROVE IInv'
<1> USE RoundBufAssumption DEF IInv, ReaderInv
<1>1. /\ UNCHANGED <<write_ind_, read_ind_, pc, need, le, len, linear, buf_, result>>
      /\ pc = "copy" /\ Len(out) < len
      /\ out' = Append(out, buf_[SlotAt(Len(out))])
  BY DEF ReadCopy
<1>2. Len(out) \in Nat /\ out \in Seq(Values) /\ len \in Nat
  BY LenProperties DEF TypeOK
<1>3. Len(out) \in 0..len
  BY <1>1, <1>2
<1>4. /\ SlotAt(Len(out)) = Wrap(read_ind_ + Len(out))
      /\ SlotAt(Len(out)) \in Slots
  BY <1>1, <1>3, SlotAtIsWrap
<1>5. buf_[SlotAt(Len(out))] \in Values
  BY <1>4 DEF TypeOK
<1>6. /\ out' \in Seq(Values)
      /\ Len(out') = Len(out) + 1
      /\ \A i \in 1..Len(out) : out'[i] = out[i]
      /\ out'[Len(out) + 1] = buf_[SlotAt(Len(out))]
  BY <1>1, <1>2, <1>5, AppendProperties
<1>7. TypeOK'
  BY <1>1, <1>6 DEF TypeOK
<1>8. \A i \in 1..Len(out') : out'[i] = buf_[Wrap(read_ind_ + (i - 1))]
  <2> SUFFICES ASSUME NEW i \in 1..Len(out')
               PROVE  out'[i] = buf_[Wrap(read_ind_ + (i - 1))]
    OBVIOUS
  <2>1. CASE i = Len(out) + 1
    BY <1>2, <1>4, <1>6, <2>1
  <2>2. CASE i \in 1..Len(out)
    BY <1>1, <1>6, <2>2 DEF Copied
  <2>. QED  BY <1>2, <1>6, <2>1, <2>2
<1>9. Copied'
  BY <1>1, <1>2, <1>6, <1>8 DEF Copied, Wrap
<1>10. NotEmpty' /\ Promised' /\ Compared' /\ Settled'
  BY <1>1 DEF NotEmpty, Promised, Compared, Settled, Reading, Stored
<1>. QED  BY <1>7, <1>9, <1>10

LEMMA ReadReturnInv == ASSUME IInv, ReadReturn PROVE IInv'
<1> USE RoundBufAssumption DEF IInv, ReaderInv
<1>1. /\ UNCHANGED <<write_ind_, need, le, len, linear, buf_, out>>
      /\ pc = "copy" /\ pc' = "idle"
      /\ read_ind_' = SlotAt(len) /\ result' = out
  BY DEF ReadReturn
<1>2. len \in 0..len
  BY DEF TypeOK
<1>3. SlotAt(len) \in Slots
  BY <1>1, <1>2, SlotAtIsWrap
<1>4. TypeOK'
  BY <1>1, <1>3 DEF TypeOK, Steps
<1>. QED
  BY <1>1, <1>4 DEF NotEmpty, Promised, Compared, Settled, Copied, Reading

LEMMA StutterInv == ASSUME IInv, UNCHANGED vars PROVE IInv'
  BY DEF vars, IInv, ReaderInv, TypeOK, NotEmpty, Promised, Compared, Settled,
         Copied, Reading, Stored, Wrap

LEMMA NextInv == ASSUME IInv, [Next]_vars PROVE IInv'
  BY PushBackInv, ResetInv, ReaderCheckInv, ReadClampInv, ReadBranchInv,
     ReadCopyInv, ReadReturnInv, StutterInv DEF Next, Reader

\* The invariant holds in every reachable state.
THEOREM Invariant == Spec => []IInv
<1>1. Init => IInv
  BY InitInv
<1>2. IInv /\ [Next]_vars => IInv'
  BY NextInv
<1>. QED
  BY <1>1, <1>2, PTL DEF Spec

\* The variables keep their types: the indices never leave the array.
THEOREM TypeCorrect == Spec => []TypeOK
<1>1. IInv => TypeOK
  BY DEF IInv
<1>. QED
  BY <1>1, Invariant, PTL

\* Read() never returns an element that is not stored (round_buf.hpp:75-102).
THEOREM ReaderSafe == Spec => []NoOverRead
<1>1. IInv => NoOverRead
  <2> SUFFICES ASSUME IInv, pc = "copy"
               PROVE  len <= Stored /\ SlotAt(len) \in Slots
    BY DEF NoOverRead
  <2>1. len \in 0..len
    BY RoundBufAssumption DEF IInv, TypeOK
  <2>2. SlotAt(len) \in Slots
    BY <2>1, SlotAtIsWrap DEF IInv, ReaderInv
  <2>3. len <= Stored
    BY DEF IInv, ReaderInv, Settled
  <2>. QED  BY <2>2, <2>3
<1>. QED
  BY <1>1, Invariant, PTL

\* A read that follows a size check is never empty, and is short of the length
\* asked for only while the write index is wrapped (cmd-processor.cpp:46,60,75).
THEOREM ShortReads == Spec => []ShortReadOnlyAtWrap
<1>1. IInv => ShortReadOnlyAtWrap
  BY DEF IInv, ReaderInv, Settled, ShortReadOnlyAtWrap, TypeOK
<1>. QED
  BY <1>1, Invariant, PTL

-----------------------------------------------------------------------------
(***************************************************************************)
(* Refinement of BoundedFifo.                                              *)
(***************************************************************************)
LEMMA SeqOfLength ==
  ASSUME NEW n \in Nat, NEW f \in [1..n -> Values]
  PROVE  f \in Seq(Values) /\ Len(f) = n
<1>1. f \in Seq(Values)
  BY SeqDef
<1>2. 1..Len(f) = 1..n /\ Len(f) \in Nat
  BY <1>1, LenProperties
<1>. QED
  BY <1>1, <1>2

LEMMA ContentsIsSeq ==
  ASSUME TypeOK
  PROVE  /\ Contents \in Seq(Values)
         /\ Len(Contents) = Stored
         /\ \A i \in 1..Stored : Contents[i] = buf_[Wrap(read_ind_ + (i - 1))]
<1>1. Stored \in Nat
  BY StoredRange
<1>2. \A i \in 1..Stored : Wrap(read_ind_ + (i - 1)) \in Slots
  BY RoundBufAssumption DEF TypeOK, Stored, Wrap, Slots
<1>3. Contents \in [1..Stored -> Values]
  BY <1>2 DEF Contents, TypeOK
<1>. QED
  BY <1>1, <1>3, SeqOfLength DEF Contents

LEMMA InitRefines == Init => Fifo!FifoInit
  <1> SUFFICES ASSUME Init PROVE Contents = << >> /\ result = << >>
    BY DEF Fifo!FifoInit
  <1>1. TypeOK /\ Stored = 0
    BY InitInv, RoundBufAssumption DEF Init, IInv, Stored
  <1>. QED
    BY <1>1, ContentsIsSeq, EmptySeq DEF Init

\* A push that finds room appends to the queue.
LEMMA PushBackRefines ==
  ASSUME TypeOK, NEW v \in Values, PushBack(v)
  PROVE  Fifo!Put(v)
<1>1. TypeOK' /\ Stored' = Stored + 1 /\ Stored + 1 < MaxSize /\ read_ind_' = read_ind_
  BY PushBackEffect DEF PushBack
<1>2. Stored \in Nat
  BY StoredRange
<1>3. /\ Contents \in Seq(Values) /\ Len(Contents) = Stored
      /\ \A i \in 1..Stored : Contents[i] = buf_[Wrap(read_ind_ + (i - 1))]
  BY ContentsIsSeq
<1>4. /\ Contents' \in Seq(Values) /\ Len(Contents') = Stored + 1
      /\ \A i \in 1..(Stored + 1) :
            Contents'[i] = buf_'[Wrap(read_ind_ + (i - 1))]
  <2>1. Contents' = [i \in 1..(Stored + 1) |-> buf_'[Wrap(read_ind_ + (i - 1))]]
    BY <1>1 DEF Contents, Wrap
  <2>2. \A i \in 1..(Stored + 1) : Wrap(read_ind_ + (i - 1)) \in Slots
    BY <1>1, <1>2, RoundBufAssumption DEF TypeOK, Wrap, Slots
  <2>3. Contents' \in [1..(Stored + 1) -> Values]
    BY <1>1, <2>1, <2>2 DEF TypeOK
  <2>. QED  BY <1>2, <2>1, <2>3, SeqOfLength
<1>5. /\ Append(Contents, v) \in Seq(Values)
      /\ Len(Append(Contents, v)) = Stored + 1
      /\ \A i \in 1..Stored : Append(Contents, v)[i] = Contents[i]
      /\ Append(Contents, v)[Stored + 1] = v
  BY <1>3, AppendProperties
<1>6. \A i \in 1..(Stored + 1) : Contents'[i] = Append(Contents, v)[i]
  <2> SUFFICES ASSUME NEW i \in 1..(Stored + 1)
               PROVE  Contents'[i] = Append(Contents, v)[i]
    OBVIOUS
  <2>1. CASE i \in 1..Stored
    <3>1. Contents'[i] = buf_'[Wrap(read_ind_ + (i - 1))]
      BY <1>4
    <3>2. buf_'[Wrap(read_ind_ + (i - 1))] = buf_[Wrap(read_ind_ + (i - 1))]
      BY <2>1, PushBackEffect
    <3>3. Append(Contents, v)[i] = buf_[Wrap(read_ind_ + (i - 1))]
      BY <1>3, <1>5, <2>1
    <3>. QED  BY <3>1, <3>2, <3>3
  <2>2. CASE i = Stored + 1
    <3>1. Wrap(read_ind_ + (i - 1)) = Wrap(read_ind_ + Stored)
      <4>1. i - 1 = Stored
        BY <1>2, <2>2
      <4>. QED  BY <4>1
    <3>2. Contents'[i] = buf_'[Wrap(read_ind_ + Stored)]
      BY <1>4, <3>1
    <3>3. buf_'[Wrap(read_ind_ + Stored)] = v
      BY PushBackEffect
    <3>4. Append(Contents, v)[i] = v
      BY <1>5, <2>2
    <3>. QED  BY <3>2, <3>3, <3>4
  <2>3. i \in 1..Stored \/ i = Stored + 1
    BY <1>2
  <2>. QED  BY <2>1, <2>2, <2>3
<1>7. Contents' = Append(Contents, v)
  BY <1>4, <1>5, <1>6, SeqEqual
<1>8. Len(Contents) < MaxSize - 1
  BY <1>1, <1>2, <1>3, RoundBufAssumption
<1>. QED
  BY <1>7, <1>8 DEF Fifo!Put, PushBack, readerVars

\* A completed read takes its length from the front of the queue.
LEMMA ReadReturnRefines ==
  ASSUME IInv, ReadReturn
  PROVE  Fifo!Take(len) /\ len \in 1..Len(Contents)
<1> USE DEF IInv, ReaderInv
<1>1. /\ UNCHANGED <<write_ind_, buf_>>
      /\ pc = "copy" /\ Len(out) = len
      /\ read_ind_' = SlotAt(len) /\ result' = out
  BY DEF ReadReturn
<1>2. Stored \in Nat /\ len \in 1..Stored
  BY <1>1, StoredRange DEF Settled
<1>3. read_ind_' = Wrap(read_ind_ + len) /\ read_ind_' \in Slots
  BY <1>1, <1>2, SlotAtIsWrap
<1>4. Stored' = Stored - len
  BY <1>1, <1>2, <1>3, RoundBufAssumption DEF TypeOK, Stored, Wrap, Slots, Copied
<1>5. /\ Contents \in Seq(Values) /\ Len(Contents) = Stored
      /\ \A i \in 1..Stored : Contents[i] = buf_[Wrap(read_ind_ + (i - 1))]
  BY ContentsIsSeq
<1>6. result' = SubSeq(Contents, 1, len)
  <2>1. \A i \in 1..len : Contents[i] \in Values
    BY <1>2, <1>5, ElementOfSeq
  <2>2. /\ SubSeq(Contents, 1, len) \in Seq(Values)
        /\ Len(SubSeq(Contents, 1, len)) = len
        /\ \A i \in 1..len : SubSeq(Contents, 1, len)[i] = Contents[i]
    BY <1>2, <2>1, SubSeqProperties
  <2>3. \A i \in 1..len : out[i] = Contents[i]
    BY <1>1, <1>2, <1>5 DEF Copied
  <2>. QED
    BY <1>1, <2>2, <2>3, SeqEqual DEF TypeOK
<1>7. Contents' = SubSeq(Contents, len + 1, Stored)
  <2> DEFINE rest == SubSeq(Contents, len + 1, Stored)
  <2>1. \A i \in (len + 1)..Stored : Contents[i] \in Values
    BY <1>2, <1>5, ElementOfSeq
  <2>2. /\ rest \in Seq(Values)
        /\ Len(rest) = Stored - len
        /\ \A i \in 1..(Stored - len) : rest[i] = Contents[len + i]
    BY <1>2, <2>1, SubSeqProperties
  <2>3. Contents' = [i \in 1..(Stored - len) |-> buf_[Wrap(read_ind_' + (i - 1))]]
    BY <1>1, <1>4 DEF Contents, Wrap
  <2>4. \A i \in 1..(Stored - len) :
           /\ Wrap(read_ind_' + (i - 1)) = Wrap(read_ind_ + (len + i - 1))
           /\ Wrap(read_ind_' + (i - 1)) \in Slots
    BY <1>2, <1>3, RoundBufAssumption, StoredRange DEF TypeOK, Wrap, Slots
  <2>5. Contents' \in Seq(Values) /\ Len(Contents') = Stored - len
    <3>1. Contents' \in [1..(Stored - len) -> Values]
      BY <2>3, <2>4 DEF TypeOK
    <3>. QED  BY <1>2, <3>1, SeqOfLength
  <2>6. \A i \in 1..(Stored - len) : Contents'[i] = rest[i]
    <3> SUFFICES ASSUME NEW i \in 1..(Stored - len) PROVE Contents'[i] = rest[i]
      OBVIOUS
    <3>1. Contents'[i] = buf_[Wrap(read_ind_ + (len + i - 1))]
      BY <2>3, <2>4
    <3>2. len + i \in 1..Stored
      BY <1>2
    <3>3. PICK j \in 1..Stored : j = len + i
      BY <3>2
    <3>4. Contents[j] = buf_[Wrap(read_ind_ + (j - 1))]
      BY <1>5, <3>3
    <3>5. Wrap(read_ind_ + (j - 1)) = Wrap(read_ind_ + (len + i - 1))
      <4>1. j - 1 = len + i - 1
        BY <1>2, <3>3
      <4>. QED  BY <4>1
    <3>. QED  BY <2>2, <3>1, <3>3, <3>4, <3>5
  <2> HIDE DEF rest
  <2>7. Contents' = rest
    BY <2>2, <2>5, <2>6, SeqEqual
  <2>. QED  BY <2>7 DEF rest
<1>. QED
  BY <1>2, <1>5, <1>6, <1>7 DEF Fifo!Take

\* Every step of the ring buffer is a step of the bounded queue, or leaves the
\* queue alone.
LEMMA NextRefines == ASSUME IInv, [Next]_vars PROVE [Fifo!FifoNext]_(Fifo!fifoVars)
<1>1. ASSUME NEW v \in Values, PushBack(v) PROVE Fifo!FifoNext
  BY <1>1, PushBackRefines DEF Fifo!FifoNext, IInv
<1>2. CASE Reset
  <2>1. Stored' = 0
    BY <1>2 DEF Reset, Stored
  <2>2. Contents' = [i \in 1..0 |-> buf_'[Wrap(read_ind_' + (i - 1))]]
    BY <2>1 DEF Contents, Wrap
  <2>3. Contents' = << >>
    BY <2>2
  <2>. QED
    BY <1>2, <2>3 DEF Reset, readerVars, Fifo!FifoNext, Fifo!Clear
<1>3. CASE ReadReturn
  BY <1>3, ReadReturnRefines DEF Fifo!FifoNext
<1>4. CASE \/ \E n \in Needs : SizeCompare(n)
           \/ SizeReturn \/ ReadCheck \/ ReadCompare \/ ReadClamp
           \/ ReadBranch \/ ReadCopy \/ UNCHANGED vars
  <2>1. UNCHANGED <<buf_, write_ind_, read_ind_, result>>
    BY <1>4 DEF SizeCompare, SizeReturn, ReadCheck, ReadCompare, ReadClamp,
                ReadBranch, ReadCopy, vars
  <2>2. Contents' = Contents
    BY <2>1 DEF Contents, Stored, Wrap
  <2>. QED
    BY <2>1, <2>2 DEF Fifo!fifoVars
<1>. QED
  BY <1>1, <1>2, <1>3, <1>4 DEF Next, Reader

\* The ring buffer under interrupts implements the bounded first-in first-out
\* queue (round_buf.hpp as Rs485Interface uses it).
THEOREM RingIsFifo == Spec => ImplementsFifo
<1>1. Init => Fifo!FifoInit
  BY InitRefines
<1>2. IInv /\ [Next]_vars => [Fifo!FifoNext]_(Fifo!fifoVars)
  BY NextRefines
<1>. QED
  BY <1>1, <1>2, Invariant, PTL DEF Spec, ImplementsFifo, Fifo!FifoSpec
=============================================================================
