-------------------------- MODULE RingBufferProofs --------------------------
(* Theorems about RingBuffer for every capacity, file size and write size. *)
EXTENDS MCRingBuffer, RecursionProofs

-----------------------------------------------------------------------------
(* What the operators of the buffer return.                                *)

\* The range merge_range inserts reaches from a start among (start and the
\* starts of the ranges it touches) to an end among (end and their ends), and
\* covers the new range.
LEMMA MergedRange ==
    ASSUME NEW filled \in SUBSET Ranges,
           NEW start \in 0 .. Total, NEW end \in 0 .. Total
    PROVE  LET touching == { r \in filled : r.start <= end /\ r.end >= start } IN
           \E lo \in {start} \cup { r.start : r \in touching },
              hi \in {end} \cup { r.end : r \in touching } :
               /\ lo <= start /\ end <= hi
               /\ MergeRange(filled, start, end) =
                     (filled \ touching) \cup {[start |-> lo, end |-> hi]}
               /\ \A r \in touching : lo <= r.start /\ r.end <= hi
<1> DEFINE touching == { r \in filled : r.start <= end /\ r.end >= start }
           Los == {start} \cup { r.start : r \in touching }
           His == {end} \cup { r.end : r \in touching }
<1> Total \in Nat
  BY SizesAssumption
<1>1. Los \in SUBSET Nat /\ His \in SUBSET (0 .. Total)
  BY DEF Ranges
<1>2. Min(Los) \in Los /\ \A lo \in Los : Min(Los) <= lo
  <2>1. start \in Los
    OBVIOUS
  <2> HIDE DEF Los
  <2> QED
    BY <1>1, <2>1, MinOfNaturals
<1>3. Max(His) \in His /\ \A hi \in His : hi <= Max(His)
  <2>1. end \in His
    OBVIOUS
  <2> HIDE DEF His
  <2> QED
    BY <1>1, <2>1, MaxOfBounded
<1>4. MergeRange(filled, start, end) =
          (filled \ touching) \cup {[start |-> Min(Los), end |-> Max(His)]}
  BY DEF MergeRange
<1>5. /\ Min(Los) <= start /\ end <= Max(His)
      /\ \A r \in touching : Min(Los) <= r.start /\ r.end <= Max(His)
  <2>1. start \in Los /\ end \in His
    OBVIOUS
  <2>2. \A r \in touching : r.start \in Los /\ r.end \in His
    OBVIOUS
  <2> HIDE DEF Los, His
  <2> QED
    BY <1>2, <1>3, <2>1, <2>2
<1>6. \E lo \in Los, hi \in His :
          /\ lo <= start /\ end <= hi
          /\ MergeRange(filled, start, end) =
                (filled \ touching) \cup {[start |-> lo, end |-> hi]}
          /\ \A r \in touching : lo <= r.start /\ r.end <= hi
  <2> HIDE DEF Los, His, touching
  <2> QED
    BY <1>2, <1>3, <1>4, <1>5
<1> QED
  BY <1>6

\* Moving the window gives a buffer at the new base whose bytes are still at
\* the right place.
LEMMA SlideToKeeps ==
    ASSUME NEW b \in Buffers, NEW newBase \in 0 .. Total
    PROVE  /\ SlideTo(b, newBase) \in Buffers
           /\ SlideTo(b, newBase).base = newBase
           /\ Aligned(b) => Aligned(SlideTo(b, newBase))
<1> USE SizesAssumption
<1> DEFINE s == SlideTo(b, newBase)
<1>1. /\ b.base \in 0 .. Total
      /\ b.data \in [Cells -> Offsets \cup {Zero}]
      /\ b.filled \in SUBSET Ranges
  BY DEF Buffers
<1>2. CASE newBase = b.base
  BY <1>1, <1>2 DEF SlideTo
<1>3. CASE newBase < b.base
  <2>1. s = SlideBack(b, newBase)
    BY <1>3 DEF SlideTo
  <2>2. Rebase(b.filled, b.base - newBase) \in SUBSET Ranges
    BY <1>1, <1>3 DEF Rebase, Ranges, SatSub
  <2>3. [i \in Cells |-> IF i < b.base - newBase THEN Zero
                         ELSE b.data[i - (b.base - newBase)]]
            \in [Cells -> Offsets \cup {Zero}]
    BY <1>1, <1>3 DEF Cells
  <2>4. s \in Buffers /\ s.base = newBase
    BY <2>1, <2>2, <2>3 DEF SlideBack, Buffers
  <2>5. ASSUME Aligned(b), NEW i \in Cells, s.data[i] # Zero
        PROVE  s.data[i] = s.base + i
    <3>1. i >= b.base - newBase /\ i - (b.base - newBase) \in Cells
      BY <1>1, <1>3, <2>1, <2>5 DEF SlideBack, Cells
    <3>2. s.data[i] = b.data[i - (b.base - newBase)]
      BY <3>1, <2>1, <1>1 DEF SlideBack, Cells
    <3>3. s.data[i] = b.base + (i - (b.base - newBase))
      BY <3>1, <3>2, <2>5 DEF Aligned
    <3> QED
      BY <3>3, <2>4, <1>1 DEF Cells
  <2> QED
    BY <2>4, <2>5 DEF Aligned
<1>4. CASE newBase > b.base
  <2>1. s = SlideForward(b, newBase)
    BY <1>4, <1>1 DEF SlideTo
  <2>2. \A kept \in SUBSET Ranges : Rebase(kept, newBase) \in SUBSET Ranges
    BY DEF Rebase, Ranges, SatSub
  <2>3. s.filled \in SUBSET Ranges
    <3> DEFINE kept == IF newBase - b.base >= Cap THEN {} ELSE b.filled
               visible == { r \in Rebase(kept, newBase) : r.start < Cap }
    <3>1. visible \in SUBSET Ranges
      BY <2>2, <1>1
    <3>2. s.filled = { [start |-> r.start, end |-> Lower(r.end, Cap)] : r \in visible }
      BY <2>1 DEF SlideForward
    <3>3. \A r \in Ranges : [start |-> r.start, end |-> Lower(r.end, Cap)] \in Ranges
      BY DEF Ranges, Lower
    <3> QED
      BY <3>1, <3>2, <3>3
  <2>4. s.data = [i \in Cells |-> IF i + (newBase - b.base) < Cap
                                  THEN b.data[i + (newBase - b.base)] ELSE Zero]
    BY <2>1 DEF SlideForward
  <2>5. s.data \in [Cells -> Offsets \cup {Zero}]
    <3>1. \A i \in Cells : i + (newBase - b.base) < Cap
                              => i + (newBase - b.base) \in Cells
      BY <1>1, <1>4 DEF Cells
    <3>2. \A j \in Cells : b.data[j] \in Offsets \cup {Zero}
      BY <1>1
    <3> HIDE DEF s
    <3> QED
      BY <2>4, <3>1, <3>2
  <2>6. s.base = newBase
    BY <2>1 DEF SlideForward
  <2>7. s = [base |-> s.base, data |-> s.data, filled |-> s.filled]
    BY <2>1 DEF SlideForward
  <2>8. s \in Buffers
    BY <2>3, <2>5, <2>6, <2>7 DEF Buffers
  <2>9. ASSUME Aligned(b), NEW i \in Cells, s.data[i] # Zero
        PROVE  s.data[i] = s.base + i
    <3>1. i + (newBase - b.base) \in Cells
      BY <1>1, <1>4, <2>4, <2>9 DEF Cells
    <3>2. s.data[i] = b.data[i + (newBase - b.base)]
      BY <3>1, <2>4 DEF Cells
    <3>3. s.data[i] = b.base + (i + (newBase - b.base))
      BY <3>1, <3>2, <2>9 DEF Aligned
    <3> QED
      BY <3>3, <2>6, <1>1 DEF Cells
  <2> QED
    BY <2>6, <2>8, <2>9 DEF Aligned
<1> QED
  BY <1>1, <1>2, <1>3, <1>4

\* write() puts the window where the clipped slice fits into it.
LEMMA WindowForHolds ==
    ASSUME NEW b \in Buffers, NEW offset \in Offsets, NEW len \in 1 .. Cap,
           offset + len <= Total
    PROVE  /\ WindowFor(b, offset, len) \in Buffers
           /\ WindowFor(b, offset, len).base <= offset
           /\ offset + len <= WindowFor(b, offset, len).base + Cap
           /\ Aligned(b) => Aligned(WindowFor(b, offset, len))
<1> USE SizesAssumption
<1> DEFINE b1 == IF offset < b.base THEN SlideTo(b, offset) ELSE b
           target == Lower(SatSub(offset + len, Cap), SatSub(Total, Cap))
<1>1. offset \in 0 .. Total /\ b.base \in 0 .. Total
  BY DEF Offsets, Buffers
<1>2. /\ b1 \in Buffers /\ b1.base \in 0 .. Total /\ b1.base <= offset
      /\ Aligned(b) => Aligned(b1)
  BY <1>1, SlideToKeeps DEF Buffers
<1>3. CASE offset + len > b1.base + Cap
  <2>1. target = offset + len - Cap /\ target \in 0 .. Total
    BY <1>1, <1>2, <1>3 DEF Lower, SatSub
  <2>2. WindowFor(b, offset, len) = SlideTo(b1, target)
    BY <1>3 DEF WindowFor
  <2> HIDE DEF b1, target
  <2>3. /\ SlideTo(b1, target) \in Buffers
        /\ SlideTo(b1, target).base = target
        /\ Aligned(b1) => Aligned(SlideTo(b1, target))
    BY <1>2, <2>1, SlideToKeeps
  <2> QED
    BY <1>1, <1>2, <2>1, <2>2, <2>3
<1>4. CASE ~ (offset + len > b1.base + Cap)
  <2>1. WindowFor(b, offset, len) = b1
    BY <1>4 DEF WindowFor
  <2> HIDE DEF b1
  <2> QED
    BY <1>1, <1>2, <1>4, <2>1
<1> QED
  BY <1>3, <1>4

\* Storing a slice that fits the window keeps the bytes at the right place,
\* puts the slice there, and leaves a filled range that covers it.
LEMMA StoreHolds ==
    ASSUME NEW w \in Buffers, NEW offset \in Offsets, NEW len \in 1 .. Cap,
           offset + len <= Total,
           w.base <= offset, offset + len <= w.base + Cap
    PROVE  LET s == Store(w, offset, len) IN
           /\ s \in Buffers
           /\ s.base = w.base
           /\ Aligned(w) => Aligned(s)
           /\ \A x \in offset .. offset + len - 1 : s.data[x - w.base] = x
           /\ IsRangeFilled(s, offset, len)
<1> USE SizesAssumption
<1> DEFINE s == Store(w, offset, len)
           at == SatSub(offset, w.base)
<1>1. /\ w.base \in 0 .. Total
      /\ w.data \in [Cells -> Offsets \cup {Zero}]
      /\ w.filled \in SUBSET Ranges
      /\ offset \in 0 .. Total - 1 /\ offset + len \in 0 .. Total
  BY DEF Buffers, Offsets
<1>2. at = offset - w.base
  BY <1>1 DEF SatSub
<1>3. s.base = w.base
  BY DEF Store
<1>4. s.data = [i \in Cells |-> IF at <= i /\ i < at + len
                                THEN offset + (i - at) ELSE w.data[i]]
  BY DEF Store
<1>5. s.filled = MergeRange(w.filled, offset, offset + len)
  BY DEF Store
<1>6. s = [base |-> s.base, data |-> s.data, filled |-> s.filled]
  BY DEF Store
<1> DEFINE touching == { r \in w.filled : r.start <= offset + len /\ r.end >= offset }
<1>7. PICK lo \in {offset} \cup { r.start : r \in touching },
           hi \in {offset + len} \cup { r.end : r \in touching } :
               /\ lo <= offset /\ offset + len <= hi
               /\ s.filled = (w.filled \ touching) \cup {[start |-> lo, end |-> hi]}
  BY <1>1, <1>5, MergedRange
<1> HIDE DEF s, at
<1>8. [start |-> lo, end |-> hi] \in Ranges
  BY <1>1 DEF Ranges
<1>9. s.filled \in SUBSET Ranges
  BY <1>1, <1>7, <1>8
<1>10. s.data \in [Cells -> Offsets \cup {Zero}]
  <2>1. ASSUME NEW i \in Cells
        PROVE  (IF at <= i /\ i < at + len THEN offset + (i - at) ELSE w.data[i])
                   \in Offsets \cup {Zero}
    <3>1. CASE at <= i /\ i < at + len
      <4>1. i \in Int /\ at \in Int /\ offset \in Nat /\ Total \in Nat
        BY <1>1, <1>2 DEF Cells
      <4>2. offset + (i - at) \in 0 .. Total - 1
        BY <3>1, <4>1
      <4> QED
        BY <3>1, <4>2 DEF Offsets
    <3>2. CASE ~ (at <= i /\ i < at + len)
      BY <1>1, <3>2
    <3> QED
      BY <3>1, <3>2
  <2> QED
    BY <1>4, <2>1
<1>11. s \in Buffers
  BY <1>1, <1>3, <1>6, <1>9, <1>10 DEF Buffers
<1>12. ASSUME Aligned(w), NEW i \in Cells, s.data[i] # Zero
       PROVE  s.data[i] = s.base + i
  <2>1. CASE at <= i /\ i < at + len
    <3>1. s.data[i] = offset + (i - at)
      BY <1>4, <2>1
    <3>2. i \in Int /\ offset \in Int /\ s.base \in Int /\ at = offset - s.base
      BY <1>1, <1>2, <1>3 DEF Cells
    <3> QED
      BY <3>1, <3>2
  <2>2. CASE ~ (at <= i /\ i < at + len)
    BY <1>3, <1>4, <1>12, <2>2 DEF Aligned
  <2> QED
    BY <2>1, <2>2
<1>13. ASSUME NEW x \in offset .. offset + len - 1
       PROVE  s.data[x - w.base] = x
  <2>1. x - w.base \in Cells /\ at <= x - w.base /\ x - w.base < at + len
    BY <1>1, <1>2 DEF Cells
  <2>2. s.data[x - w.base] = offset + ((x - w.base) - at)
    BY <1>4, <2>1
  <2>3. offset + ((x - w.base) - at) = x
    BY <1>1, <1>2
  <2> QED
    BY <2>2, <2>3
<1>14. IsRangeFilled(s, offset, len)
  <2> DEFINE merged == [start |-> lo, end |-> hi]
  <2>1. merged \in s.filled
    BY <1>7
  <2>2. merged.start <= offset /\ merged.end >= offset + len
    BY <1>1, <1>7, <1>8 DEF Ranges
  <2> QED
    BY <2>1, <2>2 DEF IsRangeFilled
<1> QED
  BY <1>3, <1>11, <1>12, <1>13, <1>14 DEF Aligned, s

\* What is kept of a slice given to write().
LEMMA ClippedFits ==
    ASSUME NEW offset \in Offsets, NEW n \in 1 .. MaxWrite
    PROVE  /\ Clipped(offset, n) \in 1 .. Cap
           /\ offset + Clipped(offset, n) <= Total
  BY SizesAssumption, ChunkFitsAssumption DEF Clipped, Lower, Offsets

\* One call of write().
LEMMA WrittenHolds ==
    ASSUME NEW b \in Buffers, NEW offset \in 0 .. Total, NEW n \in 0 .. MaxWrite
    PROVE  /\ Written(b, offset, n) \in Buffers
           /\ Aligned(b) => Aligned(Written(b, offset, n))
<1> USE SizesAssumption
<1>1. CASE offset >= Total \/ n = 0
  BY <1>1 DEF Written
<1>2. CASE ~ (offset >= Total \/ n = 0)
  <2> DEFINE len == Clipped(offset, n)
             w == WindowFor(b, offset, len)
  <2>1. offset \in Offsets /\ n \in 1 .. MaxWrite
    BY <1>2 DEF Offsets
  <2>2. len \in 1 .. Cap /\ offset + len <= Total
    BY <2>1, ClippedFits
  <2>3. Written(b, offset, n) = Store(w, offset, len)
    BY <1>2 DEF Written
  <2> HIDE DEF len
  <2>4. /\ w \in Buffers /\ w.base <= offset /\ offset + len <= w.base + Cap
        /\ Aligned(b) => Aligned(w)
    BY <2>1, <2>2, WindowForHolds
  <2> HIDE DEF w
  <2> QED
    BY <2>1, <2>2, <2>3, <2>4, StoreHolds
<1> QED
  BY <1>1, <1>2

-----------------------------------------------------------------------------
(* The theorems.                                                           *)

\* The inductive invariant: types, and every byte at its place.
WindowInv == TypeOK /\ WindowHoldsFileBytes

\* The fresh (or cleared) buffer is typed and trivially aligned.
LEMMA EmptyBufferHolds == EmptyBuffer \in Buffers /\ Aligned(EmptyBuffer)
  BY SizesAssumption DEF EmptyBuffer, Buffers, Aligned

\* Every step of the buffer keeps the inductive invariant.
LEMMA WindowStep == WindowInv /\ [Next]_vars => WindowInv'
<1> SUFFICES ASSUME WindowInv, [Next]_vars
             PROVE  WindowInv'
  OBVIOUS
<1> USE DEF WindowInv, TypeOK, WindowHoldsFileBytes
<1>1. ASSUME NEW offset \in 0 .. Total, NEW n \in 0 .. MaxWrite, Write(offset, n)
      PROVE  WindowInv'
  <2>1. buf' \in Buffers /\ Aligned(buf')
    BY <1>1, WrittenHolds DEF Write
  <2> QED
    BY <1>1, <2>1 DEF Write, Aligned
<1>2. ASSUME NEW p \in PlayPositions, SetPlayPosition(p)
      PROVE  WindowInv'
  BY <1>2, SizesAssumption DEF SetPlayPosition, Aligned
<1>3. CASE Clear
  BY <1>3, EmptyBufferHolds DEF Clear, Aligned
<1>4. CASE UNCHANGED vars
  BY <1>4 DEF vars, Aligned
<1> QED
  BY <1>1, <1>2, <1>3, <1>4 DEF Next

\* The buffer's type, and: whatever writes slide the window forward and back,
\* each cell holds zero or the byte of the file its place stands for.
THEOREM WindowTheorem == Spec => [](TypeOK /\ WindowHoldsFileBytes)
<1>1. Init => WindowInv
  BY EmptyBufferHolds DEF Init, WindowInv, TypeOK, WindowHoldsFileBytes
<1> QED
  BY <1>1, WindowStep, PTL DEF Spec, WindowInv

\* The buffer keeps its type: the ranges and the bytes of every slide and every
\* write are those of the file.
THEOREM TypeTheorem == Spec => []TypeOK
  BY WindowTheorem, PTL

\* What write() stored can be read back at once, for every buffer state.
THEOREM ReadAfterWriteTheorem == Spec => []ReadAfterWrite
<1>1. ASSUME TypeOK, NEW offset \in Offsets, NEW n \in 1 .. MaxWrite
      PROVE  ReadAt(Written(buf, offset, n), offset, Clipped(offset, n))
                 = FileBytes(offset, Clipped(offset, n))
  <2> USE SizesAssumption
  <2> DEFINE len == Clipped(offset, n)
             w == WindowFor(buf, offset, len)
             s == Store(w, offset, len)
  <2>1. len \in 1 .. Cap /\ offset + len <= Total
    BY ClippedFits
  <2>2. Written(buf, offset, n) = s
    BY DEF Written, Offsets
  <2> HIDE DEF len
  <2>3. w \in Buffers /\ w.base <= offset /\ offset + len <= w.base + Cap
    BY <1>1, <2>1, WindowForHolds DEF TypeOK
  <2> HIDE DEF w
  <2>4. /\ s.base = w.base
        /\ \A x \in offset .. offset + len - 1 : s.data[x - w.base] = x
        /\ IsRangeFilled(s, offset, len)
    BY <2>1, <2>3, StoreHolds
  <2> HIDE DEF s
  <2>5. w.base \in Nat /\ offset \in Nat
    BY <2>3 DEF Buffers, Offsets
  <2>6. SatSub(offset, s.base) = offset - w.base
    BY <2>3, <2>4, <2>5 DEF SatSub
  <2>7. ReadAt(s, offset, len)
            = [i \in 1 .. len |-> s.data[(offset - w.base) + i - 1]]
    BY <2>1, <2>3, <2>4, <2>5, <2>6 DEF ReadAt
  <2>8. ASSUME NEW i \in 1 .. len
        PROVE  s.data[(offset - w.base) + i - 1] = offset + i - 1
    <3>1. offset + i - 1 \in offset .. offset + len - 1
      BY <2>1, <2>5
    <3>2. (offset - w.base) + i - 1 = (offset + i - 1) - w.base
      BY <2>5
    <3> QED
      BY <2>4, <3>1, <3>2
  <2> QED
    BY <2>2, <2>7, <2>8 DEF FileBytes, len
<1>2. TypeOK => ReadAfterWrite
  BY <1>1 DEF ReadAfterWrite
<1> QED
  BY <1>2, WindowTheorem, PTL

(***************************************************************************)
(* A buffer that can hold the whole file.                                  *)
(***************************************************************************)

\* Every byte of every filled range of b is stored at its own file offset.
Faithful(b) ==
    /\ b.base = 0
    /\ \A r \in b.filled : \A x \in r.start .. r.end - 1 :
           x < Cap => b.data[x] = x

\* With Cap >= Total the window never moves and each filled range stands for
\* bytes that are really there.
FaithfulInv == TypeOK /\ Faithful(buf)

\* One call of write() on a buffer that can hold the whole file.
LEMMA WrittenFaithful ==
    ASSUME Cap >= Total,
           NEW b \in Buffers, Faithful(b),
           NEW offset \in 0 .. Total, NEW n \in 0 .. MaxWrite
    PROVE  Faithful(Written(b, offset, n))
<1> USE SizesAssumption
<1>1. CASE offset >= Total \/ n = 0
  BY <1>1 DEF Written
<1>2. CASE ~ (offset >= Total \/ n = 0)
  <2> DEFINE len == Clipped(offset, n)
             s == Store(b, offset, len)
  <2>1. offset \in Offsets /\ n \in 1 .. MaxWrite
    BY <1>2 DEF Offsets
  <2>2. len \in 1 .. Cap /\ offset + len <= Total
    BY <2>1, ClippedFits
  <2>3. Written(b, offset, n) = Store(WindowFor(b, offset, len), offset, len)
    BY <1>2 DEF Written
  <2> HIDE DEF len
  <2>4. b.base = 0 /\ b.filled \in SUBSET Ranges
    BY DEF Faithful, Buffers
  <2>5. WindowFor(b, offset, len) = b
    BY <2>1, <2>2, <2>4 DEF WindowFor, Offsets
  <2>6. s.base = 0 /\ \A x \in offset .. offset + len - 1 : s.data[x] = x
    <3>1. /\ s.base = b.base
          /\ \A x \in offset .. offset + len - 1 : s.data[x - b.base] = x
      BY <2>1, <2>2, <2>4, StoreHolds DEF Offsets
    <3> QED
      BY <2>1, <2>4, <3>1 DEF Offsets
  <2>7. s.data = [i \in Cells |-> IF offset <= i /\ i < offset + len
                                  THEN offset + (i - offset) ELSE b.data[i]]
    BY <2>1, <2>4 DEF Store, SatSub, Offsets
  <2> DEFINE touching == { r \in b.filled : r.start <= offset + len /\ r.end >= offset }
  <2>8. PICK lo \in {offset} \cup { r.start : r \in touching },
             hi \in {offset + len} \cup { r.end : r \in touching } :
                 /\ lo <= offset /\ offset + len <= hi
                 /\ s.filled = (b.filled \ touching) \cup {[start |-> lo, end |-> hi]}
    <3>1. s.filled = MergeRange(b.filled, offset, offset + len)
      BY DEF Store
    <3> QED
      BY <2>1, <2>2, <2>4, <3>1, MergedRange DEF Offsets
  <2>9. ASSUME NEW x \in Cells, NEW q \in b.filled, q.start <= x, x < q.end
        PROVE  s.data[x] = x
    <3>1. b.data[x] = x
      BY <2>4, <2>9 DEF Faithful, Cells, Ranges
    <3> QED
      BY <2>1, <2>2, <2>7, <3>1 DEF Cells, Offsets
  <2>10. ASSUME NEW x \in lo .. hi - 1, x < Cap
         PROVE  s.data[x] = x
    <3>1. lo \in 0 .. Total /\ hi \in 0 .. Total /\ x \in Cells
      BY <2>1, <2>2, <2>4, <2>8, <2>10 DEF Ranges, Offsets, Cells
    <3>2. CASE x < offset
      <4>1. lo # offset
        BY <2>1, <3>1, <3>2, <2>10 DEF Offsets
      <4>2. PICK r \in touching : r.start = lo
        BY <2>8, <4>1
      <4>3. r \in b.filled /\ r.start <= x /\ x < r.end
        BY <2>1, <2>4, <3>1, <3>2, <4>2 DEF Ranges, Offsets
      <4> QED
        BY <2>9, <3>1, <4>3
    <3>3. CASE offset <= x /\ x < offset + len
      BY <2>1, <2>2, <2>6, <3>1, <3>3 DEF Offsets
    <3>4. CASE offset + len <= x
      <4>1. hi # offset + len
        BY <2>1, <2>2, <3>1, <3>4, <2>10 DEF Offsets
      <4>2. PICK r \in touching : r.end = hi
        BY <2>8, <4>1
      <4>3. r \in b.filled /\ r.start <= x /\ x < r.end
        BY <2>1, <2>2, <2>4, <3>1, <3>4, <4>2 DEF Ranges, Offsets
      <4> QED
        BY <2>9, <3>1, <4>3
    <3> QED
      BY <2>1, <2>2, <3>1, <3>2, <3>3, <3>4 DEF Offsets
  <2>11. ASSUME NEW q \in s.filled, NEW x \in q.start .. q.end - 1, x < Cap
         PROVE  s.data[x] = x
    <3>1. CASE q \in b.filled
      BY <2>4, <2>9, <2>11, <3>1 DEF Ranges, Cells
    <3>2. CASE q = [start |-> lo, end |-> hi]
      BY <2>10, <2>11, <3>2
    <3> QED
      BY <2>8, <2>11, <3>1, <3>2
  <2> QED
    BY <2>3, <2>5, <2>6, <2>11 DEF Faithful
<1> QED
  BY <1>1, <1>2

\* What a faithful buffer answers to read().
LEMMA FaithfulReads == Cap >= Total /\ FaithfulInv => ReadReturnsFileBytes
<1> SUFFICES ASSUME Cap >= Total, FaithfulInv,
                    NEW offset \in Offsets, NEW length \in 1 .. Total - offset,
                    ReadAt(buf, offset, length) # None
             PROVE  ReadAt(buf, offset, length) = FileBytes(offset, length)
  BY DEF ReadReturnsFileBytes
<1> USE SizesAssumption
<1>1. buf.base = 0 /\ buf.filled \in SUBSET Ranges
  BY DEF FaithfulInv, Faithful, TypeOK, Buffers
<1>2. SatSub(offset, buf.base) = offset
  BY <1>1 DEF SatSub, Offsets
<1>3. /\ IsRangeFilled(buf, offset, length)
      /\ ReadAt(buf, offset, length)
             = [i \in 1 .. length |-> buf.data[offset + i - 1]]
  BY <1>2 DEF ReadAt
<1>4. PICK r \in buf.filled : r.start <= offset /\ r.end >= offset + length
  BY <1>3 DEF IsRangeFilled
<1>5. ASSUME NEW i \in 1 .. length
      PROVE  buf.data[offset + i - 1] = offset + i - 1
  <2>1. offset + i - 1 \in r.start .. r.end - 1 /\ offset + i - 1 < Cap
    BY <1>1, <1>4 DEF Ranges, Offsets
  <2> QED
    BY <2>1, <1>4 DEF FaithfulInv, Faithful
<1> QED
  BY <1>3, <1>5 DEF FileBytes

\* Every step of such a buffer keeps it faithful.
LEMMA FaithfulStep == Cap >= Total /\ FaithfulInv /\ [Next]_vars => FaithfulInv'
<1> SUFFICES ASSUME Cap >= Total, FaithfulInv, [Next]_vars
             PROVE  FaithfulInv'
  OBVIOUS
<1> USE DEF FaithfulInv, TypeOK
<1>1. ASSUME NEW offset \in 0 .. Total, NEW n \in 0 .. MaxWrite, Write(offset, n)
      PROVE  FaithfulInv'
  <2>1. buf' \in Buffers /\ Faithful(buf')
    BY <1>1, WrittenHolds, WrittenFaithful DEF Write
  <2> QED
    BY <1>1, <2>1 DEF Write, Faithful
<1>2. ASSUME NEW p \in PlayPositions, SetPlayPosition(p)
      PROVE  FaithfulInv'
  BY <1>2, SizesAssumption DEF SetPlayPosition, Faithful
<1>3. CASE Clear
  BY <1>3, EmptyBufferHolds DEF Clear, Faithful, EmptyBuffer
<1>4. CASE UNCHANGED vars
  BY <1>4 DEF vars, Faithful
<1> QED
  BY <1>1, <1>2, <1>3, <1>4 DEF Next

LEMMA FaithfulAtFirst == Init => FaithfulInv
  BY EmptyBufferHolds DEF Init, FaithfulInv, TypeOK, Faithful, EmptyBuffer

\* Reading a buffer that can hold the whole file returns the bytes of the file
\* at the requested offset, or nothing.
THEOREM ReadTheorem == Cap >= Total /\ Spec => []ReadReturnsFileBytes
<1> SUFFICES ASSUME Cap >= Total
             PROVE  Spec => []ReadReturnsFileBytes
  OBVIOUS
<1>1. FaithfulInv /\ [Next]_vars => FaithfulInv'
  BY FaithfulStep
<1>2. FaithfulInv => ReadReturnsFileBytes
  BY FaithfulReads
<1> QED
  BY FaithfulAtFirst, <1>1, <1>2, PTL DEF Spec

-----------------------------------------------------------------------------
(* The buffer as a copy of the file *)

LEMMA InReadable ==
    ASSUME NEW filled, NEW r \in filled, NEW x \in r.start .. r.end - 1
    PROVE  x \in Readable(filled)
  BY DEF Readable

\* Ranges that overlap or touch [start, end) and are fused with it cover what
\* they covered before, and [start, end).
LEMMA MergeCovers ==
    ASSUME NEW filled \in SUBSET Ranges,
           NEW start \in 0 .. Total, NEW end \in 0 .. Total, start < end
    PROVE  Readable(MergeRange(filled, start, end))
               = Readable(filled) \cup (start .. end - 1)
<1> USE SizesAssumption
<1> DEFINE touching == { r \in filled : r.start <= end /\ r.end >= start }
<1>1. PICK lo \in {start} \cup { r.start : r \in touching },
           hi \in {end} \cup { r.end : r \in touching } :
               /\ lo <= start /\ end <= hi
               /\ MergeRange(filled, start, end)
                      = (filled \ touching) \cup {[start |-> lo, end |-> hi]}
               /\ \A r \in touching : lo <= r.start /\ r.end <= hi
  BY MergedRange
<1>2. lo \in 0 .. Total /\ hi \in 0 .. Total
  BY <1>1 DEF Ranges
<1>3. ASSUME NEW x \in lo .. hi - 1
      PROVE  x \in Readable(filled) \cup (start .. end - 1)
  <2>1. CASE x < start
    <3>1. PICK r \in touching : r.start = lo
      BY <1>1, <1>2, <2>1
    <3>2. r \in filled /\ x \in r.start .. r.end - 1
      BY <1>2, <2>1, <3>1 DEF Ranges
    <3> QED
      BY <3>2 DEF Readable
  <2>2. CASE end <= x
    <3>1. PICK r \in touching : r.end = hi
      BY <1>1, <1>2, <2>2
    <3>2. r \in filled /\ x \in r.start .. r.end - 1
      BY <1>2, <2>2, <3>1 DEF Ranges
    <3> QED
      BY <3>2 DEF Readable
  <2> QED
    BY <1>2, <2>1, <2>2
<1>4. ASSUME NEW x \in lo .. hi - 1
      PROVE  x \in Readable(MergeRange(filled, start, end))
  <2> DEFINE fused == [start |-> lo, end |-> hi]
  <2>1. fused \in MergeRange(filled, start, end)
    BY <1>1
  <2>2. fused.start = lo /\ fused.end = hi
    OBVIOUS
  <2> HIDE DEF fused
  <2> QED
    BY <2>1, <2>2, InReadable
<1>5. ASSUME NEW r \in filled, NEW x \in r.start .. r.end - 1
      PROVE  x \in Readable(MergeRange(filled, start, end))
  <2>1. CASE r \in touching
    <3>1. x \in lo .. hi - 1
      BY <1>1, <1>2, <2>1 DEF Ranges
    <3> QED
      BY <1>4, <3>1
  <2>2. CASE r \notin touching
    <3>1. r \in MergeRange(filled, start, end)
      BY <1>1, <2>2
    <3> QED
      BY <3>1, InReadable
  <2> QED
    BY <2>1, <2>2
<1>6. ASSUME NEW x \in Readable(MergeRange(filled, start, end))
      PROVE  x \in Readable(filled) \cup (start .. end - 1)
  <2>1. PICK r \in MergeRange(filled, start, end) : x \in r.start .. r.end - 1
    BY DEF Readable
  <2>2. CASE r \in filled
    BY <2>1, <2>2, InReadable
  <2>3. CASE r = [start |-> lo, end |-> hi]
    <3>1. x \in lo .. hi - 1
      BY <2>1, <2>3
    <3> QED
      BY <1>3, <3>1
  <2> QED
    BY <1>1, <2>1, <2>2, <2>3
<1>7. ASSUME NEW x \in Readable(filled) \cup (start .. end - 1)
      PROVE  x \in Readable(MergeRange(filled, start, end))
  <2>1. CASE x \in Readable(filled)
    <3>1. PICK r \in filled : x \in r.start .. r.end - 1
      BY <2>1 DEF Readable
    <3> QED
      BY <1>5, <3>1
  <2>2. CASE x \in start .. end - 1
    <3>1. x \in lo .. hi - 1
      BY <1>1, <1>2, <2>2
    <3> QED
      BY <1>4, <3>1
  <2> QED
    BY <2>1, <2>2
<1> QED
  BY <1>6, <1>7

\* One call of write() adds the bytes it carries.
LEMMA WrittenAdds ==
    ASSUME Cap >= Total,
           NEW b \in Buffers, Faithful(b),
           NEW offset \in 0 .. Total, NEW n \in 0 .. MaxWrite
    PROVE  Readable(Written(b, offset, n).filled)
               = Readable(b.filled)
                     \cup { x \in offset .. offset + n - 1 : x < Total }
<1> USE SizesAssumption
<1>1. CASE offset >= Total \/ n = 0
  <2>1. { x \in offset .. offset + n - 1 : x < Total } = {}
    BY <1>1
  <2> QED
    BY <1>1, <2>1 DEF Written
<1>2. CASE ~ (offset >= Total \/ n = 0)
  <2> DEFINE len == Clipped(offset, n)
  <2>1. offset \in Offsets /\ n \in 1 .. MaxWrite
    BY <1>2 DEF Offsets
  <2>2. len \in 1 .. Cap /\ offset + len <= Total
    BY <2>1, ClippedFits
  <2>3. Written(b, offset, n) = Store(WindowFor(b, offset, len), offset, len)
    BY <1>2 DEF Written
  <2>4. offset .. offset + len - 1 = { x \in offset .. offset + n - 1 : x < Total }
    BY <2>1 DEF Clipped, Lower, Offsets
  <2> HIDE DEF len
  <2>5. WindowFor(b, offset, len) = b
    BY <2>1, <2>2 DEF WindowFor, Offsets, Faithful
  <2>6. Written(b, offset, n).filled = MergeRange(b.filled, offset, offset + len)
    BY <2>3, <2>5 DEF Store
  <2>7. Readable(MergeRange(b.filled, offset, offset + len))
            = Readable(b.filled) \cup (offset .. offset + len - 1)
    <3> DEFINE f == b.filled
               e == offset + len
    <3>1. /\ f \in SUBSET Ranges
          /\ offset \in 0 .. Total /\ e \in 0 .. Total /\ offset < e
      BY <2>1, <2>2 DEF Buffers, Offsets
    <3>2. f = b.filled /\ e = offset + len
      OBVIOUS
    <3> HIDE DEF f, e
    <3>3. Readable(MergeRange(f, offset, e)) = Readable(f) \cup (offset .. e - 1)
      BY <3>1, MergeCovers
    <3>4. offset .. e - 1 = offset .. offset + len - 1
      BY <2>2, <3>1, <3>2
    <3> QED
      BY <3>2, <3>3, <3>4
  <2> QED
    BY <2>4, <2>6, <2>7
<1> QED
  BY <1>1, <1>2

\* A buffer that can hold the whole file implements a growing partial copy of
\* it: a write adds what it carries, and nothing but clear() takes bytes away.
THEOREM CopyTheorem == Cap >= Total /\ Spec => IsFileCopy
<1> SUFFICES ASSUME Cap >= Total
             PROVE  Spec => IsFileCopy
  OBVIOUS
<1>1. Init => Copy!Init
  BY DEF Init, EmptyBuffer, Readable, Copy!Init
<1>2. FaithfulInv /\ [Next]_vars => [Copy!Next]_(Readable(buf.filled))
  <2> SUFFICES ASSUME FaithfulInv, [Next]_vars
               PROVE  Copy!Next \/ UNCHANGED Readable(buf.filled)
    OBVIOUS
  <2>1. ASSUME NEW offset \in 0 .. Total, NEW n \in 0 .. MaxWrite, Write(offset, n)
        PROVE  Copy!Next
    <3>1. Copy!Add(offset, n)
      BY <2>1, WrittenAdds DEF Write, FaithfulInv, TypeOK, Copy!Add
    <3> QED
      BY <3>1 DEF Copy!Next
  <2>2. ASSUME NEW p \in PlayPositions, SetPlayPosition(p)
        PROVE  UNCHANGED Readable(buf.filled)
    BY <2>2 DEF SetPlayPosition
  <2>3. CASE Clear
    BY <2>3 DEF Clear, EmptyBuffer, Readable, Copy!Next, Copy!Clear
  <2>4. CASE UNCHANGED vars
    BY <2>4 DEF vars
  <2> QED
    BY <2>1, <2>2, <2>3, <2>4 DEF Next
<1>3. FaithfulInv /\ [Next]_vars => FaithfulInv'
  BY FaithfulStep
<1> QED
  BY FaithfulAtFirst, <1>1, <1>2, <1>3, PTL DEF Spec, IsFileCopy, Copy!Spec

-----------------------------------------------------------------------------
(* The gaps between the filled ranges.                                     *)

\* No range is empty, and two of them neither overlap nor touch.
Apart(filled) ==
    /\ \A r \in filled : r.start < r.end
    /\ \A r, q \in filled : r = q \/ r.end < q.start \/ q.end < r.start

\* Merging a range leaves gaps: what it touches is gone, and it grows no
\* further than what it touches.
LEMMA MergeApart ==
    ASSUME NEW filled \in SUBSET Ranges, Apart(filled),
           NEW start \in 0 .. Total, NEW end \in 0 .. Total, start < end
    PROVE  Apart(MergeRange(filled, start, end))
<1> USE SizesAssumption
<1> DEFINE touching == { r \in filled : r.start <= end /\ r.end >= start }
           m == MergeRange(filled, start, end)
<1>1. PICK lo \in {start} \cup { r.start : r \in touching },
           hi \in {end} \cup { r.end : r \in touching } :
               /\ lo <= start /\ end <= hi
               /\ m = (filled \ touching) \cup {[start |-> lo, end |-> hi]}
               /\ \A r \in touching : lo <= r.start /\ r.end <= hi
  BY MergedRange
<1> DEFINE fused == [start |-> lo, end |-> hi]
<1>2. lo \in 0 .. Total /\ hi \in 0 .. Total
  BY <1>1 DEF Ranges
<1>3. fused.start = lo /\ fused.end = hi
  OBVIOUS
<1>4. ASSUME NEW r \in filled, r \notin touching
      PROVE  r.end < lo \/ hi < r.start
  <2>1. /\ r.start \in 0 .. Total /\ r.end \in 0 .. Total /\ r.start < r.end
        /\ r.start > end \/ r.end < start
    BY <1>4 DEF Apart, Ranges
  <2>2. CASE r.start > end
    <3>1. CASE hi = end
      BY <2>2, <3>1
    <3>2. ASSUME NEW q \in touching, hi = q.end
          PROVE  hi < r.start
      <4>1. /\ q \in filled /\ q # r /\ q.start <= end
            /\ q.start \in 0 .. Total /\ q.end \in 0 .. Total
        BY <1>4, <3>2 DEF Ranges
      <4>2. q.end < r.start \/ r.end < q.start
        BY <4>1 DEF Apart
      <4> QED
        BY <2>1, <2>2, <3>2, <4>1, <4>2
    <3> QED
      BY <1>1, <3>1, <3>2
  <2>3. CASE r.end < start
    <3>1. CASE lo = start
      BY <2>3, <3>1
    <3>2. ASSUME NEW q \in touching, lo = q.start
          PROVE  r.end < lo
      <4>1. /\ q \in filled /\ q # r /\ q.end >= start
            /\ q.start \in 0 .. Total /\ q.end \in 0 .. Total
        BY <1>4, <3>2 DEF Ranges
      <4>2. q.end < r.start \/ r.end < q.start
        BY <4>1 DEF Apart
      <4> QED
        BY <2>1, <2>3, <3>2, <4>1, <4>2
    <3> QED
      BY <1>1, <3>1, <3>2
  <2> QED
    BY <2>1, <2>2, <2>3
<1>5. \A r \in m : r = fused \/ (r \in filled /\ r \notin touching)
  BY <1>1
<1> HIDE DEF m, fused, touching
<1>6. ASSUME NEW r \in m
      PROVE  r.start < r.end
  BY <1>1, <1>2, <1>3, <1>5 DEF Apart
<1>7. ASSUME NEW r \in m, NEW q \in m, r # q
      PROVE  r.end < q.start \/ q.end < r.start
  <2>1. CASE r \in filled /\ q \in filled
    BY <1>7, <2>1 DEF Apart
  <2>2. CASE r = fused
    BY <1>3, <1>4, <1>5, <1>7, <2>2
  <2>3. CASE q = fused
    BY <1>3, <1>4, <1>5, <1>7, <2>3
  <2> QED
    BY <1>5, <2>1, <2>2, <2>3
<1> QED
  BY <1>6, <1>7 DEF Apart, m

\* Moving the ranges down by k, and dropping what ends there, keeps the gaps.
LEMMA RebaseApart ==
    ASSUME NEW filled \in SUBSET Ranges, Apart(filled), NEW k \in Nat
    PROVE  Rebase(filled, k) \in SUBSET Ranges /\ Apart(Rebase(filled, k))
<1> USE SizesAssumption
<1> DEFINE down(q) == [start |-> SatSub(q.start, k), end |-> q.end - k]
           moved == Rebase(filled, k)
<1>1. ASSUME NEW q \in filled, q.end > k
      PROVE  /\ down(q) \in Ranges
             /\ down(q).start < down(q).end
             /\ down(q).end = q.end - k
             /\ down(q).start = IF q.start > k THEN q.start - k ELSE 0
  <2>1. q.start \in 0 .. Total /\ q.end \in 0 .. Total /\ q.start < q.end
    BY <1>1 DEF Ranges, Apart
  <2> QED
    BY <1>1, <2>1 DEF Ranges, SatSub
<1>2. \A r \in moved : \E q \in filled : q.end > k /\ r = down(q)
  BY DEF Rebase
<1> HIDE DEF down, moved
<1>3. ASSUME NEW r \in moved, NEW s \in moved, r # s
      PROVE  r.end < s.start \/ s.end < r.start
  <2>1. PICK q \in filled : q.end > k /\ r = down(q)
    BY <1>2
  <2>2. PICK t \in filled : t.end > k /\ s = down(t)
    BY <1>2
  <2>3. q.end < t.start \/ t.end < q.start
    BY <1>3, <2>1, <2>2 DEF Apart
  <2>4. /\ q.start \in Nat /\ q.end \in Nat /\ t.start \in Nat /\ t.end \in Nat
    BY DEF Ranges
  <2>5. /\ r.end = q.end - k /\ s.end = t.end - k
        /\ r.start = IF q.start > k THEN q.start - k ELSE 0
        /\ s.start = IF t.start > k THEN t.start - k ELSE 0
    BY <1>1, <2>1, <2>2
  <2> QED
    BY <2>1, <2>2, <2>3, <2>4, <2>5
<1>4. \A r \in moved : r \in Ranges /\ r.start < r.end
  BY <1>1, <1>2
<1> QED
  BY <1>3, <1>4 DEF Apart, moved

\* Both slides keep the gaps.
LEMMA SlideToApart ==
    ASSUME NEW b \in Buffers, Apart(b.filled), NEW newBase \in 0 .. Total
    PROVE  Apart(SlideTo(b, newBase).filled)
<1> USE SizesAssumption
<1>1. b.base \in 0 .. Total /\ b.filled \in SUBSET Ranges
  BY DEF Buffers
<1>2. Apart({})
  BY DEF Apart
<1>3. CASE newBase = b.base
  BY <1>3 DEF SlideTo
<1>4. CASE newBase < b.base
  <2>1. SlideTo(b, newBase).filled =
            IF b.base - newBase >= Cap THEN {} ELSE Rebase(b.filled, b.base - newBase)
    BY <1>4 DEF SlideTo, SlideBack
  <2>2. b.base - newBase \in Nat
    BY <1>1, <1>4
  <2>3. Apart(Rebase(b.filled, b.base - newBase))
    BY <1>1, <2>2, RebaseApart
  <2> QED
    BY <1>2, <2>1, <2>3
<1>5. CASE newBase > b.base
  <2> DEFINE kept == IF newBase - b.base >= Cap THEN {} ELSE b.filled
             visible == { r \in Rebase(kept, newBase) : r.start < Cap }
             cut == { [start |-> r.start, end |-> Lower(r.end, Cap)] : r \in visible }
  <2>1. SlideTo(b, newBase).filled = cut
    BY <1>1, <1>5 DEF SlideTo, SlideForward
  <2>2. Rebase(kept, newBase) \in SUBSET Ranges /\ Apart(Rebase(kept, newBase))
    <3>1. kept \in SUBSET Ranges /\ Apart(kept)
      BY <1>1, <1>2
    <3> HIDE DEF kept
    <3> QED
      BY <3>1, RebaseApart
  <2> DEFINE moved == Rebase(kept, newBase)
  <2>3. \A r \in moved : /\ r.start \in Nat /\ r.end \in Nat /\ r.start < r.end
    BY <2>2 DEF Ranges, Apart
  <2>4. \A r \in cut : \E q \in moved :
           q.start < Cap /\ r.start = q.start /\ r.end = Lower(q.end, Cap)
                         /\ r = [start |-> q.start, end |-> Lower(q.end, Cap)]
    OBVIOUS
  <2> HIDE DEF cut, moved, visible, kept
  <2>5. ASSUME NEW r \in cut
        PROVE  r.start < r.end
    BY <2>3, <2>4 DEF Lower
  <2>6. ASSUME NEW r \in cut, NEW s \in cut, r # s
        PROVE  r.end < s.start \/ s.end < r.start
    <3>1. PICK q \in moved : /\ r.start = q.start /\ r.end = Lower(q.end, Cap)
                             /\ r = [start |-> q.start, end |-> Lower(q.end, Cap)]
      BY <2>4
    <3>2. PICK t \in moved : /\ s.start = t.start /\ s.end = Lower(t.end, Cap)
                             /\ s = [start |-> t.start, end |-> Lower(t.end, Cap)]
      BY <2>4
    <3>3. q.end < t.start \/ t.end < q.start
      BY <2>2, <2>6, <3>1, <3>2 DEF Apart, moved
    <3> QED
      BY <2>3, <3>1, <3>2, <3>3 DEF Lower
  <2> QED
    BY <2>1, <2>5, <2>6 DEF Apart
<1> QED
  BY <1>1, <1>3, <1>4, <1>5

\* One call of write() keeps the gaps.
LEMMA WrittenApart ==
    ASSUME NEW b \in Buffers, Apart(b.filled),
           NEW offset \in 0 .. Total, NEW n \in 0 .. MaxWrite
    PROVE  Apart(Written(b, offset, n).filled)
<1> USE SizesAssumption
<1>1. CASE offset >= Total \/ n = 0
  BY <1>1 DEF Written
<1>2. CASE ~ (offset >= Total \/ n = 0)
  <2> DEFINE len == Clipped(offset, n)
             b1 == IF offset < b.base THEN SlideTo(b, offset) ELSE b
             target == Lower(SatSub(offset + len, Cap), SatSub(Total, Cap))
             w == WindowFor(b, offset, len)
  <2>1. offset \in Offsets /\ n \in 1 .. MaxWrite
    BY <1>2 DEF Offsets
  <2>2. len \in 1 .. Cap /\ offset + len <= Total
    BY <2>1, ClippedFits
  <2>3. Written(b, offset, n).filled = MergeRange(w.filled, offset, offset + len)
    BY <1>2 DEF Written, Store
  <2>4. w = IF offset + len > b1.base + Cap THEN SlideTo(b1, target) ELSE b1
    BY DEF WindowFor
  <2> HIDE DEF len
  <2>5. w \in Buffers
    BY <2>1, <2>2, WindowForHolds
  <2>6. b1 \in Buffers /\ Apart(b1.filled)
    BY SlideToKeeps, SlideToApart
  <2>7. target \in 0 .. Total
    BY <2>1, <2>2 DEF Lower, SatSub, Offsets
  <2> HIDE DEF b1, target, w
  <2>8. Apart(w.filled)
    BY <2>4, <2>6, <2>7, SlideToApart
  <2>9. w.filled \in SUBSET Ranges
    BY <2>5 DEF Buffers
  <2> DEFINE end == offset + len
             f == w.filled
  <2>10. end \in 0 .. Total /\ offset < end
    BY <2>1, <2>2 DEF Offsets
  <2> HIDE DEF end, f
  <2>11. Apart(MergeRange(f, offset, end))
    BY <2>8, <2>9, <2>10, MergeApart DEF f
  <2> QED
    BY <2>3, <2>11 DEF end, f
<1> QED
  BY <1>1, <1>2

-----------------------------------------------------------------------------
(* The sum that filled_after() takes.                                      *)

\* The bytes of a range that lie at or behind p, how many the code counts for
\* it, and the bytes of a set of ranges.
Behind(r, p) == { x \in r.start .. r.end - 1 : x >= p }
Counted(r, p) == IF r.start >= p THEN r.end - r.start
                 ELSE IF r.end > p THEN r.end - p ELSE 0
Covered(s, p) == UNION { Behind(r, p) : r \in s }

\* The sum over s, from the sums over smaller sets.
SumOf(s, g, p) == IF s = {} THEN 0 ELSE Counted(Some(s), p) + g[s \ {Some(s)}]

AddsUp(g, S, p) == g = [s \in SUBSET S |-> SumOf(s, g, p)]

LEMMA FilledAfterAdds ==
    ASSUME NEW b, NEW p
    PROVE  FilledAfter(b, p) = (CHOOSE g : AddsUp(g, b.filled, p))[b.filled]
  BY DEF FilledAfter, MapThenSumSet, MapThenFoldSet, AddsUp, SumOf, Some, Counted

\* The sums over the subsets of a finite set of ranges exist.
LEMMA SumExists ==
    ASSUME NEW S \in SUBSET Ranges, IsFiniteSet(S), NEW p \in Nat
    PROVE  \E g : AddsUp(g, S, p)
<1> DEFINE pick == [s \in SUBSET S |-> Some(s)]
           step == [r \in S |-> [n \in Int |-> Counted(r, p) + n]]
<1>1. Picks(S, pick)
  BY DEF Picks, Some
<1>2. step \in [S -> [Int -> Int]]
  <2>1. \A r \in S : Counted(r, p) \in Int
    BY SizesAssumption DEF Counted, Ranges
  <2> QED
    BY <2>1
<1>3. \E g : Folds(S, Int, pick, step, 0, g)
  <2> DEFINE V == Int
  <2>1. 0 \in V /\ step \in [S -> [V -> V]]
    BY <1>2
  <2>2. \E g : Folds(S, V, pick, step, 0, g)
    <3> HIDE DEF pick, step, V
    <3> QED
      BY <1>1, <2>1, FoldExists
  <2> QED
    BY <2>2
<1>4. PICK g : Folds(S, Int, pick, step, 0, g)
  BY <1>3
<1>5. ASSUME NEW s \in SUBSET S
      PROVE  g[s] = SumOf(s, g, p)
  <2>1. g[s] = FoldOf(pick, step, 0, g, s)
    BY <1>4 DEF Folds
  <2>2. CASE s = {}
    BY <2>1, <2>2 DEF FoldOf, SumOf
  <2>3. CASE s # {}
    <3>1. Some(s) \in S /\ s \ {Some(s)} \in SUBSET S /\ pick[s] = Some(s)
      BY <2>3 DEF Some
    <3>2. g[s \ {Some(s)}] \in Int
      BY <1>4, <3>1 DEF Folds
    <3>3. step[Some(s)][g[s \ {Some(s)}]] = Counted(Some(s), p) + g[s \ {Some(s)}]
      BY <3>1, <3>2
    <3> QED
      BY <2>1, <2>3, <3>1, <3>3 DEF FoldOf, SumOf
  <2> QED
    BY <2>2, <2>3
<1>6. g = [s \in SUBSET S |-> g[s]]
  BY <1>4 DEF Folds
<1>7. AddsUp(g, S, p)
  BY <1>5, <1>6 DEF AddsUp
<1> QED
  BY <1>7

\* A range counts as many bytes as it has behind p.
LEMMA CountedIsCardinality ==
    ASSUME NEW r \in Ranges, r.start < r.end, NEW p \in Nat
    PROVE  /\ IsFiniteSet(Behind(r, p)) /\ Counted(r, p) \in Nat
           /\ Cardinality(Behind(r, p)) = Counted(r, p)
<1> USE SizesAssumption
<1>1. r.start \in Nat /\ r.end \in Nat
  BY DEF Ranges
<1> DEFINE from == IF r.start >= p THEN r.start ELSE p
<1>2. Behind(r, p) = from .. r.end - 1
  BY <1>1 DEF Behind
<1>3. from \in Int /\ r.end - 1 \in Int
  BY <1>1
<1>4. Counted(r, p) = IF from > r.end - 1 THEN 0 ELSE (r.end - 1) - from + 1
  BY <1>1 DEF Counted
<1>5. Counted(r, p) \in Nat
  BY <1>1 DEF Counted
<1> HIDE DEF from
<1> QED
  BY <1>2, <1>3, <1>4, <1>5, FS_Interval

\* What lies behind p is not much.
LEMMA CoveredBounded ==
    ASSUME NEW s \in SUBSET Ranges, NEW p \in 0 .. Total
    PROVE  /\ IsFiniteSet(Covered(s, p)) /\ Cardinality(Covered(s, p)) \in Nat
           /\ Cardinality(Covered(s, p)) <= Total - p
<1> USE SizesAssumption
<1>1. Covered(s, p) \in SUBSET (p .. Total - 1)
  BY DEF Covered, Behind, Ranges
<1>2. /\ IsFiniteSet(p .. Total - 1)
      /\ Cardinality(p .. Total - 1) = Total - p
  <2>1. p \in Int /\ Total - 1 \in Int
    OBVIOUS
  <2>2. /\ IsFiniteSet(p .. Total - 1)
        /\ Cardinality(p .. Total - 1) = IF p > Total - 1 THEN 0 ELSE (Total - 1) - p + 1
    BY <2>1, FS_Interval
  <2> QED
    BY <2>2
<1>3. /\ IsFiniteSet(Covered(s, p))
      /\ Cardinality(Covered(s, p)) <= Cardinality(p .. Total - 1)
  BY <1>1, <1>2, FS_Subset
<1> QED
  BY <1>2, <1>3, FS_CardinalityType

\* Ranges with gaps between them count each byte once.
LEMMA SumIsCardinality ==
    ASSUME NEW S \in SUBSET Ranges, IsFiniteSet(S), Apart(S),
           NEW p \in 0 .. Total, NEW g, AddsUp(g, S, p)
    PROVE  g[S] = Cardinality(Covered(S, p))
<1> USE SizesAssumption
<1>2. \A s \in SUBSET S : g[s] = SumOf(s, g, p)
  <2>1. g = [s \in SUBSET S |-> SumOf(s, g, p)]
    BY DEF AddsUp
  <2> QED
    BY <2>1
<1>3. ASSUME NEW s \in SUBSET S,
             \A t \in SUBSET S : Cardinality(t) < Cardinality(s)
                                     => g[t] = Cardinality(Covered(t, p))
      PROVE  g[s] = Cardinality(Covered(s, p))
  <2>1. CASE s = {}
    <3>1. Covered(s, p) = {}
      BY <2>1 DEF Covered
    <3> QED
      BY <1>2, <2>1, <3>1, FS_EmptySet DEF SumOf
  <2>2. CASE s # {}
    <3> DEFINE x == Some(s)
               t == s \ {x}
    <3>1. /\ x \in s /\ t \in SUBSET S /\ Cardinality(s) \in Nat
          /\ Cardinality(t) = Cardinality(s) - 1
      <4>1. x \in s
        BY <2>2 DEF Some
      <4> QED
        BY <4>1, OneLess
    <3>2. g[s] = Counted(x, p) + g[t]
      BY <1>2, <2>2 DEF SumOf
    <3> HIDE DEF x
    <3>3. g[t] = Cardinality(Covered(t, p))
      BY <1>3, <3>1
    <3>4. Covered(s, p) = Behind(x, p) \cup Covered(t, p)
      BY <3>1 DEF Covered
    <3>5. Behind(x, p) \cap Covered(t, p) = {}
      <4> SUFFICES ASSUME NEW y \in Behind(x, p), NEW r \in t, y \in Behind(r, p)
                   PROVE  FALSE
        BY DEF Covered
      <4>1. x \in S /\ r \in S /\ x # r
        BY <3>1
      <4>2. r.end < x.start \/ x.end < r.start
        BY <4>1 DEF Apart
      <4>3. /\ x.start \in Nat /\ x.end \in Nat /\ r.start \in Nat /\ r.end \in Nat
        BY <4>1 DEF Ranges
      <4> QED
        BY <4>2, <4>3 DEF Behind
    <3>6. /\ IsFiniteSet(Behind(x, p)) /\ Counted(x, p) \in Nat
          /\ Cardinality(Behind(x, p)) = Counted(x, p)
      <4>1. x \in Ranges /\ x.start < x.end /\ p \in Nat
        BY <3>1 DEF Apart
      <4> QED
        BY <4>1, CountedIsCardinality
    <3>7. IsFiniteSet(Covered(t, p)) /\ Cardinality(Covered(t, p)) \in Nat
      <4>1. t \in SUBSET Ranges
        BY <3>1
      <4> QED
        BY <4>1, CoveredBounded
    <3> DEFINE A == Behind(x, p)
               B == Covered(t, p)
    <3>8. Cardinality(A \cup B) = Cardinality(A) + Cardinality(B) - Cardinality(A \cap B)
      BY <3>6, <3>7, FS_Union
    <3>9. Cardinality(A \cap B) = 0
      BY <3>5, FS_EmptySet
    <3> QED
      BY <3>2, <3>3, <3>4, <3>6, <3>7, <3>8, <3>9
  <2> QED
    BY <2>1, <2>2
<1> DEFINE Good == {s \in SUBSET S : g[s] = Cardinality(Covered(s, p))}
           F == SUBSET S
<1>4. \A s \in F : (\A t \in F : Cardinality(t) < Cardinality(s) => t \in Good)
                        => s \in Good
  BY <1>3
<1>5. F \subseteq Good
  <2> HIDE DEF Good
  <2>1. F \in SUBSET SUBSET S
    OBVIOUS
  <2> HIDE DEF F
  <2> QED
    BY <1>4, <2>1, SmallerFirst
<1> QED
  BY <1>5

\* There are only so many ranges.
LEMMA RangesFinite ==
    ASSUME NEW filled \in SUBSET Ranges
    PROVE  IsFiniteSet(filled)
<1> USE SizesAssumption
<1> DEFINE A == 0 .. Total
           pair == [x \in A \X A |-> [start |-> x[1], end |-> x[2]]]
<1>1. IsFiniteSet(A)
  BY FS_Interval
<1>2. IsFiniteSet(A \X A)
  BY <1>1, FS_Product
<1>3. pair \in Surjection(A \X A, Ranges)
  <2>1. pair \in [A \X A -> Ranges]
    BY DEF Ranges
  <2>2. ASSUME NEW r \in Ranges
        PROVE  \E x \in A \X A : pair[x] = r
    <3> DEFINE x == <<r.start, r.end>>
    <3>1. r = [start |-> r.start, end |-> r.end] /\ x \in A \X A
      BY DEF Ranges
    <3>2. pair[x] = r
      BY <3>1
    <3> QED
      BY <3>1, <3>2
  <2> QED
    BY <2>1, <2>2 DEF Surjection
<1> QED
  BY <1>2, <1>3, FS_Surjection, FS_Subset

\* The gaps are all that the count needs.
LEMMA ApartAddsUp ==
    ASSUME NEW b \in Buffers, Apart(b.filled), NEW p \in 0 .. Total
    PROVE  FilledAfter(b, p) <= Total - p
<1> DEFINE S == b.filled
           g == CHOOSE g : AddsUp(g, S, p)
<1>1. S \in SUBSET Ranges
  BY DEF Buffers
<1>2. IsFiniteSet(S)
  BY <1>1, RangesFinite
<1>3. AddsUp(g, S, p)
  <2>1. p \in Nat
    BY SizesAssumption
  <2> QED
    BY <1>1, <1>2, <2>1, SumExists
<1>4. FilledAfter(b, p) = g[S]
  BY FilledAfterAdds
<1>5. Apart(S)
  OBVIOUS
<1> HIDE DEF g, S
<1>6. g[S] = Cardinality(Covered(S, p))
  BY <1>1, <1>2, <1>3, <1>5, SumIsCardinality
<1> QED
  BY <1>1, <1>4, <1>6, CoveredBounded

-----------------------------------------------------------------------------
(* The loop of merge_range.                                                 *)

\* What the loop has made of the ranges in s, from what it made of the others.
LoopOf(first, s, g) == IF s = {} THEN first ELSE Fused(Latest(s), g[s \ {Latest(s)}])

Loops(g, filled, first) == g = [s \in SUBSET filled |-> LoopOf(first, s, g)]

NewRange(start, end) == [start |-> start, end |-> end, gone |-> {}]

LEMMA MergeLoopFolds ==
    ASSUME NEW filled, NEW start, NEW end
    PROVE  LET pass == (CHOOSE g : Loops(g, filled, NewRange(start, end)))[filled]
           IN  MergeLoop(filled, start, end) =
                  (filled \ pass.gone) \cup {[start |-> pass.start, end |-> pass.end]}
  BY DEF MergeLoop, MapThenFoldSet, Loops, LoopOf, NewRange

\* The last range is one of them.
LEMMA LatestOne ==
    ASSUME NEW s \in SUBSET Ranges, s # {}
    PROVE  Latest(s) \in s
<1> DEFINE starts == {r.start : r \in s}
<1>1. starts \in SUBSET (0 .. Total) /\ starts # {} /\ Total \in Nat
  BY SizesAssumption DEF Ranges
<1>2. Max(starts) \in starts /\ \A x \in starts : x <= Max(starts)
  <2> HIDE DEF starts
  <2> QED
    BY <1>1, MaxOfBounded
<1>3. PICK r \in s : r.start = Max(starts)
  BY <1>2
<1>4. \A q \in s : q.start <= r.start
  BY <1>2, <1>3
<1> QED
  BY <1>4 DEF Latest

\* One pass takes out what touches the new range and grows over that: what it
\* has grown to meets no range the new one does not touch, since there are gaps.
Grows(filled, start, end, s, acc) ==
    LET gone == {r \in s : r.start <= end /\ r.end >= start} IN
    /\ acc.gone = gone
    /\ acc.start <= start /\ \A r \in gone : acc.start <= r.start
    /\ acc.start = start \/ \E r \in gone : acc.start = r.start
    /\ acc.end >= end /\ \A r \in gone : acc.end >= r.end
    /\ acc.end = end \/ \E r \in gone : acc.end = r.end

Grown(filled) == [start : 0 .. Total, end : 0 .. Total, gone : SUBSET filled]

LEMMA FusedGrows ==
    ASSUME NEW filled \in SUBSET Ranges, Apart(filled),
           NEW start \in 0 .. Total, NEW end \in 0 .. Total, start < end,
           NEW s \in SUBSET filled, NEW x \in s, NEW acc \in Grown(filled),
           Grows(filled, start, end, s \ {x}, acc)
    PROVE  Grows(filled, start, end, s, Fused(x, acc))
<1> USE SizesAssumption
<1> DEFINE others == {r \in s \ {x} : r.start <= end /\ r.end >= start}
           gone == {r \in s : r.start <= end /\ r.end >= start}
<1>1. /\ x.start \in 0 .. Total /\ x.end \in 0 .. Total /\ x.start < x.end
      /\ acc.start \in 0 .. Total /\ acc.end \in 0 .. Total
  BY DEF Ranges, Apart, Grown
<1>2. /\ acc.gone = others
      /\ acc.start <= start /\ \A r \in others : acc.start <= r.start
      /\ acc.start = start \/ \E r \in others : acc.start = r.start
      /\ acc.end >= end /\ \A r \in others : acc.end >= r.end
      /\ acc.end = end \/ \E r \in others : acc.end = r.end
  BY DEF Grows
<1>3. ASSUME NEW r \in others
      PROVE  /\ r.start \in 0 .. Total /\ r.end \in 0 .. Total /\ r.start < r.end
             /\ r.start <= end /\ r.end >= start
             /\ r.end < x.start \/ x.end < r.start
  BY <1>3 DEF Ranges, Apart
<1>4. ASSUME x.start <= acc.end, x.end >= acc.start
      PROVE  x.start <= end /\ x.end >= start
  <2>1. CASE x.start > end
    <3>1. PICK r \in others : acc.end = r.end
      BY <1>1, <1>2, <1>4, <2>1
    <3> QED
      BY <1>1, <1>3, <1>4, <2>1, <3>1
  <2>2. CASE x.end < start
    <3>1. PICK r \in others : acc.start = r.start
      BY <1>1, <1>2, <1>4, <2>2
    <3> QED
      BY <1>1, <1>3, <1>4, <2>2, <3>1
  <2> QED
    BY <1>1, <2>1, <2>2
<1>5. CASE x.start <= end /\ x.end >= start
  <2>1. x.start <= acc.end /\ x.end >= acc.start
    BY <1>1, <1>2, <1>5
  <2> DEFINE new == Fused(x, acc)
  <2>2. /\ new.gone = acc.gone \cup {x}
        /\ new.start = IF acc.start < x.start THEN acc.start ELSE x.start
        /\ new.end = IF x.end > acc.end THEN x.end ELSE acc.end
    BY <2>1 DEF Fused, Lower
  <2>3. gone = others \cup {x}
    BY <1>5
  <2> HIDE DEF new, gone, others
  <2>4. new.start <= start /\ \A r \in gone : new.start <= r.start
    BY <1>1, <1>2, <1>3, <2>2, <2>3
  <2>5. new.start = start \/ \E r \in gone : new.start = r.start
    BY <1>1, <1>2, <2>2, <2>3
  <2>6. new.end >= end /\ \A r \in gone : new.end >= r.end
    BY <1>1, <1>2, <1>3, <2>2, <2>3
  <2>7. new.end = end \/ \E r \in gone : new.end = r.end
    BY <1>1, <1>2, <2>2, <2>3
  <2> QED
    BY <1>2, <2>2, <2>3, <2>4, <2>5, <2>6, <2>7 DEF Grows, gone, new
<1>6. CASE ~ (x.start <= end /\ x.end >= start)
  <2>1. Fused(x, acc) = acc
    BY <1>4, <1>6 DEF Fused
  <2>2. gone = others
    BY <1>6
  <2> QED
    BY <2>1, <2>2 DEF Grows
<1> QED
  BY <1>5, <1>6

LEMMA FusedInGrown ==
    ASSUME NEW filled \in SUBSET Ranges, NEW x \in filled, NEW acc \in Grown(filled)
    PROVE  Fused(x, acc) \in Grown(filled)
  BY SizesAssumption DEF Fused, Lower, Grown, Ranges

\* What the loop makes of each part of the ranges.
LEMMA LoopExists ==
    ASSUME NEW filled \in SUBSET Ranges, IsFiniteSet(filled),
           NEW first \in Grown(filled)
    PROVE  \E g : Loops(g, filled, first)
<1> DEFINE V == Grown(filled)
           pick == [s \in SUBSET filled |-> Latest(s)]
           step == [r \in filled |-> [acc \in V |-> Fused(r, acc)]]
<1>1. Picks(filled, pick)
  BY LatestOne DEF Picks
<1>2. step \in [filled -> [V -> V]]
  BY FusedInGrown
<1>3. \E g : Folds(filled, V, pick, step, first, g)
  <2> HIDE DEF pick, step, V
  <2>1. first \in V
    BY DEF V
  <2> QED
    BY <1>1, <1>2, <2>1, FoldExists
<1>4. PICK g : Folds(filled, V, pick, step, first, g)
  BY <1>3
<1>5. ASSUME NEW s \in SUBSET filled
      PROVE  g[s] = LoopOf(first, s, g)
  <2>1. g[s] = FoldOf(pick, step, first, g, s)
    BY <1>4 DEF Folds
  <2>2. CASE s = {}
    BY <2>1, <2>2 DEF FoldOf, LoopOf
  <2>3. CASE s # {}
    <3> DEFINE x == Latest(s)
    <3>1. x \in filled /\ s \ {x} \in SUBSET filled /\ pick[s] = x
      BY <2>3, LatestOne
    <3>2. g[s \ {x}] \in V
      BY <1>4, <3>1 DEF Folds
    <3>3. step[x][g[s \ {x}]] = Fused(x, g[s \ {x}])
      BY <3>1, <3>2
    <3> QED
      BY <2>1, <2>3, <3>1, <3>3 DEF FoldOf, LoopOf
  <2> QED
    BY <2>2, <2>3
<1>6. g \in [SUBSET filled -> V]
  BY <1>4 DEF Folds
<1>7. Loops(g, filled, first)
  BY <1>5, <1>6 DEF Loops
<1> QED
  BY <1>7

\* After the pass over all ranges the new one has grown over what it touches.
LEMMA LoopGrows ==
    ASSUME NEW filled \in SUBSET Ranges, IsFiniteSet(filled), Apart(filled),
           NEW start \in 0 .. Total, NEW end \in 0 .. Total, start < end,
           NEW g, Loops(g, filled, NewRange(start, end))
    PROVE  g[filled] \in Grown(filled) /\ Grows(filled, start, end, filled, g[filled])
<1> DEFINE first == NewRange(start, end)
           Good == {s \in SUBSET filled :
                       g[s] \in Grown(filled) /\ Grows(filled, start, end, s, g[s])}
           F == SUBSET filled
<1>1. \A s \in SUBSET filled : g[s] = LoopOf(first, s, g)
  <2>1. g = [s \in SUBSET filled |-> LoopOf(first, s, g)]
    BY DEF Loops
  <2> QED
    BY <2>1
<1>2. ASSUME NEW s \in F, \A t \in F : Cardinality(t) < Cardinality(s) => t \in Good
      PROVE  s \in Good
  <2>1. CASE s = {}
    <3>1. g[s] = first
      BY <1>1, <2>1 DEF LoopOf
    <3>2. Grows(filled, start, end, s, first)
      BY <2>1 DEF Grows, NewRange
    <3>3. first \in Grown(filled)
      BY SizesAssumption DEF Grown, NewRange
    <3> QED
      BY <3>1, <3>2, <3>3
  <2>2. CASE s # {}
    <3> DEFINE x == Latest(s)
               t == s \ {x}
    <3>1. x \in s
      BY <2>2, LatestOne
    <3>2. g[s] = Fused(x, g[t])
      BY <1>1, <2>2 DEF LoopOf
    <3> HIDE DEF x
    <3>3. t \in F /\ Cardinality(t) = Cardinality(s) - 1 /\ Cardinality(s) \in Nat
      BY <3>1, OneLess
    <3>4. Grows(filled, start, end, t, g[t]) /\ g[t] \in Grown(filled)
      BY <1>2, <3>3
    <3>5. Grows(filled, start, end, s, Fused(x, g[t]))
      BY <3>1, <3>4, FusedGrows
    <3>6. Fused(x, g[t]) \in Grown(filled)
      BY <3>1, <3>4, FusedInGrown
    <3> QED
      BY <3>2, <3>5, <3>6
  <2> QED
    BY <2>1, <2>2
<1>3. F \in SUBSET SUBSET filled
  OBVIOUS
<1>4. F \subseteq Good
  <2> HIDE DEF Good, F
  <2> QED
    BY <1>2, <1>3, SmallerFirst
<1> QED
  BY <1>4

\* The loop finds the least start and the greatest end.
LEMMA LoopIsMerge ==
    ASSUME NEW filled \in SUBSET Ranges, Apart(filled),
           NEW start \in 0 .. Total, NEW end \in 0 .. Total, start < end
    PROVE  MergeLoop(filled, start, end) = MergeRange(filled, start, end)
<1> USE SizesAssumption
<1> DEFINE touching == {r \in filled : r.start <= end /\ r.end >= start}
           first == NewRange(start, end)
           all == CHOOSE g : Loops(g, filled, first)
           pass == all[filled]
<1>1. IsFiniteSet(filled)
  BY RangesFinite
<1>2. first \in Grown(filled)
  BY DEF Grown, NewRange
<1>3. \E g : Loops(g, filled, first)
  <2> HIDE DEF first
  <2> QED
    BY <1>1, <1>2, LoopExists
<1>4. Loops(all, filled, first)
  <2> HIDE DEF first
  <2> QED
    BY <1>3
<1>5. Grows(filled, start, end, filled, pass) /\ pass \in Grown(filled)
  <2> HIDE DEF all
  <2> QED
    BY <1>1, <1>4, LoopGrows
<1>6. MergeLoop(filled, start, end) =
          (filled \ touching) \cup {[start |-> pass.start, end |-> pass.end]}
  BY <1>5, MergeLoopFolds DEF Grows
<1>7. PICK lo \in {start} \cup { r.start : r \in touching },
           hi \in {end} \cup { r.end : r \in touching } :
               /\ lo <= start /\ end <= hi
               /\ MergeRange(filled, start, end) =
                     (filled \ touching) \cup {[start |-> lo, end |-> hi]}
               /\ \A r \in touching : lo <= r.start /\ r.end <= hi
  BY MergedRange
<1> HIDE DEF all
<1>8. pass.start = lo /\ pass.end = hi
  <2>1. /\ lo \in Nat /\ hi \in Nat /\ pass.start \in Nat /\ pass.end \in Nat
    BY <1>5, <1>7 DEF Grown, Ranges
  <2>2. /\ pass.start <= start /\ \A r \in touching : pass.start <= r.start
        /\ pass.start = start \/ \E r \in touching : pass.start = r.start
        /\ pass.end >= end /\ \A r \in touching : pass.end >= r.end
        /\ pass.end = end \/ \E r \in touching : pass.end = r.end
    BY <1>5 DEF Grows
  <2>3. pass.start <= lo /\ hi <= pass.end
    BY <1>7, <2>1, <2>2
  <2>4. lo <= pass.start /\ pass.end <= hi
    BY <1>7, <2>1, <2>2
  <2> QED
    BY <2>1, <2>3, <2>4
<1> QED
  BY <1>6, <1>7, <1>8

\* The filled ranges keep their gaps through every write and slide.
LEMMA GapsStay == Spec => [](TypeOK /\ Apart(buf.filled))
<1> DEFINE Inv == TypeOK /\ Apart(buf.filled)
<1>1. Init => Inv
  BY EmptyBufferHolds DEF Init, TypeOK, Apart, EmptyBuffer
<1>2. Inv /\ TypeOK' /\ [Next]_vars => Inv'
  <2> SUFFICES ASSUME Inv, TypeOK', [Next]_vars
               PROVE  Apart(buf'.filled)
    BY DEF Apart
  <2>1. ASSUME NEW offset \in 0 .. Total, NEW n \in 0 .. MaxWrite, Write(offset, n)
        PROVE  Apart(buf'.filled)
    BY <2>1, WrittenApart DEF Write, TypeOK
  <2>2. ASSUME NEW p \in PlayPositions, SetPlayPosition(p)
        PROVE  Apart(buf'.filled)
    BY <2>2 DEF SetPlayPosition
  <2>3. CASE Clear
    BY <2>3 DEF Clear, EmptyBuffer, Apart
  <2>4. CASE UNCHANGED vars
    BY <2>4 DEF vars
  <2> QED
    BY <2>1, <2>2, <2>3, <2>4 DEF Next
<1>3. Spec => []TypeOK
  BY TypeTheorem
<1> QED
  BY <1>1, <1>2, <1>3, PTL DEF Spec

\* The filled ranges never overlap or touch, and so the bytes that
\* buffered_duration() counts are bytes of the file, each once, for every
\* capacity, file size and length of the writes.
THEOREM RangesTheorem == Spec => []RangesAddUp
<1> DEFINE Inv == TypeOK /\ Apart(buf.filled)
<1>1. Inv => RangesAddUp
  <2> SUFFICES ASSUME Inv
               PROVE  RangesAddUp
    OBVIOUS
  <2>1. playPos <= Total => playPos \in 0 .. Total
    BY SizesAssumption DEF TypeOK
  <2> QED
    BY <2>1, ApartAddsUp DEF RangesAddUp, Apart, TypeOK
<1> QED
  BY <1>1, GapsStay, PTL

\* The loop of merge_range is the one step the model takes for it, in every
\* buffer that writes can make and for every range that fits the file.
THEOREM LoopTheorem == Spec => []MergeLoopAgrees
<1>1. TypeOK /\ Apart(buf.filled) => MergeLoopAgrees
  <2> SUFFICES ASSUME TypeOK, Apart(buf.filled),
                      NEW start \in Offsets, NEW end \in start + 1 .. Total
               PROVE  MergeLoop(buf.filled, start, end) = MergeRange(buf.filled, start, end)
    BY DEF MergeLoopAgrees
  <2>1. /\ buf.filled \in SUBSET Ranges
        /\ start \in 0 .. Total /\ end \in 0 .. Total /\ start < end
    BY SizesAssumption DEF TypeOK, Buffers, Offsets
  <2> QED
    BY <2>1, LoopIsMerge
<1> QED
  BY <1>1, GapsStay, PTL
=============================================================================
