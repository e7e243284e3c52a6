----------------------------- MODULE RingBuffer -----------------------------
(***************************************************************************)
(* The sliding window a stream downloads into                              *)
(* (crates/qvs-stream/src/buffer.rs).  One unit of this model is one byte. *)
(* A cell of `data` holds the FILE offset of the byte stored in it, or     *)
(* Zero for a zero-filled cell, so "the buffer returned the right bytes"   *)
(* is a statement about offsets.  write() is always called with the bytes  *)
(* of the source at `offset` (the three download loops of engine.rs).      *)
(***************************************************************************)
EXTENDS Integers, FiniteSets, Sequences, FiniteSetsExt

CONSTANTS
    Cap,       \* RingBuffer.capacity
    Total,     \* RingBuffer.total_size, the size of the file
    MaxWrite,  \* longest slice passed to write()
    PlayPositions  \* arguments of set_play_position()

ASSUME SizesAssumption ==
    /\ Cap \in Nat \ {0}
    /\ Total \in Nat \ {0}
    /\ MaxWrite \in Nat \ {0}
    /\ PlayPositions \subseteq Nat

\* A download chunk (64 KiB or one 256 KiB piece) is never larger than the
\* buffer (buffer_capacity_mb >= 1).
ASSUME ChunkFitsAssumption == MaxWrite <= Cap

VARIABLES
    buf,      \* [base, data, filled]: file_offset, data, filled
    playPos   \* play_position

vars == <<buf, playPos>>

-----------------------------------------------------------------------------

Zero == -1
Cells == 0 .. Cap - 1
Offsets == 0 .. Total - 1
Ranges == [start : 0 .. Total, end : 0 .. Total]
Buffers == [base : 0 .. Total, data : [Cells -> Offsets \cup {Zero}],
            filled : SUBSET Ranges]

SatSub(a, b) == IF a > b THEN a - b ELSE 0
Lower(a, b) == IF a < b THEN a ELSE b

TypeOK ==
    /\ buf \in Buffers
    /\ playPos \in Nat

EmptyBuffer == [base |-> 0, data |-> [i \in Cells |-> Zero], filled |-> {}]

Init ==
    /\ buf = EmptyBuffer
    /\ playPos = 0

(***************************************************************************)
(* slide_to: the window moves to newBase, the data array moves with it and *)
(* the filled ranges are re-based.  (BTreeSet::insert keeps the first of   *)
(* two ranges with one start; RangesAddUp is why that never happens.)  *)
(***************************************************************************)
Rebase(filled, k) ==
    { [start |-> SatSub(r.start, k), end |-> r.end - k] :
          r \in { q \in filled : q.end > k } }

SlideBack(b, newBase) ==
    LET shift == b.base - newBase IN
    [ base   |-> newBase,
      data   |-> [i \in Cells |-> IF i < shift THEN Zero ELSE b.data[i - shift]],
      filled |-> IF shift >= Cap THEN {} ELSE Rebase(b.filled, shift) ]

\* Mutant: the cells the window leaves behind are not cleared.
SlideForwardKeepsTail(b, newBase) ==
    LET shift   == newBase - b.base
        visible == { r \in Rebase(b.filled, newBase) : r.start < Cap }
    IN  [ base   |-> newBase,
          data   |-> [i \in Cells |-> IF i + shift < Cap THEN b.data[i + shift] ELSE b.data[i]],
          filled |-> { [start |-> r.start, end |-> Lower(r.end, Cap)] : r \in visible } ]

SlideForward(b, newBase) ==
    LET shift   == newBase - b.base
        kept    == IF shift >= Cap THEN {} ELSE b.filled
        visible == { r \in Rebase(kept, newBase) : r.start < Cap }
    IN  [ base   |-> newBase,
          data   |-> [i \in Cells |-> IF i + shift < Cap THEN b.data[i + shift] ELSE Zero],
          filled |-> { [start |-> r.start, end |-> Lower(r.end, Cap)] : r \in visible } ]

SlideTo(b, newBase) ==
    IF newBase = b.base THEN b
    ELSE IF newBase < b.base THEN SlideBack(b, newBase)
    ELSE SlideForward(b, newBase)

\* Mutant: ranges that only touch are not fused.
MergeOverlapping(filled, start, end) ==
    LET touching == { r \in filled : r.start < end /\ r.end > start }
    IN  (filled \ touching) \cup
            { [start |-> Min({start} \cup { r.start : r \in touching }),
               end   |-> Max({end} \cup { r.end : r \in touching })] }

\* Mutant: the fused range ends where the new one does.
MergeForgetsEnd(filled, start, end) ==
    LET touching == { r \in filled : r.start <= end /\ r.end >= start }
    IN  (filled \ touching) \cup
            { [start |-> Min({start} \cup { r.start : r \in touching }),
               end   |-> end] }

\* merge_range: every range that overlaps or touches [start, end) is fused.
MergeRange(filled, start, end) ==
    LET touching == { r \in filled : r.start <= end /\ r.end >= start }
    IN  (filled \ touching) \cup
            { [start |-> Min({start} \cup { r.start : r \in touching }),
               end   |-> Max({end} \cup { r.end : r \in touching })] }

\* Mutant: the write is not clipped at the end of the file.
ClippedNever(offset, n) == n

\* The length write() keeps of n bytes given at offset: clipped at the end of
\* the file, nothing when the offset lies beyond it.
Clipped(offset, n) == Lower(offset + n, Total) - offset

\* Mutant: the write may end one cell behind the window.
WindowOneShort(b, offset, len) ==
    LET b1 == IF offset < b.base THEN SlideTo(b, offset) ELSE b
    IN  IF offset + len > b1.base + Cap + 1
        THEN SlideTo(b1, Lower(SatSub(offset + len, Cap), SatSub(Total, Cap)))
        ELSE b1

\* The window in which the clipped bytes are stored.
WindowFor(b, offset, len) ==
    LET b1 == IF offset < b.base THEN SlideTo(b, offset) ELSE b
    IN  IF offset + len > b1.base + Cap
        THEN SlideTo(b1, Lower(SatSub(offset + len, Cap), SatSub(Total, Cap)))
        ELSE b1

Store(b, offset, len) ==
    LET at == SatSub(offset, b.base) IN
    [ base   |-> b.base,
      data   |-> [i \in Cells |-> IF at <= i /\ i < at + len
                                  THEN offset + (i - at) ELSE b.data[i]],
      filled |-> MergeRange(b.filled, offset, offset + len) ]

Written(b, offset, n) ==
    LET len == Clipped(offset, n) IN
    IF offset >= Total \/ n = 0 THEN b
    ELSE Store(WindowFor(b, offset, len), offset, len)

\* Mutant: only the first byte has to be filled.
IsStartFilled(b, offset, length) ==
    \E r \in b.filled : r.start <= offset /\ r.end > offset

IsRangeFilled(b, offset, length) ==
    \E r \in b.filled : r.start <= offset /\ r.end >= offset + length

\* read(): None is the empty sequence (only lengths >= 1 are asked for).
None == <<>>
ReadAt(b, offset, length) ==
    LET at == SatSub(offset, b.base) IN
    IF IsRangeFilled(b, offset, length) /\ at + length <= Cap
    THEN [i \in 1 .. length |-> b.data[at + i - 1]]
    ELSE None

\* filled_after(): the bytes buffered_duration() counts as ahead of the player.
FilledAfter(b, offset) ==
    LET ahead(r) == IF r.start >= offset THEN r.end - r.start
                    ELSE IF r.end > offset THEN r.end - offset ELSE 0
    IN  MapThenSumSet(ahead, b.filled)

-----------------------------------------------------------------------------

Write(offset, n) ==
    /\ buf' = Written(buf, offset, n)
    /\ UNCHANGED playPos

SetPlayPosition(p) ==
    /\ playPos' = p
    /\ UNCHANGED buf

Clear ==
    /\ buf' = EmptyBuffer
    /\ playPos' = 0

Next ==
    \/ \E offset \in 0 .. Total, n \in 0 .. MaxWrite : Write(offset, n)
    \/ \E p \in PlayPositions : SetPlayPosition(p)
    \/ Clear

Spec == Init /\ [][Next]_vars

-----------------------------------------------------------------------------

FileBytes(offset, len) == [i \in 1 .. len |-> offset + i - 1]

\* The data array never holds a byte at the wrong place of its window: cell i
\* is zero-filled or holds the byte of the file at file_offset + i, whatever
\* sequence of forward and backward slides write() made.
Aligned(b) == \A i \in Cells : b.data[i] # Zero => b.data[i] = b.base + i
WindowHoldsFileBytes == Aligned(buf)

\* What a download loop has just written can be read back at once, whatever
\* the window was before: write() slides far enough and merges what it stored.
ReadAfterWrite ==
    \A offset \in Offsets, n \in 1 .. MaxWrite :
        LET len == Clipped(offset, n)
        IN  ReadAt(Written(buf, offset, n), offset, len) = FileBytes(offset, len)

\* read(offset, length) returns the bytes of the file at offset or nothing.
ReadReturnsFileBytes ==
    \A offset \in Offsets : \A length \in 1 .. Total - offset :
        ReadAt(buf, offset, length) \in {None, FileBytes(offset, length)}

\* Two filled ranges are never equal, overlapping or adjacent: merge_range and
\* both slides keep the gaps, on which is_range_filled (one range must cover
\* the request) and the byte counts rest; so buffered_duration() never
\* promises more than the rest of the file.
RangesAddUp ==
    /\ \A r, q \in buf.filled : r = q \/ r.end < q.start \/ q.end < r.start
    /\ playPos <= Total => FilledAfter(buf, playPos) <= Total - playPos

\* The offsets of the file that a reader can have.
Readable(filled) == UNION { r.start .. r.end - 1 : r \in filled }

\* A buffer that can hold the whole file is a partial copy of it: no write takes
\* a readable byte away, and each adds exactly the bytes it carries
\* (RingBuffer implements FileCopy).
Copy == INSTANCE FileCopy WITH have <- Readable(buf.filled)

IsFileCopy == Copy!Spec

=============================================================================
