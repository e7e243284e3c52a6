---------------------------- MODULE MCRingBuffer ----------------------------
(* RingBuffer for TLC: merge_range as the loop it is, and its closed form. *)
EXTENDS RingBuffer

\* Mutant: the fused range ends where the last range it meets does.
FusedLastEnd(r, acc) ==
    IF r.start <= acc.end /\ r.end >= acc.start
    THEN [start |-> Lower(acc.start, r.start), end |-> r.end,
          gone  |-> acc.gone \cup {r}]
    ELSE acc

\* One turn of the loop: a range that meets what the new one has grown to is
\* taken out, and the new one grows over it.
Fused(r, acc) ==
    IF r.start <= acc.end /\ r.end >= acc.start
    THEN [start |-> Lower(acc.start, r.start),
          end   |-> IF r.end > acc.end THEN r.end ELSE acc.end,
          gone  |-> acc.gone \cup {r}]
    ELSE acc

Latest(ranges) == CHOOSE r \in ranges : \A q \in ranges : q.start <= r.start

\* merge_range as written: one pass over the ranges in order of their start.
MergeLoop(filled, start, end) ==
    LET itself(r) == r
        pass == MapThenFoldSet(Fused, [start |-> start, end |-> end, gone |-> {}],
                               itself, Latest, filled)
    IN  (filled \ pass.gone) \cup {[start |-> pass.start, end |-> pass.end]}

\* The one-pass loop of merge_range computes the fused range the model uses,
\* in every buffer state that can arise and for every range write() can add.
MergeLoopAgrees ==
    \A start \in Offsets : \A end \in start + 1 .. Total :
        MergeLoop(buf.filled, start, end) = MergeRange(buf.filled, start, end)

=============================================================================
