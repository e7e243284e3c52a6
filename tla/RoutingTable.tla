--------------------------- MODULE RoutingTable ---------------------------
(***************************************************************************)
(* The routing table of the DHT, crates/qvs-dht/src/routing.rs, as         *)
(* operators on a sequence of buckets.  A node id is the set of its one    *)
(* bits, bit 0 the most significant; the distance of two ids is then their *)
(* symmetric difference.  `stale` says that an entry was last seen more    *)
(* than 15 minutes ago.                                                    *)
(***************************************************************************)
EXTENDS Integers, Sequences, SequencesExt, FiniteSets

CONSTANTS
    IdBits,  \* bits of an id, and buckets of a new table (160)
    K        \* entries of a bucket (8)

ASSUME IdBitsAssumption == IdBits \in Nat \ {0}
ASSUME KAssumption == K \in Nat \ {0}

Bits == 0..IdBits - 1
Ids == SUBSET Bits

Distance(a, b) == (a \ b) \cup (b \ a)

\* d is the smaller of two distances: the first bit they differ in is e's.
Smaller(d, e) == \E i \in e \ d : \A j \in 0..i - 1 : j \in d <=> j \in e

\* The place of a distance among all distances.
Rank == [d \in Ids |-> Cardinality({e \in Ids : Smaller(e, d)})]

Nearer(target, a, b) == Rank[Distance(a, target)] < Rank[Distance(b, target)]

Entry(id, addr) == [id |-> id, addr |-> addr, stale |-> FALSE]

-----------------------------------------------------------------------------
(* KBucket *)

Position(b, id) == CHOOSE i \in 1..Len(b) : b[i].id = id
Rotated(b, i) == SubSeq(b, i, Len(b)) \o SubSeq(b, 1, i - 1)
Dropped(b, i) == SubSeq(b, 1, i - 1) \o SubSeq(b, i + 1, Len(b))

\* The first stale entry of a bucket.
FirstStale(b) ==
    CHOOSE i \in 1..Len(b) : b[i].stale /\ \A j \in 1..i - 1 : ~b[j].stale

HasId(b, id) == \E i \in 1..Len(b) : b[i].id = id
HasStale(b) == \E i \in 1..Len(b) : b[i].stale
Full(b, e) == Len(b) >= K /\ ~HasId(b, e.id) /\ ~HasStale(b)

\* The entries of a bucket whose ids are among `ids`, in their order.
Kept(b, ids) ==
    LET kept[i \in 0..Len(b)] ==
          IF i = 0 THEN <<>>
          ELSE IF b[i].id \in ids THEN Append(kept[i - 1], b[i]) ELSE kept[i - 1]
    IN  kept[Len(b)]

\* Mutant: the oldest entry makes room, stale or not.
InsertInBucketEvicts(b, e) ==
    IF HasId(b, e.id)
      THEN LET i == Position(b, e.id)
           IN  Rotated([b EXCEPT ![i].stale = FALSE], i)
    ELSE IF Len(b) < K THEN Append(b, e)
    ELSE Append(Tail(b), e)

\* A known id is refreshed and rotated to the front, with the address it had;
\* a new one takes a free place or that of a stale entry, or is refused.
InsertInBucket(b, e) ==
    IF HasId(b, e.id)
      THEN LET i == Position(b, e.id)
           IN  Rotated([b EXCEPT ![i].stale = FALSE], i)
    ELSE IF Len(b) < K THEN Append(b, e)
    ELSE IF HasStale(b) THEN Append(Dropped(b, FirstStale(b)), e)
    ELSE b

-----------------------------------------------------------------------------
(* RoutingTable *)

NewTable == [i \in 1..IdBits |-> <<>>]

\* The number of leading zeros, or 8 * IdBits for the distance zero.
LeadingZeros(d) ==
    IF d = {} THEN 8 * IdBits ELSE CHOOSE i \in d : \A j \in d : i <= j

\* bucket_index: it subtracts from the number of bits of as many bytes as an
\* id has bits, so every id but the local one falls into the last bucket.
BucketIndex(local, id) ==
    LET i == 8 * IdBits - 1 - LeadingZeros(Distance(local, id))
    IN  IF i < 0 THEN 0 ELSE IF i > IdBits - 1 THEN IdBits - 1 ELSE i

BucketOf(t, i) == t[i + 1]

\* split_bucket: by bit i of the distance, the upper half behind the lower.
Split(t, local, i) ==
    LET low == {id \in Ids : i \notin Distance(local, id)}
    IN  SubSeq(t, 1, i)
        \o <<Kept(BucketOf(t, i), low), Kept(BucketOf(t, i), Ids \ low)>>
        \o SubSeq(t, i + 2, Len(t))

CanSplit(local, i) == i = BucketIndex(local, local)

Insert(t, local, e) ==
    LET i == BucketIndex(local, e.id)
        j == IF i \in Distance(local, e.id) THEN i + 1 ELSE i
    IN  IF Full(BucketOf(t, i), e) /\ CanSplit(local, i)
          THEN [Split(t, local, i) EXCEPT ![j + 1] = InsertInBucket(@, e)]
          ELSE [t EXCEPT ![i + 1] = InsertInBucket(@, e)]

Entries(t) == UNION {ToSet(t[b]) : b \in DOMAIN t}
Size(t) == Cardinality(Entries(t))

\* The count elements of S that are nearest to the target.
Closest(S, target, count) ==
    {e \in S : Cardinality({f \in S : Nearer(target, f.id, e.id)}) < count}

\* The entries of the buckets at a distance from bucket i that is in R.
Around(t, i, R) ==
    UNION {ToSet(t[b + 1]) : b \in {c \in 0..Len(t) - 1 : i - c \in R \/ c - i \in R}}

\* find_closest: from the target's bucket outwards until enough entries are
\* seen, then the nearest of them.
FindClosest(t, local, target, count) ==
    LET i == BucketIndex(local, target)
        seen == UNION {Around(t, i, {r}) : r \in
                  {q \in 0..Len(t) - 1 : Cardinality(Around(t, i, 0..q - 1)) < count}}
    IN  Closest(seen, target, count)
=============================================================================
