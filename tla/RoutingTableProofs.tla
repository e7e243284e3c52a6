------------------------- MODULE RoutingTableProofs -------------------------
(* What the operators of the routing table keep, for any length of ids,     *)
(* any size of buckets and any addresses.                                   *)
EXTENDS RoutingTable, RecursionProofs, SequenceTheorems

-----------------------------------------------------------------------------
(* Buckets *)

\* What a table of nodes with addresses in A holds, the buckets that the code
\* keeps, and the tables made of them.
Places(A) == [id: Ids, addr: A, stale: BOOLEAN]

UniqueIds(b) == \A i, j \in 1..Len(b) : b[i].id = b[j].id => i = j

Buckets(A) == {b \in Seq(Places(A)) : Len(b) <= K /\ UniqueIds(b)}

Tables(A) == {t \in Seq(Buckets(A)) : Len(t) >= IdBits}

Holds(b, e) == \E i \in 1..Len(b) : b[i] = e

\* Every entry of b that is not stale has its id in c.
Stays(b, c) == \A i \in 1..Len(b) : b[i].stale \/ HasId(c, b[i].id)

\* What Kept makes of the first m entries of a bucket.
KeptOf(b, ids, m, q) ==
    /\ Len(q) <= m
    /\ \A i \in 1..m : b[i].id \in ids => \E j \in 1..Len(q) : q[j] = b[i]
    /\ \A j \in 1..Len(q) : \E i \in 1..m : q[j] = b[i] /\ b[i].id \in ids
    /\ UniqueIds(b) => UniqueIds(q)

LEMMA KeptOfNext ==
    ASSUME NEW S, NEW b \in Seq(S), NEW ids, NEW m \in Nat, m < Len(b),
           NEW q \in Seq(S), KeptOf(b, ids, m, q)
    PROVE  LET r == IF b[m + 1].id \in ids THEN Append(q, b[m + 1]) ELSE q
           IN  r \in Seq(S) /\ KeptOf(b, ids, m + 1, r)
<1>1. m + 1 \in 1..Len(b) /\ b[m + 1] \in S
  OBVIOUS
<1>2. CASE b[m + 1].id \notin ids
  BY <1>1, <1>2 DEF KeptOf
<1>3. CASE b[m + 1].id \in ids
  <2> DEFINE r == Append(q, b[m + 1])
  <2>1. /\ r \in Seq(S) /\ Len(r) = Len(q) + 1 /\ r[Len(q) + 1] = b[m + 1]
        /\ \A j \in 1..Len(q) : r[j] = q[j]
    BY <1>1
  <2> HIDE DEF r
  <2>2. Len(r) <= m + 1
    BY <2>1 DEF KeptOf
  <2>3. ASSUME NEW i \in 1..m + 1, b[i].id \in ids
        PROVE  \E j \in 1..Len(r) : r[j] = b[i]
    <3>1. CASE i = m + 1
      BY <2>1, <3>1
    <3>2. CASE i \in 1..m
      <4>1. PICK j \in 1..Len(q) : q[j] = b[i]
        BY <2>3, <3>2 DEF KeptOf
      <4> QED
        BY <2>1, <4>1
    <3> QED
      BY <3>1, <3>2
  <2>4. ASSUME NEW j \in 1..Len(r)
        PROVE  \E i \in 1..m + 1 : r[j] = b[i] /\ b[i].id \in ids
    <3>1. CASE j = Len(q) + 1
      BY <1>3, <2>1, <3>1
    <3>2. CASE j \in 1..Len(q)
      <4>1. PICK i \in 1..m : q[j] = b[i] /\ b[i].id \in ids
        BY <3>2 DEF KeptOf
      <4> QED
        BY <2>1, <3>2, <4>1
    <3> QED
      BY <2>1, <3>1, <3>2
  <2>5. ASSUME UniqueIds(b), NEW j \in 1..Len(r), NEW k \in 1..Len(r), r[j].id = r[k].id
        PROVE  j = k
    <3>1. UniqueIds(q)
      BY <2>5 DEF KeptOf
    <3>2. ASSUME NEW l \in 1..Len(q)
          PROVE  r[l].id # b[m + 1].id
      <4>1. PICK i \in 1..m : q[l] = b[i]
        BY DEF KeptOf
      <4> QED
        BY <1>1, <2>1, <2>5, <4>1 DEF UniqueIds
    <3>3. CASE j \in 1..Len(q) /\ k \in 1..Len(q)
      BY <2>1, <2>5, <3>1, <3>3 DEF UniqueIds
    <3>4. CASE j = Len(q) + 1 /\ k \in 1..Len(q)
      BY <2>1, <2>5, <3>2, <3>4
    <3>5. CASE j \in 1..Len(q) /\ k = Len(q) + 1
      BY <2>1, <2>5, <3>2, <3>5
    <3> QED
      BY <2>1, <3>3, <3>4, <3>5
  <2>6. UniqueIds(b) => UniqueIds(r)
    BY <2>5 DEF UniqueIds
  <2>7. r \in Seq(S) /\ KeptOf(b, ids, m + 1, r)
    BY <2>1, <2>2, <2>3, <2>4, <2>6 DEF KeptOf
  <2> QED
    BY <1>3, <2>7 DEF r
<1> QED
  BY <1>2, <1>3

LEMMA KeptEntries ==
    ASSUME NEW S, NEW b \in Seq(S), NEW ids
    PROVE  Kept(b, ids) \in Seq(S) /\ KeptOf(b, ids, Len(b), Kept(b, ids))
<1> DEFINE n == Len(b)
           P == [i \in 0..n |-> {q \in Seq(S) : KeptOf(b, ids, i, q)}]
           G == [i \in 0..n - 1 |->
                   [q \in P[i] |-> IF b[i + 1].id \in ids THEN Append(q, b[i + 1]) ELSE q]]
           kept == CHOOSE f : f = [i \in 0..n |->
                      IF i = 0 THEN <<>>
                      ELSE IF b[i].id \in ids THEN Append(f[i - 1], b[i]) ELSE f[i - 1]]
<1>1. n \in Nat
  OBVIOUS
<1>2. <<>> \in P[0]
  BY DEF KeptOf, UniqueIds
<1>3. \A i \in 0..n - 1 : \A q \in P[i] : G[i][q] \in P[i + 1]
  <2> TAKE i \in 0..n - 1
  <2> TAKE q \in P[i]
  <2>1. i \in Nat /\ i < Len(b) /\ i + 1 \in 0..n /\ i \in 0..n /\ i \in 0..n - 1
    OBVIOUS
  <2>2. q \in Seq(S) /\ KeptOf(b, ids, i, q)
    BY <2>1
  <2>3. G[i][q] = IF b[i + 1].id \in ids THEN Append(q, b[i + 1]) ELSE q
    BY <2>1
  <2> HIDE DEF G
  <2>4. G[i][q] \in Seq(S) /\ KeptOf(b, ids, i + 1, G[i][q])
    BY <2>1, <2>2, <2>3, KeptOfNext
  <2> QED
    BY <2>1, <2>4
<1>4. \A i \in 0..n - 1 : \A q \in P[i] :
         G[i][q] = IF b[i + 1].id \in ids THEN Append(q, b[i + 1]) ELSE q
  OBVIOUS
<1> HIDE DEF n, P, G
<1>5. PICK f : /\ f = [i \in 0..n |-> IF i = 0 THEN <<>> ELSE G[i - 1][f[i - 1]]]
               /\ \A i \in 0..n : f[i] \in P[i]
  <2>1. Leads(P, G, n)
    BY <1>3 DEF Leads
  <2>2. \E f : Repeats(P, G, n, <<>>, f)
    BY <1>1, <1>2, <2>1, Iterates
  <2> QED
    BY <2>2 DEF Repeats
<1> DEFINE h == [i \in 0..n |->
                   IF i = 0 THEN <<>>
                   ELSE IF b[i].id \in ids THEN Append(f[i - 1], b[i]) ELSE f[i - 1]]
<1>6. \A i \in 0..n : f[i] = h[i]
  <2> TAKE i \in 0..n
  <2>1. CASE i = 0
    BY <1>5, <2>1
  <2>2. CASE i # 0
    <3>1. i - 1 \in 0..n - 1 /\ i - 1 \in 0..n /\ (i - 1) + 1 = i
      BY <1>1, <2>2
    <3>2. f[i] = G[i - 1][f[i - 1]] /\ f[i - 1] \in P[i - 1]
      BY <1>5, <2>2, <3>1
    <3> QED
      BY <1>4, <2>2, <3>1, <3>2
  <2> QED
    BY <2>1, <2>2
<1>7. f = h
  <2>1. h = [i \in 0..n |-> h[i]] /\ f = [i \in 0..n |-> f[i]]
    BY <1>5
  <2> HIDE DEF h
  <2> QED
    BY <1>6, <2>1
<1>8. kept = [i \in 0..n |->
                IF i = 0 THEN <<>>
                ELSE IF b[i].id \in ids THEN Append(kept[i - 1], b[i]) ELSE kept[i - 1]]
  BY <1>7
<1>9. kept[n] \in P[n]
  <2> SUFFICES ASSUME NEW k, k = [i \in 0..n |->
                        IF i = 0 THEN <<>>
                        ELSE IF b[i].id \in ids THEN Append(k[i - 1], b[i]) ELSE k[i - 1]]
               PROVE  k[n] \in P[n]
    BY <1>8
  <2> DEFINE Same == {i \in 0..n : k[i] \in P[i]}
  <2>1. 0 \in Same
    BY <1>1, <1>2
  <2>2. ASSUME NEW i \in 0..n - 1, i \in Same
        PROVE  i + 1 \in Same
    <3>1. i + 1 \in 0..n /\ i + 1 # 0 /\ (i + 1) - 1 = i
      BY <1>1
    <3>2. k[i + 1] = IF b[i + 1].id \in ids THEN Append(k[i], b[i + 1]) ELSE k[i]
      BY <3>1
    <3>3. k[i + 1] = G[i][k[i]]
      BY <1>4, <2>2, <3>2
    <3> QED
      BY <1>3, <2>2, <3>1, <3>3
  <2> HIDE DEF Same
  <2>3. \A i \in 0..n : i \in Same
    BY <1>1, <2>1, <2>2, Climb
  <2> QED
    BY <1>1, <2>3 DEF Same
<1>10. kept[n] = Kept(b, ids)
  BY DEF Kept, n
<1> QED
  BY <1>9, <1>10 DEF P, n

\* An entry is taken out of a list; the others keep their order.
LEMMA DroppedEntries ==
    ASSUME NEW S, NEW s \in Seq(S), NEW i \in 1..Len(s)
    PROVE  /\ Dropped(s, i) \in Seq(S) /\ Len(Dropped(s, i)) = Len(s) - 1
           /\ \A k \in 1..i - 1 : Dropped(s, i)[k] = s[k]
           /\ \A k \in i..Len(s) - 1 : Dropped(s, i)[k] = s[k + 1]
<1> DEFINE n == Len(s)
           a == SubSeq(s, 1, i - 1)
           b == SubSeq(s, i + 1, n)
<1>1. /\ a \in Seq(S) /\ Len(a) = i - 1
      /\ \A k \in 1..i - 1 : a[k] = s[k]
  OBVIOUS
<1>2. /\ b \in Seq(S) /\ Len(b) = n - i
      /\ \A k \in 1..n - i : b[k] = s[i + k]
  OBVIOUS
<1>3. Dropped(s, i) = a \o b
  BY DEF Dropped
<1> HIDE DEF a, b
<1>4. /\ a \o b \in Seq(S) /\ Len(a \o b) = n - 1
      /\ \A k \in 1..n - 1 : (a \o b)[k] = IF k <= i - 1 THEN a[k] ELSE b[k - (i - 1)]
  <2>1. /\ a \o b \in Seq(S) /\ Len(a \o b) = Len(a) + Len(b)
        /\ \A k \in 1..Len(a) + Len(b) :
              (a \o b)[k] = IF k <= Len(a) THEN a[k] ELSE b[k - Len(a)]
    BY <1>1, <1>2, ConcatProperties
  <2>2. Len(a) = i - 1 /\ Len(a) + Len(b) = n - 1
    BY <1>1, <1>2
  <2> QED
    BY <2>1, <2>2
<1>5. \A k \in 1..i - 1 : (a \o b)[k] = s[k]
  BY <1>1, <1>4
<1>6. ASSUME NEW k \in i..n - 1
      PROVE  (a \o b)[k] = s[k + 1]
  <2>1. k \in 1..n - 1 /\ ~(k <= i - 1) /\ k - (i - 1) \in 1..n - i /\ i + (k - (i - 1)) = k + 1
    OBVIOUS
  <2> QED
    BY <1>2, <1>4, <2>1
<1> QED
  BY <1>3, <1>4, <1>5, <1>6

\* An entry comes to the front, and those that were before it go to the end.
LEMMA RotatedEntries ==
    ASSUME NEW S, NEW s \in Seq(S), NEW i \in 1..Len(s)
    PROVE  /\ Rotated(s, i) \in Seq(S) /\ Len(Rotated(s, i)) = Len(s)
           /\ \A k \in 1..Len(s) - i + 1 : Rotated(s, i)[k] = s[k + i - 1]
           /\ \A k \in Len(s) - i + 2..Len(s) : Rotated(s, i)[k] = s[k - (Len(s) - i + 1)]
<1> DEFINE n == Len(s)
           a == SubSeq(s, i, n)
           b == SubSeq(s, 1, i - 1)
           m == n - i + 1
<1>1. /\ a \in Seq(S) /\ Len(a) = m
      /\ \A k \in 1..m : a[k] = s[k + i - 1]
  OBVIOUS
<1>2. /\ b \in Seq(S) /\ Len(b) = i - 1
      /\ \A k \in 1..i - 1 : b[k] = s[k]
  OBVIOUS
<1>3. Rotated(s, i) = a \o b
  BY DEF Rotated
<1>4. n \in Nat /\ m \in 1..n /\ m + (i - 1) = n
  OBVIOUS
<1> HIDE DEF a, b
<1>5. /\ a \o b \in Seq(S) /\ Len(a \o b) = n
      /\ \A k \in 1..n : (a \o b)[k] = IF k <= m THEN a[k] ELSE b[k - m]
  BY <1>1, <1>2
<1>6. \A k \in 1..m : (a \o b)[k] = s[k + i - 1]
  BY <1>1, <1>4, <1>5
<1>7. ASSUME NEW k \in m + 1..n
      PROVE  (a \o b)[k] = s[k - m]
  <2>1. k \in 1..n /\ ~(k <= m) /\ k - m \in 1..i - 1
    BY <1>4
  <2> QED
    BY <1>2, <1>5, <2>1
<1> QED
  BY <1>3, <1>5, <1>6, <1>7

\* The entry whose id is found is in the bucket.
LEMMA PositionOf ==
    ASSUME NEW b, NEW id, HasId(b, id)
    PROVE  Position(b, id) \in 1..Len(b) /\ b[Position(b, id)].id = id
BY DEF HasId, Position

\* The first stale entry is in the bucket.
LEMMA StaleOf ==
    ASSUME NEW S, NEW b \in Seq(S), HasStale(b)
    PROVE  FirstStale(b) \in 1..Len(b) /\ b[FirstStale(b)].stale
<1> DEFINE Stale == {i \in 1..Len(b) : b[i].stale}
<1>1. Stale \in SUBSET Nat /\ Stale # {}
  BY DEF HasStale
<1>2. PICK x \in Stale : \A y \in Stale : x <= y
  <2> HIDE DEF Stale
  <2> QED
    BY <1>1, MinOfNaturals
<1>3. x \in 1..Len(b) /\ b[x].stale /\ \A j \in 1..x - 1 : ~b[j].stale
  BY <1>2
<1> QED
  BY <1>3 DEF FirstStale

\* A known id comes to the front, refreshed: the bucket holds the same ids.
LEMMA RefreshedBucket ==
    ASSUME NEW A, NEW b \in Buckets(A), NEW i \in 1..Len(b)
    PROVE  LET c == Rotated([b EXCEPT ![i].stale = FALSE], i)
           IN  c \in Buckets(A) /\ Stays(b, c)
<1> DEFINE n == Len(b)
           f == [b EXCEPT ![i].stale = FALSE]
           c == Rotated(f, i)
           m == n - i + 1
<1>1. b \in Seq(Places(A)) /\ n <= K /\ UniqueIds(b) /\ n \in Nat
  BY DEF Buckets
<1>2. [b[i] EXCEPT !.stale = FALSE] \in Places(A) /\ [b[i] EXCEPT !.stale = FALSE].id = b[i].id
  <2>1. b[i] \in Places(A)
    BY <1>1
  <2> QED
    BY <2>1 DEF Places
<1>3. /\ f \in Seq(Places(A)) /\ Len(f) = n
      /\ \A k \in 1..n : f[k].id = b[k].id
  BY <1>1, <1>2
<1> HIDE DEF f
<1>4. /\ c \in Seq(Places(A)) /\ Len(c) = n
      /\ \A k \in 1..m : c[k] = f[k + i - 1]
      /\ \A k \in m + 1..n : c[k] = f[k - m]
  BY <1>1, <1>3, RotatedEntries
<1> HIDE DEF c
<1>5. m \in 1..n /\ m + i = n + 1
  BY <1>1
<1> DEFINE from(k) == IF k <= m THEN k + i - 1 ELSE k - m
<1>6. \A k \in 1..n : from(k) \in 1..n /\ c[k].id = b[from(k)].id
  <2> TAKE k \in 1..n
  <2>1. CASE k <= m
    <3>1. k \in 1..m /\ k + i - 1 \in 1..n
      BY <1>1, <1>5, <2>1
    <3> QED
      BY <1>3, <1>4, <2>1, <3>1
  <2>2. CASE ~(k <= m)
    <3>1. k \in m + 1..n /\ k - m \in 1..n
      BY <1>1, <1>5, <2>2
    <3> QED
      BY <1>3, <1>4, <2>2, <3>1
  <2> QED
    BY <2>1, <2>2
<1>7. \A k, l \in 1..n : from(k) = from(l) => k = l
  BY <1>1, <1>5
<1>8. \A k \in 1..n : \E l \in 1..n : from(l) = k
  <2> TAKE k \in 1..n
  <2>1. CASE k >= i
    <3>1. k - i + 1 \in 1..n /\ from(k - i + 1) = k
      BY <1>1, <1>5, <2>1
    <3> QED
      BY <3>1
  <2>2. CASE k < i
    <3>1. k + m \in 1..n /\ from(k + m) = k
      BY <1>1, <1>5, <2>2
    <3> QED
      BY <3>1
  <2> QED
    BY <2>1, <2>2
<1> HIDE DEF from, m
<1>9. UniqueIds(c)
  <2> SUFFICES ASSUME NEW k \in 1..n, NEW l \in 1..n, c[k].id = c[l].id
               PROVE  k = l
    BY <1>4 DEF UniqueIds
  <2>1. b[from(k)].id = b[from(l)].id /\ from(k) \in 1..n /\ from(l) \in 1..n
    BY <1>6
  <2> QED
    BY <1>1, <1>7, <2>1 DEF UniqueIds
<1>10. Stays(b, c)
  <2> SUFFICES ASSUME NEW k \in 1..n
               PROVE  HasId(c, b[k].id)
    BY DEF Stays
  <2>1. PICK l \in 1..n : from(l) = k
    BY <1>8
  <2>2. c[l].id = b[k].id /\ l \in 1..Len(c)
    BY <1>4, <1>6, <2>1
  <2> QED
    BY <2>2 DEF HasId
<1> QED
  BY <1>1, <1>4, <1>9, <1>10 DEF Buckets, c, f

\* A new id goes to the end of a bucket.
LEMMA AppendedBucket ==
    ASSUME NEW A, NEW b \in Buckets(A), Len(b) < K, NEW e \in Places(A), ~HasId(b, e.id)
    PROVE  /\ Append(b, e) \in Buckets(A)
           /\ \A id : HasId(b, id) => HasId(Append(b, e), id)
           /\ Stays(b, Append(b, e))
<1> DEFINE c == Append(b, e)
           n == Len(b)
<1>1. b \in Seq(Places(A)) /\ UniqueIds(b) /\ n \in Nat /\ n < K /\ K \in Nat
  BY KAssumption DEF Buckets
<1>2. /\ c \in Seq(Places(A)) /\ Len(c) = n + 1 /\ c[n + 1] = e
      /\ \A k \in 1..n : c[k] = b[k]
  BY <1>1
<1>3. \A k \in 1..n : b[k].id # e.id
  BY DEF HasId
<1> HIDE DEF c
<1>4. UniqueIds(c)
  <2> SUFFICES ASSUME NEW i \in 1..n + 1, NEW j \in 1..n + 1, c[i].id = c[j].id
               PROVE  i = j
    BY <1>2 DEF UniqueIds
  <2>1. CASE i \in 1..n /\ j \in 1..n
    BY <1>1, <1>2, <2>1 DEF UniqueIds
  <2>2. CASE i = n + 1 /\ j \in 1..n
    BY <1>2, <1>3, <2>2
  <2>3. CASE i \in 1..n /\ j = n + 1
    BY <1>2, <1>3, <2>3
  <2> QED
    BY <1>1, <2>1, <2>2, <2>3
<1>5. Stays(b, c)
  BY <1>1, <1>2 DEF Stays, HasId
<1>6. \A id : HasId(b, id) => HasId(c, id)
  BY <1>1, <1>2 DEF HasId
<1> QED
  BY <1>1, <1>2, <1>4, <1>5, <1>6 DEF Buckets, c

\* A stale entry makes room.
LEMMA DroppedBucket ==
    ASSUME NEW A, NEW b \in Buckets(A), NEW i \in 1..Len(b), b[i].stale
    PROVE  /\ Dropped(b, i) \in Buckets(A) /\ Len(Dropped(b, i)) < K
           /\ Stays(b, Dropped(b, i))
           /\ \A id : HasId(Dropped(b, i), id) => HasId(b, id)
<1> DEFINE n == Len(b)
           c == Dropped(b, i)
           from(k) == IF k < i THEN k ELSE k + 1
<1>1. b \in Seq(Places(A)) /\ UniqueIds(b) /\ n \in Nat /\ n <= K /\ K \in Nat
  BY KAssumption DEF Buckets
<1>2. /\ c \in Seq(Places(A)) /\ Len(c) = n - 1
      /\ \A k \in 1..i - 1 : c[k] = b[k]
      /\ \A k \in i..n - 1 : c[k] = b[k + 1]
  BY <1>1, DroppedEntries
<1> HIDE DEF c
<1>3. \A k \in 1..n - 1 : from(k) \in 1..n /\ c[k] = b[from(k)]
  <2> TAKE k \in 1..n - 1
  <2>1. CASE k < i
    BY <1>1, <1>2, <2>1
  <2>2. CASE ~(k < i)
    BY <1>1, <1>2, <2>2
  <2> QED
    BY <2>1, <2>2
<1>4. \A k, l \in 1..n - 1 : from(k) = from(l) => k = l
  BY <1>1
<1>5. \A k \in 1..n : k # i => \E l \in 1..n - 1 : from(l) = k
  <2> TAKE k \in 1..n
  <2> HAVE k # i
  <2>1. CASE k < i
    BY <1>1, <2>1
  <2>2. CASE k > i
    <3>1. k - 1 \in 1..n - 1 /\ from(k - 1) = k
      BY <1>1, <2>2
    <3> QED
      BY <3>1
  <2> QED
    BY <1>1, <2>1, <2>2
<1> HIDE DEF from
<1>6. UniqueIds(c)
  BY <1>1, <1>2, <1>3, <1>4 DEF UniqueIds
<1>7. Stays(b, c)
  <2> SUFFICES ASSUME NEW k \in 1..n, k # i
               PROVE  HasId(c, b[k].id)
    BY DEF Stays
  <2>1. PICK l \in 1..n - 1 : from(l) = k
    BY <1>5
  <2>2. c[l] = b[k] /\ l \in 1..Len(c)
    BY <1>2, <1>3, <2>1
  <2> QED
    BY <2>2 DEF HasId
<1>8. \A id : HasId(c, id) => HasId(b, id)
  BY <1>1, <1>2, <1>3 DEF HasId
<1> QED
  BY <1>1, <1>2, <1>6, <1>7, <1>8 DEF Buckets, c

\* However an entry comes into a bucket, the bucket stays within its bound,
\* holds no id twice, and keeps the nodes that are not stale.
LEMMA InsertInBucketKeeps ==
    ASSUME NEW A, NEW b \in Buckets(A), NEW e \in Places(A)
    PROVE  InsertInBucket(b, e) \in Buckets(A) /\ Stays(b, InsertInBucket(b, e))
<1>1. b \in Seq(Places(A))
  BY DEF Buckets
<1>2. CASE HasId(b, e.id)
  <2> DEFINE i == Position(b, e.id)
  <2>1. i \in 1..Len(b)
    BY <1>2, PositionOf
  <2>2. InsertInBucket(b, e) = Rotated([b EXCEPT ![i].stale = FALSE], i)
    BY <1>2 DEF InsertInBucket
  <2> HIDE DEF i
  <2> QED
    BY <2>1, <2>2, RefreshedBucket
<1>3. CASE ~HasId(b, e.id) /\ Len(b) < K
  BY <1>3, AppendedBucket DEF InsertInBucket
<1>4. CASE ~HasId(b, e.id) /\ ~(Len(b) < K) /\ HasStale(b)
  <2> DEFINE i == FirstStale(b)
             c == Dropped(b, i)
  <2>1. i \in 1..Len(b) /\ b[i].stale
    BY <1>1, <1>4, StaleOf
  <2>2. /\ c \in Buckets(A) /\ Len(c) < K /\ Stays(b, c) /\ ~HasId(c, e.id)
    BY <1>4, <2>1, DroppedBucket
  <2>3. InsertInBucket(b, e) = Append(c, e)
    BY <1>4 DEF InsertInBucket
  <2> HIDE DEF c
  <2>4. Append(c, e) \in Buckets(A) /\ \A id : HasId(c, id) => HasId(Append(c, e), id)
    BY <2>2, AppendedBucket
  <2> QED
    BY <2>2, <2>3, <2>4 DEF Stays
<1>5. CASE ~HasId(b, e.id) /\ ~(Len(b) < K) /\ ~HasStale(b)
  BY <1>5 DEF InsertInBucket, Stays, HasId
<1> QED
  BY <1>2, <1>3, <1>4, <1>5

-----------------------------------------------------------------------------
(* Tables *)

\* A bucket has an index of the table, whatever the id.
LEMMA BucketInTable ==
    ASSUME NEW local \in Ids, NEW id \in Ids
    PROVE  BucketIndex(local, id) \in 0..IdBits - 1
<1> DEFINE d == Distance(local, id)
           i == 8 * IdBits - 1 - LeadingZeros(d)
<1>1. d \in SUBSET Nat
  BY IdBitsAssumption DEF Distance, Ids, Bits
<1> HIDE DEF d
<1>2. LeadingZeros(d) \in Nat
  <2>1. CASE d = {}
    BY <2>1, IdBitsAssumption DEF LeadingZeros
  <2>2. CASE d # {}
    <3>1. PICK x \in d : \A y \in d : x <= y
      BY <1>1, <2>2, MinOfNaturals
    <3>2. LeadingZeros(d) \in d
      BY <2>2, <3>1 DEF LeadingZeros
    <3> QED
      BY <1>1, <3>2
  <2> QED
    BY <2>1, <2>2
<1>3. i \in Int
  BY <1>2, IdBitsAssumption
<1>4. BucketIndex(local, id) = IF i < 0 THEN 0 ELSE IF i > IdBits - 1 THEN IdBits - 1 ELSE i
  BY DEF BucketIndex, d
<1> QED
  BY <1>3, <1>4, IdBitsAssumption

\* A new table is one of empty buckets.
LEMMA NewTableHolds ==
    ASSUME NEW A
    PROVE  NewTable \in Tables(A)
<1>1. <<>> \in Buckets(A)
  BY KAssumption DEF Buckets, UniqueIds
<1> QED
  BY <1>1, IdBitsAssumption DEF NewTable, Tables

\* What is kept of a bucket is a bucket, and has the nodes with these ids.
LEMMA KeptBucket ==
    ASSUME NEW A, NEW b \in Buckets(A), NEW ids
    PROVE  /\ Kept(b, ids) \in Buckets(A)
           /\ \A i \in 1..Len(b) : b[i].id \in ids => Holds(Kept(b, ids), b[i])
           /\ \A id : HasId(Kept(b, ids), id) => id \in ids
<1> DEFINE c == Kept(b, ids)
<1>1. b \in Seq(Places(A)) /\ Len(b) <= K /\ UniqueIds(b) /\ K \in Nat
  BY KAssumption DEF Buckets
<1>2. c \in Seq(Places(A)) /\ KeptOf(b, ids, Len(b), c)
  BY <1>1, KeptEntries
<1> HIDE DEF c
<1>3. Len(c) <= K /\ UniqueIds(c)
  BY <1>1, <1>2 DEF KeptOf
<1>4. \A i \in 1..Len(b) : b[i].id \in ids => Holds(c, b[i])
  BY <1>2 DEF KeptOf, Holds
<1>5. \A id : HasId(c, id) => id \in ids
  BY <1>2 DEF KeptOf, HasId
<1> QED
  BY <1>2, <1>3, <1>4, <1>5 DEF c, Buckets

\* The id of an entry that is not stale is in some bucket of u.
Lasts(t, u) ==
    \A i \in 1..Len(t) : \A k \in 1..Len(t[i]) :
       t[i][k].stale \/ \E j \in 1..Len(u) : HasId(u[j], t[i][k].id)

\* A table in which a bucket takes an entry keeps the nodes that are not stale.
LEMMA TableTakes ==
    ASSUME NEW A, NEW t \in Tables(A), NEW i \in 1..Len(t), NEW e \in Places(A)
    PROVE  LET u == [t EXCEPT ![i] = InsertInBucket(@, e)]
           IN  u \in Tables(A) /\ Lasts(t, u)
<1> DEFINE b == InsertInBucket(t[i], e)
           u == [t EXCEPT ![i] = b]
<1>1. t \in Seq(Buckets(A)) /\ Len(t) >= IdBits /\ t[i] \in Buckets(A)
  BY DEF Tables
<1>2. b \in Buckets(A) /\ Stays(t[i], b)
  BY <1>1, InsertInBucketKeeps
<1> HIDE DEF b
<1>3. u \in Tables(A)
  BY <1>1, <1>2 DEF Tables
<1>4. Len(u) = Len(t) /\ \A j \in 1..Len(t) : u[j] = IF j = i THEN b ELSE t[j]
  BY <1>1
<1> HIDE DEF u
<1>5. ASSUME NEW j \in 1..Len(t), NEW k \in 1..Len(t[j]), ~t[j][k].stale
      PROVE  HasId(u[j], t[j][k].id)
  <2>1. CASE j = i
    BY <1>2, <1>4, <1>5, <2>1 DEF Stays
  <2>2. CASE j # i
    <3>1. HasId(t[j], t[j][k].id)
      BY DEF HasId
    <3> QED
      BY <1>4, <2>2, <3>1
  <2> QED
    BY <2>1, <2>2
<1>6. Lasts(t, u)
  BY <1>4, <1>5 DEF Lasts
<1> QED
  BY <1>3, <1>6 DEF u, b

\* A bucket that is split in two leaves every node where it is or beside it.
LEMMA SplitKeeps ==
    ASSUME NEW A, NEW t \in Tables(A), NEW local \in Ids, NEW i \in 0..Len(t) - 1
    PROVE  /\ Split(t, local, i) \in Tables(A)
           /\ Len(Split(t, local, i)) = Len(t) + 1
           /\ \A j \in 1..Len(t) : \A k \in 1..Len(t[j]) :
                 \E m \in 1..Len(t) + 1 : Holds(Split(t, local, i)[m], t[j][k])
<1> DEFINE n == Len(t)
           low == {id \in Ids : i \notin Distance(local, id)}
           b == t[i + 1]
           x == Kept(b, low)
           y == Kept(b, Ids \ low)
           p == SubSeq(t, 1, i)
           q == SubSeq(t, i + 2, n)
           u == p \o <<x, y>> \o q
<1>1. t \in Seq(Buckets(A)) /\ n >= IdBits /\ b \in Buckets(A) /\ n \in Nat /\ i + 1 \in 1..n
  BY DEF Tables
<1>2. /\ x \in Buckets(A) /\ y \in Buckets(A)
      /\ \A k \in 1..Len(b) : b[k].id \in low => Holds(x, b[k])
      /\ \A k \in 1..Len(b) : b[k].id \in Ids \ low => Holds(y, b[k])
  BY <1>1, KeptBucket
<1>3. Split(t, local, i) = u
  BY Zenon DEF Split, BucketOf
<1>4. \A k \in 1..Len(b) : b[k].id \in Ids
  <2>1. b \in Seq(Places(A))
    BY <1>1 DEF Buckets
  <2> HIDE DEF b
  <2>2. \A k \in 1..Len(b) : b[k] \in Places(A)
    BY <2>1
  <2> QED
    BY <2>2 DEF Places
<1>5. /\ p \in Seq(Buckets(A)) /\ Len(p) = i
      /\ \A k \in 1..i : p[k] = t[k]
  BY <1>1, SubSeqProperties
<1>6. /\ q \in Seq(Buckets(A)) /\ Len(q) = n - i - 1
      /\ \A k \in 1..n - i - 1 : q[k] = t[i + 1 + k]
  <2>1. q \in Seq(Buckets(A)) /\ Len(q) = n - i - 1
    BY <1>1, SubSeqProperties
  <2>2. \A k \in 1..n - i - 1 : q[k] = t[i + 2 + k - 1]
    BY <1>1, <2>1, SubSeqProperties
  <2> QED
    BY <2>1, <2>2
<1> HIDE DEF x, y, p, q, low, b
<1>7. /\ <<x, y>> \in Seq(Buckets(A)) /\ Len(<<x, y>>) = 2
      /\ <<x, y>>[1] = x /\ <<x, y>>[2] = y
  BY <1>2
<1> DEFINE r == <<x, y>>
           v == p \o r
<1> HIDE DEF r
<1>8. /\ v \in Seq(Buckets(A)) /\ Len(v) = i + 2
      /\ \A k \in 1..i : v[k] = t[k]
      /\ v[i + 1] = x /\ v[i + 2] = y
  <2>1. /\ v \in Seq(Buckets(A)) /\ Len(v) = Len(p) + Len(r)
        /\ \A k \in 1..Len(p) + Len(r) : v[k] = IF k <= Len(p) THEN p[k] ELSE r[k - Len(p)]
    BY <1>5, <1>7, ConcatProperties DEF r
  <2>2. Len(p) = i /\ Len(r) = 2 /\ i \in Nat
    BY <1>5, <1>7 DEF r
  <2>3. i + 1 - i = 1 /\ i + 2 - i = 2 /\ i + 1 \in 1..i + 2 /\ i + 2 \in 1..i + 2
    BY <2>2
  <2> HIDE DEF v
  <2> QED
    BY <1>5, <1>7, <2>1, <2>2, <2>3 DEF r
<1> HIDE DEF v
<1>9. /\ v \o q \in Seq(Buckets(A)) /\ Len(v \o q) = n + 1
      /\ \A k \in 1..i + 2 : (v \o q)[k] = v[k]
      /\ \A k \in i + 3..n + 1 : (v \o q)[k] = t[k - 1]
  <2>1. /\ v \o q \in Seq(Buckets(A)) /\ Len(v \o q) = Len(v) + Len(q)
        /\ \A k \in 1..Len(v) + Len(q) :
              (v \o q)[k] = IF k <= Len(v) THEN v[k] ELSE q[k - Len(v)]
    BY <1>6, <1>8, ConcatProperties
  <2>2. Len(v) = i + 2 /\ Len(v) + Len(q) = n + 1 /\ i \in Nat /\ n \in Nat /\ i + 1 <= n
    BY <1>1, <1>6, <1>8
  <2>3. \A k \in 1..i + 2 : (v \o q)[k] = v[k]
    BY <2>1, <2>2
  <2>4. ASSUME NEW k \in i + 3..n + 1
        PROVE  (v \o q)[k] = t[k - 1]
    <3>1. k - (i + 2) \in 1..n - i - 1 /\ i + 1 + (k - (i + 2)) = k - 1 /\ ~(k <= i + 2)
          /\ k \in 1..n + 1
      BY <2>2
    <3> QED
      BY <1>6, <2>1, <2>2, <3>1
  <2> QED
    BY <2>1, <2>2, <2>3, <2>4
<1>10. u = v \o q
  BY DEF v, r
<1> HIDE DEF u
<1>11. u \in Tables(A) /\ Len(u) = n + 1
  BY <1>1, <1>9, <1>10, IdBitsAssumption DEF Tables
<1>12. ASSUME NEW j \in 1..n, NEW k \in 1..Len(t[j])
       PROVE  \E m \in 1..n + 1 : Holds(u[m], t[j][k])
  <2>0. Holds(t[j], t[j][k])
    BY DEF Holds
  <2>1. CASE j <= i
    <3>1. j \in 1..i /\ j \in 1..i + 2 /\ j \in 1..n + 1 /\ u[j] = t[j]
      BY <1>1, <1>8, <1>9, <1>10, <2>1
    <3> QED
      BY <2>0, <3>1
  <2>2. CASE j = i + 1
    <3>1. t[j] = b
      BY <2>2 DEF b
    <3>2. Holds(x, t[j][k]) \/ Holds(y, t[j][k])
      BY <1>2, <1>4, <3>1
    <3>3. u[i + 1] = x /\ u[i + 2] = y /\ i + 1 \in 1..n + 1 /\ i + 2 \in 1..n + 1
      BY <1>1, <1>8, <1>9, <1>10
    <3> QED
      BY <3>2, <3>3
  <2>3. CASE j > i + 1
    <3>1. j + 1 \in i + 3..n + 1 /\ (j + 1) - 1 = j /\ j + 1 \in 1..n + 1
      BY <1>1, <2>3
    <3>2. u[j + 1] = t[j]
      BY <1>9, <1>10, <3>1
    <3> QED
      BY <2>0, <3>1, <3>2
  <2> QED
    BY <1>1, <2>1, <2>2, <2>3
<1> QED
  BY <1>3, <1>11, <1>12

\* However an entry comes into a table, splitting a bucket or not, the buckets
\* stay as they must be, and the nodes that are not stale stay known.
LEMMA InsertKeeps ==
    ASSUME NEW A, NEW t \in Tables(A), NEW local \in Ids, NEW e \in Places(A)
    PROVE  Insert(t, local, e) \in Tables(A) /\ Lasts(t, Insert(t, local, e))
<1> DEFINE i == BucketIndex(local, e.id)
           j == IF i \in Distance(local, e.id) THEN i + 1 ELSE i
           s == Split(t, local, i)
<1>1. i \in 0..IdBits - 1
  BY BucketInTable DEF Places
<1>2. t \in Seq(Buckets(A)) /\ Len(t) >= IdBits /\ Len(t) \in Nat /\ IdBits \in Nat \ {0}
  BY IdBitsAssumption DEF Tables
<1> DEFINE u == [t EXCEPT ![i + 1] = InsertInBucket(@, e)]
           w == [s EXCEPT ![j + 1] = InsertInBucket(@, e)]
<1>3. Insert(t, local, e) = IF Full(BucketOf(t, i), e) /\ CanSplit(local, i) THEN w ELSE u
  BY Zenon DEF Insert
<1>4. i + 1 \in 1..Len(t) /\ i \in 0..Len(t) - 1 /\ j + 1 \in 1..Len(t) + 1
  <2>1. i + 1 \in 1..Len(t) /\ i \in 0..Len(t) - 1 /\ i + 2 \in 1..Len(t) + 1
        /\ i + 1 \in 1..Len(t) + 1
    BY <1>1, <1>2
  <2> QED
    BY <1>1, <2>1
<1> HIDE DEF i, j, s
<1>5. u \in Tables(A) /\ Lasts(t, u)
  BY <1>4, TableTakes
<1>6. /\ s \in Tables(A) /\ Len(s) = Len(t) + 1
      /\ \A b \in 1..Len(t) : \A k \in 1..Len(t[b]) :
            \E m \in 1..Len(t) + 1 : Holds(s[m], t[b][k])
  BY <1>4, SplitKeeps DEF s
<1>7. w \in Tables(A) /\ Lasts(s, w)
  <2>1. j + 1 \in 1..Len(s)
    BY <1>4, <1>6
  <2> QED
    BY <1>6, <2>1, TableTakes
<1> HIDE DEF u, w
<1>8. Lasts(t, w)
  <2> SUFFICES ASSUME NEW b \in 1..Len(t), NEW k \in 1..Len(t[b]), ~t[b][k].stale
               PROVE  \E m \in 1..Len(w) : HasId(w[m], t[b][k].id)
    BY DEF Lasts
  <2>1. PICK m \in 1..Len(s) : Holds(s[m], t[b][k])
    BY <1>6
  <2>2. PICK l \in 1..Len(s[m]) : s[m][l] = t[b][k]
    BY <2>1 DEF Holds
  <2> QED
    BY <1>7, <2>2 DEF Lasts
<1> QED
  BY <1>3, <1>5, <1>7, <1>8

\* When entries only age, which leaves them their ids, their table stays one.
LEMMA AgedTable ==
    ASSUME NEW A, NEW t \in Tables(A), NEW age \in [Places(A) -> Places(A)],
           \A e \in Places(A) : age[e].id = e.id
    PROVE  LET u == [i \in DOMAIN t |-> [j \in DOMAIN t[i] |-> age[t[i][j]]]]
           IN  u \in Tables(A) /\ Lasts(t, u)
<1> DEFINE older(b) == [j \in DOMAIN b |-> age[b[j]]]
           u == [i \in DOMAIN t |-> older(t[i])]
<1>1. t \in Seq(Buckets(A)) /\ Len(t) >= IdBits
  BY DEF Tables
<1>2. ASSUME NEW b \in Buckets(A)
      PROVE  older(b) \in Buckets(A) /\ Stays(b, older(b))
  <2>1. b \in Seq(Places(A)) /\ Len(b) <= K /\ UniqueIds(b) /\ Len(b) \in Nat
    BY DEF Buckets
  <2>2. \A j \in 1..Len(b) : b[j] \in Places(A)
    BY <2>1
  <2>3. /\ older(b) \in Seq(Places(A)) /\ Len(older(b)) = Len(b)
        /\ \A j \in 1..Len(b) : older(b)[j].id = b[j].id
    <3>1. DOMAIN b = 1..Len(b)
      BY <2>1
    <3>2. older(b) \in [1..Len(b) -> Places(A)]
      BY <2>2, <3>1
    <3>3. \A j \in 1..Len(b) : older(b)[j].id = b[j].id
      BY <2>2, <3>1
    <3> HIDE DEF older
    <3> QED
      BY <2>1, <3>2, <3>3
  <2> HIDE DEF older
  <2>4. UniqueIds(older(b))
    BY <2>1, <2>3 DEF UniqueIds
  <2>5. Stays(b, older(b))
    BY <2>3 DEF Stays, HasId
  <2> QED
    BY <2>1, <2>3, <2>4, <2>5 DEF Buckets
<1>3. /\ u \in Seq(Buckets(A)) /\ Len(u) = Len(t)
      /\ \A i \in 1..Len(t) : u[i] = older(t[i])
  <2>1. DOMAIN t = 1..Len(t) /\ Len(t) \in Nat
    BY <1>1
  <2>2. \A i \in 1..Len(t) : t[i] \in Buckets(A)
    BY <1>1
  <2> HIDE DEF older
  <2>3. u \in [1..Len(t) -> Buckets(A)]
    BY <1>2, <2>1, <2>2
  <2>4. \A i \in 1..Len(t) : u[i] = older(t[i])
    BY <2>1
  <2> HIDE DEF u
  <2> QED
    BY <2>1, <2>3, <2>4
<1>4. \A i \in 1..Len(t) : Stays(t[i], u[i])
  <2> HIDE DEF older, u
  <2> QED
    BY <1>1, <1>2, <1>3
<1>5. u \in Tables(A) /\ Lasts(t, u)
  <2> HIDE DEF older, u
  <2> QED
    BY <1>1, <1>3, <1>4 DEF Tables, Lasts, Stays
<1> QED
  BY <1>5

\* An entry of a table is in one of its buckets.
LEMMA EntryOf ==
    ASSUME NEW A, NEW t \in Tables(A), NEW e
    PROVE  e \in Entries(t) <=> \E i \in 1..Len(t) : \E k \in 1..Len(t[i]) : t[i][k] = e
<1>1. t \in Seq(Buckets(A)) /\ DOMAIN t = 1..Len(t)
  BY DEF Tables
<1>2. \A i \in 1..Len(t) : t[i] \in Seq(Places(A)) /\ DOMAIN t[i] = 1..Len(t[i])
  BY <1>1 DEF Buckets
<1>3. \A i \in 1..Len(t) : e \in ToSet(t[i]) <=> \E k \in 1..Len(t[i]) : t[i][k] = e
  BY <1>2 DEF ToSet
<1>4. e \in Entries(t) <=> \E i \in DOMAIN t : e \in ToSet(t[i])
  BY Zenon DEF Entries
<1> QED
  BY <1>1, <1>3, <1>4

\* The values of a function on a finite set.
LEMMA FiniteValues ==
    ASSUME NEW f, IsFiniteSet(DOMAIN f), f = [x \in DOMAIN f |-> f[x]]
    PROVE  IsFiniteSet({f[x] : x \in DOMAIN f})
<1> DEFINE T == {f[x] : x \in DOMAIN f}
<1>1. f \in Surjection(DOMAIN f, T)
  BY DEF Surjection
<1> HIDE DEF T
<1> QED
  BY <1>1, FS_Surjection DEF T

\* A table has finitely many entries, with ids and addresses.
LEMMA EntriesAre ==
    ASSUME NEW A, NEW t \in Tables(A)
    PROVE  IsFiniteSet(Entries(t)) /\ Entries(t) \subseteq Places(A)
<1>1. t \in Seq(Buckets(A)) /\ DOMAIN t = 1..Len(t) /\ Len(t) \in Nat
  BY DEF Tables
<1>2. \A i \in 1..Len(t) :
         t[i] \in Seq(Places(A)) /\ DOMAIN t[i] = 1..Len(t[i]) /\ Len(t[i]) \in Nat
  BY <1>1 DEF Buckets
<1>3. ASSUME NEW i \in DOMAIN t
      PROVE  IsFiniteSet(ToSet(t[i])) /\ ToSet(t[i]) \subseteq Places(A)
  <2>1. IsFiniteSet(DOMAIN t[i])
    BY <1>1, <1>2, FS_Interval
  <2>2. t[i] = [x \in DOMAIN t[i] |-> t[i][x]]
    BY <1>1, <1>2
  <2>3. IsFiniteSet({t[i][x] : x \in DOMAIN t[i]})
    BY <2>1, <2>2, FiniteValues
  <2>4. \A x \in DOMAIN t[i] : t[i][x] \in Places(A)
    BY <1>1, <1>2
  <2> QED
    BY <2>3, <2>4 DEF ToSet
<1> DEFINE f == [i \in DOMAIN t |-> ToSet(t[i])]
           S == {f[i] : i \in DOMAIN f}
<1>4. IsFiniteSet(S)
  <2>1. IsFiniteSet(DOMAIN f)
    BY <1>1, FS_Interval
  <2>2. f = [x \in DOMAIN f |-> f[x]]
    OBVIOUS
  <2> HIDE DEF f
  <2> QED
    BY <2>1, <2>2, FiniteValues
<1>5. \A s \in S : IsFiniteSet(s) /\ s \subseteq Places(A)
  BY <1>3
<1>6. Entries(t) = UNION S
  BY DEF Entries
<1> HIDE DEF S
<1>7. IsFiniteSet(UNION S)
  BY <1>4, <1>5, FS_UNION
<1> QED
  BY <1>5, <1>6, <1>7

\* What find_closest finds is in the table.
LEMMA FoundIn ==
    ASSUME NEW A, NEW t \in Tables(A), NEW local, NEW target, NEW count
    PROVE  FindClosest(t, local, target, count) \subseteq Entries(t)
<1> DEFINE i == BucketIndex(local, target)
           far == {q \in 0..Len(t) - 1 : Cardinality(Around(t, i, 0..q - 1)) < count}
           seen == UNION {Around(t, i, {r}) : r \in far}
<1>1. DOMAIN t = 1..Len(t) /\ Len(t) \in Nat
  BY DEF Tables
<1>2. ASSUME NEW R
      PROVE  Around(t, i, R) \subseteq Entries(t)
  <2> SUFFICES ASSUME NEW b \in 0..Len(t) - 1
               PROVE  ToSet(t[b + 1]) \subseteq Entries(t)
    BY DEF Around
  <2>1. b + 1 \in DOMAIN t
    BY <1>1
  <2> QED
    BY <2>1 DEF Entries
<1> HIDE DEF i
<1>3. seen \subseteq Entries(t)
  BY <1>2
<1>4. FindClosest(t, local, target, count) = Closest(seen, target, count)
  BY Zenon DEF FindClosest, i
<1> HIDE DEF seen
<1> QED
  BY <1>3, <1>4 DEF Closest
=============================================================================
