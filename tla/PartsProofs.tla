---------------------------- MODULE PartsProofs ----------------------------
(* Theorems about the parts that stand on their own: the routing table over *)
(* time, the session of two peers, the piece scheduler, the cache, and the  *)
(* desktop client, each for any values of its constants.                    *)
EXTENDS NodeTable, PeerSession, PieceDownload, MediaCache, Desktop,
        RoutingTableProofs

-----------------------------------------------------------------------------
(* The routing table over time (NodeTable) *)

\* The nodes that last are found among the entries.
LEMMA LastsAsEntries ==
    ASSUME NEW A, NEW t \in Tables(A), NEW u \in Tables(A), Lasts(t, u)
    PROVE  \A e \in Entries(t) : e.stale \/ \E g \in Entries(u) : g.id = e.id
<1> TAKE e \in Entries(t)
<1>1. PICK i \in 1..Len(t) : \E k \in 1..Len(t[i]) : t[i][k] = e
  BY EntryOf
<1>2. PICK k \in 1..Len(t[i]) : t[i][k] = e
  BY <1>1
<1>3. CASE ~e.stale
  <2>1. PICK j \in 1..Len(u) : HasId(u[j], e.id)
    BY <1>2, <1>3 DEF Lasts
  <2>2. PICK m \in 1..Len(u[j]) : u[j][m].id = e.id
    BY <2>1 DEF HasId
  <2>3. u[j][m] \in Entries(u)
    BY EntryOf
  <2> QED
    BY <2>2, <2>3
<1> QED
  BY <1>3

\* Silence ages entries.
LEMMA SilenceKeeps ==
    ASSUME known \in Tables(Addrs), NEW silent, Silence(silent)
    PROVE  known' \in Tables(Addrs) /\ Lasts(known, known')
<1> DEFINE age == [e \in Places(Addrs) |->
                     IF e.id \in silent THEN [e EXCEPT !.stale = TRUE] ELSE e]
           older(b) == [j \in DOMAIN b |-> age[b[j]]]
           u == [i \in DOMAIN known |-> older(known[i])]
<1>1. /\ age \in [Places(Addrs) -> Places(Addrs)]
      /\ \A e \in Places(Addrs) : age[e].id = e.id
  BY DEF Places
<1>2. \A i \in DOMAIN known : \A j \in DOMAIN known[i] : known[i][j] \in Places(Addrs)
  <2>1. \A i \in DOMAIN known : known[i] \in Seq(Places(Addrs))
    BY DEF Tables, Buckets
  <2> QED
    BY <2>1
<1>3. known' = u
  <2>1. \A i \in DOMAIN known : \A j \in DOMAIN known[i] :
           age[known[i][j]] = IF known[i][j].id \in silent
                              THEN [known[i][j] EXCEPT !.stale = TRUE] ELSE known[i][j]
    BY <1>2
  <2> HIDE DEF age
  <2> QED
    BY <2>1 DEF Silence
<1> HIDE DEF age
<1>4. u \in Tables(Addrs) /\ Lasts(known, u)
  BY <1>1, AgedTable
<1> QED
  BY <1>3, <1>4

\* What is left of the node's bucket is a bucket.
LEMMA ForgetKeeps ==
    ASSUME known \in Tables(Addrs), NEW id \in Ids, Forget(id)
    PROVE  known' \in Tables(Addrs)
<1> DEFINE i == BucketIndex(LocalId, id) + 1
           b == Kept(known[i], Ids \ {id})
<1>1. known \in Seq(Buckets(Addrs)) /\ Len(known) >= IdBits
  BY DEF Tables
<1>2. i \in 1..Len(known)
  <2>1. BucketIndex(LocalId, id) \in 0..IdBits - 1
    BY LocalAssumption, BucketInTable
  <2> QED
    BY <1>1, <2>1, IdBitsAssumption
<1>3. known' = [known EXCEPT ![i] = b]
  BY Zenon DEF Forget
<1>4. b \in Buckets(Addrs)
  BY <1>1, <1>2, KeptBucket
<1> HIDE DEF i, b
<1> QED
  BY <1>1, <1>2, <1>3, <1>4 DEF Tables

LEMMA NodeStep ==
    ASSUME known \in Tables(Addrs), [NodeNext]_known
    PROVE  /\ known' \in Tables(Addrs)
           /\ (\E id \in Ids : Forget(id)) \/ Lasts(known, known')
<1>1. ASSUME NEW id \in Ids, NEW addr \in Addrs, Learn(id, addr)
      PROVE  known' \in Tables(Addrs) /\ Lasts(known, known')
  <2>1. Entry(id, addr) \in Places(Addrs)
    BY DEF Entry, Places
  <2>2. known' = Insert(known, LocalId, Entry(id, addr))
    BY <1>1 DEF Learn
  <2> QED
    BY <2>1, <2>2, LocalAssumption, InsertKeeps
<1>2. ASSUME NEW silent, Silence(silent)
      PROVE  known' \in Tables(Addrs) /\ Lasts(known, known')
  BY <1>2, SilenceKeeps
<1>3. CASE UNCHANGED known
  BY <1>3 DEF Lasts, HasId
<1> QED
  BY <1>1, <1>2, <1>3, ForgetKeeps DEF NodeNext

\* A node that was heard from within 15 minutes is in the table until it is
\* removed (KBucket::insert), for ids of any length, buckets of any size, and
\* any addresses.
THEOREM KnownNodesTheorem == NodeSpec => KnownNodesStay
<1> DEFINE Holding == known \in Tables(Addrs)
<1>1. KnownInit => Holding
  BY NewTableHolds DEF KnownInit
<1>2. Holding /\ [NodeNext]_known => Holding'
  BY NodeStep
<1>3. Holding /\ [NodeNext]_known =>
        [\A e \in Entries(known) :
           \/ e.stale
           \/ \E g \in Entries(known') : g.id = e.id
           \/ \E id \in Ids : Forget(id)]_known
  BY NodeStep, LastsAsEntries
<1> QED
  BY <1>1, <1>2, <1>3, PTL DEF NodeSpec, KnownNodesStay

-----------------------------------------------------------------------------
(* The session of two peers (PeerSession), for any blocks and any number of *)
(* calls and failed reads.                                                  *)

Rest(m) == [part |-> "rest", msg |-> m]

Parts ==
    [part : {"length", "rest"}, msg : Messages]
        \cup [part : {"alive", "handshake", "bytes"}]

\* Bytes in order: a length is followed by the rest of its message, and a rest
\* stands behind its length, or first when its length was read already. The part
\* of a message that a write left there takes in all that was written behind it.
Framed(input, reading) ==
    /\ input \in Seq(Parts)
    /\ \A i \in 1..Len(input) :
         input[i].part = "length" =>
            i < Len(input) /\ input[i + 1] = Rest(input[i].msg)
    /\ \A i \in 1..Len(input) :
         input[i].part = "rest" =>
            IF i = 1 THEN reading ELSE input[i - 1].part = "length"
    /\ \A i \in 1..Len(input) : input[i].part = "bytes" => i = Len(input)
    /\ reading => input # <<>> /\ input[1].part = "rest"

\* The messages that the bytes spell are those that are due, in their order;
\* `at` says where the rest of each one stands.
SpellsAt(input, due, at) ==
    /\ at \in [1..Len(due) -> 1..Len(input)]
    /\ \A k, l \in 1..Len(due) : k < l => at[k] < at[l]
    /\ \A k \in 1..Len(due) : input[at[k]] = Rest(due[k])
    /\ \A i \in 1..Len(input) :
         input[i].part = "rest" => \E k \in 1..Len(due) : at[k] = i

Spells(input, due) == \E at : SpellsAt(input, due, at)

PeerFields == {"stream", "wire", "input", "met", "reading", "torn", "owed",
               "due", "mixed", "calls"}

\* A peer in step with what it was sent, or torn out of it for good.
InStep(s) ==
    /\ DOMAIN s = PeerFields
    /\ ~s.mixed
    /\ s.reading \in BOOLEAN
    /\ s.owed \subseteq Blocks
    /\ s.torn => ~s.reading /\ s.input \in {<<>>, Bytes}
    /\ ~s.torn => /\ s.due \in Seq(Messages)
                  /\ Framed(s.input, s.reading)
                  /\ Spells(s.input, s.due)

PeersInStep ==
    /\ DOMAIN session = Peers
    /\ \A p \in Peers : InStep(session[p])

-----------------------------------------------------------------------------
(* Bytes *)

\* What stands in bytes that no write has cut.
LEMMA UncutParts ==
    ASSUME NEW input, NEW reading, Framed(input, reading), ~Cut(input)
    PROVE  \A i \in 1..Len(input) : input[i].part # "bytes"
<1> SUFFICES ASSUME NEW i \in 1..Len(input), input[i].part = "bytes"
             PROVE  FALSE
  OBVIOUS
<1>1. input \in Seq(Parts) /\ i = Len(input)
  BY DEF Framed
<1>2. input # <<>>
  BY <1>1
<1> QED
  BY <1>1, <1>2 DEF Cut, Last

\* A keep-alive, a handshake or a part of a message at the end changes no message.
LEMMA AppendedPart ==
    ASSUME NEW input, NEW reading \in BOOLEAN, NEW due \in Seq(Messages),
           Framed(input, reading), Spells(input, due), ~Cut(input),
           NEW x \in [part : {"alive", "handshake", "bytes"}]
    PROVE  Framed(input \o <<x>>, reading) /\ Spells(input \o <<x>>, due)
<1> DEFINE n == Len(input)
           longer == input \o <<x>>
<1>1. input \in Seq(Parts) /\ n \in Nat /\ <<x>> \in Seq(Parts) /\ x \in Parts
  BY DEF Framed, Parts
<1>2. /\ longer \in Seq(Parts) /\ Len(longer) = n + 1
      /\ \A i \in 1..n : longer[i] = input[i]
      /\ longer[n + 1] = x
  BY <1>1, ConcatProperties
<1>3. x.part # "length" /\ x.part # "rest"
  OBVIOUS
<1> HIDE DEF longer
<1>4. Framed(longer, reading)
  <2>1. \A i \in 1..n + 1 : longer[i].part \in {"length", "rest"} =>
            i \in 1..n /\ longer[i] = input[i]
    BY <1>1, <1>2, <1>3
  <2>2. reading => longer # <<>> /\ longer[1].part = "rest"
    <3>1. reading => n > 0 /\ input[1].part = "rest"
      BY <1>1 DEF Framed
    <3> QED
      BY <1>1, <1>2, <3>1
  <2>3. ASSUME NEW i \in 1..n + 1, longer[i].part = "length"
        PROVE  i < n + 1 /\ longer[i + 1] = Rest(longer[i].msg)
    <3>1. i \in 1..n /\ longer[i] = input[i]
      BY <2>1, <2>3
    <3>2. i < n /\ input[i + 1] = Rest(input[i].msg)
      BY <2>3, <3>1 DEF Framed
    <3> QED
      BY <1>1, <1>2, <3>1, <3>2
  <2>4. ASSUME NEW i \in 1..n + 1, longer[i].part = "rest"
        PROVE  IF i = 1 THEN reading ELSE longer[i - 1].part = "length"
    <3>1. i \in 1..n /\ longer[i] = input[i]
      BY <2>1, <2>4
    <3>2. IF i = 1 THEN reading ELSE input[i - 1].part = "length"
      BY <2>4, <3>1 DEF Framed
    <3> QED
      BY <1>1, <1>2, <3>1, <3>2
  <2>5. ASSUME NEW i \in 1..n + 1, longer[i].part = "bytes"
        PROVE  i = n + 1
    <3>1. CASE i \in 1..n
      BY <1>2, <2>5, <3>1, UncutParts
    <3> QED
      BY <1>1, <3>1
  <2> QED
    BY <1>2, <2>2, <2>3, <2>4, <2>5 DEF Framed
<1>5. Spells(longer, due)
  <2>1. PICK at : SpellsAt(input, due, at)
    BY DEF Spells
  <2>2. SpellsAt(longer, due, at)
    <3>1. at \in [1..Len(due) -> 1..n + 1]
      BY <1>1, <2>1 DEF SpellsAt
    <3>2. \A k \in 1..Len(due) : longer[at[k]] = Rest(due[k])
      BY <1>2, <2>1 DEF SpellsAt
    <3>3. \A i \in 1..n + 1 :
             longer[i].part = "rest" => \E k \in 1..Len(due) : at[k] = i
      <4> SUFFICES ASSUME NEW i \in 1..n + 1, longer[i].part = "rest"
                   PROVE  \E k \in 1..Len(due) : at[k] = i
        OBVIOUS
      <4>1. i \in 1..n /\ input[i].part = "rest"
        BY <1>1, <1>2, <1>3
      <4> QED
        BY <2>1, <4>1 DEF SpellsAt
    <3> QED
      BY <1>2, <2>1, <3>1, <3>2, <3>3 DEF SpellsAt
  <2> QED
    BY <2>2 DEF Spells
<1> QED
  BY <1>4, <1>5 DEF longer

\* A message that is written is one more to be handled, behind all others.
LEMMA AppendedMessage ==
    ASSUME NEW input, NEW reading \in BOOLEAN, NEW due \in Seq(Messages),
           Framed(input, reading), Spells(input, due), ~Cut(input),
           NEW m \in Messages
    PROVE  /\ Framed(input \o Encoded(m), reading)
           /\ Spells(input \o Encoded(m), Append(due, m))
           /\ Append(due, m) \in Seq(Messages)
<1> DEFINE n == Len(input)
           d == Len(due)
           end == Encoded(m)
           longer == input \o end
           more == Append(due, m)
           first == [part |-> "length", msg |-> m]
<1>1. /\ input \in Seq(Parts) /\ n \in Nat /\ d \in Nat
      /\ end \in Seq(Parts) /\ Len(end) = 2
      /\ end[1] = first /\ end[2] = Rest(m)
  BY DEF Framed, Parts, Encoded, Rest
<1> HIDE DEF end
<1>2. /\ longer \in Seq(Parts) /\ Len(longer) = n + 2
      /\ \A i \in 1..n : longer[i] = input[i]
      /\ longer[n + 1] = first /\ longer[n + 2] = Rest(m)
  <2>1. /\ longer \in Seq(Parts) /\ Len(longer) = n + 2
        /\ \A i \in 1..n + 2 : longer[i] = IF i <= n THEN input[i] ELSE end[i - n]
    <3>1. /\ longer \in Seq(Parts) /\ Len(longer) = Len(input) + Len(end)
          /\ \A i \in 1..Len(input) + Len(end) :
               longer[i] = IF i <= Len(input) THEN input[i] ELSE end[i - Len(input)]
      BY <1>1, ConcatProperties
    <3> HIDE DEF longer
    <3> QED
      BY <1>1, <3>1
  <2> QED
    BY <1>1, <2>1
<1>3. /\ more \in Seq(Messages) /\ Len(more) = d + 1
      /\ \A k \in 1..d : more[k] = due[k]
      /\ more[d + 1] = m
  BY <1>1, AppendProperties
<1>4. first.part = "length" /\ first.msg = m /\ Rest(m).part = "rest"
  BY DEF Rest
<1> HIDE DEF longer, more, first
<1>5. Framed(longer, reading)
  <2>1. \A i \in 1..n + 2 : i \in 1..n \/ i = n + 1 \/ i = n + 2
    BY <1>1
  <2>2. reading => longer # <<>> /\ longer[1].part = "rest"
    <3>1. reading => n > 0 /\ input[1].part = "rest"
      BY <1>1 DEF Framed
    <3> QED
      BY <1>1, <1>2, <3>1
  <2>3. ASSUME NEW i \in 1..n + 2, longer[i].part = "length"
        PROVE  i < n + 2 /\ longer[i + 1] = Rest(longer[i].msg)
    <3>1. CASE i \in 1..n
      <4>1. i < n /\ input[i + 1] = Rest(input[i].msg)
        BY <1>2, <2>3, <3>1 DEF Framed
      <4>2. i + 1 \in 1..n
        BY <1>1, <3>1, <4>1
      <4> QED
        BY <1>1, <1>2, <3>1, <4>1, <4>2
    <3>2. CASE i = n + 1
      BY <1>1, <1>2, <1>4, <3>2
    <3> QED
      BY <1>2, <1>4, <2>1, <2>3, <3>1, <3>2
  <2>4. ASSUME NEW i \in 1..n + 2, longer[i].part = "rest"
        PROVE  IF i = 1 THEN reading ELSE longer[i - 1].part = "length"
    <3>1. CASE i \in 1..n
      <4>1. IF i = 1 THEN reading ELSE input[i - 1].part = "length"
        BY <1>2, <2>4, <3>1 DEF Framed
      <4> QED
        BY <1>1, <1>2, <3>1, <4>1
    <3>2. CASE i = n + 2
      <4>1. i # 1 /\ i - 1 = n + 1
        BY <1>1, <3>2
      <4> QED
        BY <1>2, <1>4, <4>1
    <3> QED
      BY <1>2, <1>4, <2>1, <2>4, <3>1, <3>2
  <2>5. ASSUME NEW i \in 1..n + 2, longer[i].part = "bytes"
        PROVE  i = n + 2
    <3>1. CASE i \in 1..n
      BY <1>2, <2>5, <3>1, UncutParts
    <3>2. CASE i = n + 1
      BY <1>2, <1>4, <2>5, <3>2
    <3> QED
      BY <2>1, <3>1, <3>2
  <2> QED
    BY <1>2, <2>2, <2>3, <2>4, <2>5 DEF Framed
<1>6. Spells(longer, more)
  <2>1. PICK at : SpellsAt(input, due, at)
    BY DEF Spells
  <2> DEFINE to == [k \in 1..d + 1 |-> IF k = d + 1 THEN n + 2 ELSE at[k]]
  <2>2. \A k \in 1..d : at[k] \in 1..n
    BY <2>1 DEF SpellsAt
  <2>3. /\ to \in [1..d + 1 -> 1..n + 2] /\ to[d + 1] = n + 2
        /\ \A k \in 1..d : k \in 1..d + 1 /\ k # d + 1 /\ to[k] = at[k]
    BY <1>1, <2>2
  <2> HIDE DEF to
  <2>4. \A k, l \in 1..d + 1 : k < l => to[k] < to[l]
    <3> SUFFICES ASSUME NEW k \in 1..d + 1, NEW l \in 1..d + 1, k < l
                 PROVE  to[k] < to[l]
      OBVIOUS
    <3>1. k \in 1..d /\ to[k] = at[k] /\ at[k] \in 1..n
      BY <1>1, <2>2, <2>3
    <3>2. CASE l = d + 1
      BY <1>1, <2>3, <3>1, <3>2
    <3>3. CASE l \in 1..d
      BY <2>1, <2>3, <3>1, <3>3 DEF SpellsAt
    <3> QED
      BY <1>1, <3>2, <3>3
  <2>5. \A k \in 1..d + 1 : longer[to[k]] = Rest(more[k])
    <3> TAKE k \in 1..d + 1
    <3>1. CASE k = d + 1
      BY <1>2, <1>3, <2>3, <3>1
    <3>2. CASE k \in 1..d
      BY <1>2, <1>3, <2>1, <2>2, <2>3, <3>2 DEF SpellsAt
    <3> QED
      BY <1>1, <3>1, <3>2
  <2>6. \A i \in 1..n + 2 : longer[i].part = "rest" => \E k \in 1..d + 1 : to[k] = i
    <3> SUFFICES ASSUME NEW i \in 1..n + 2, longer[i].part = "rest"
                 PROVE  \E k \in 1..d + 1 : to[k] = i
      OBVIOUS
    <3>1. CASE i \in 1..n
      <4>1. PICK k \in 1..d : at[k] = i
        BY <1>2, <2>1, <3>1 DEF SpellsAt
      <4> QED
        BY <2>3, <4>1
    <3>2. CASE i = n + 2
      <4>1. d + 1 \in 1..d + 1
        BY <1>1
      <4> QED
        BY <2>3, <3>2, <4>1
    <3>3. i \in 1..n \/ i = n + 1 \/ i = n + 2
      BY <1>1
    <3> QED
      BY <1>2, <1>4, <3>1, <3>2, <3>3
  <2> QED
    <3>1. Len(longer) = n + 2 /\ Len(more) = d + 1
      BY <1>2, <1>3
    <3>2. SpellsAt(longer, more, to)
      BY <2>3, <2>4, <2>5, <2>6, <3>1 DEF SpellsAt
    <3> QED
      BY <3>2 DEF Spells
<1> QED
  BY <1>3, <1>5, <1>6 DEF longer, more, end

\* What the tail of some bytes, or of some messages, is.
LEMMA TailOf ==
    ASSUME NEW S, NEW s \in Seq(S), s # <<>>
    PROVE  /\ Len(s) \in Nat /\ Len(s) >= 1 /\ s[1] \in S /\ Head(s) = s[1]
           /\ Tail(s) \in Seq(S) /\ Len(Tail(s)) = Len(s) - 1
           /\ \A i \in 1..Len(s) - 1 : Tail(s)[i] = s[i + 1]
<1>1. /\ Tail(s) \in Seq(S) /\ Len(Tail(s)) = Len(s) - 1
      /\ \A i \in 1..Len(Tail(s)) : Tail(s)[i] = s[i + 1]
  BY HeadTailProperties
<1>2. Len(s) \in Nat /\ Len(s) >= 1 /\ s[1] \in S /\ Head(s) = s[1]
  OBVIOUS
<1> QED
  BY <1>1, <1>2

\* Without its first part, which is of no message or its length, the rest of the
\* bytes spells the same messages.
LEMMA TakenPart ==
    ASSUME NEW input, NEW due \in Seq(Messages), input # <<>>,
           Framed(input, FALSE), Spells(input, due)
    PROVE  /\ Framed(Tail(input), input[1].part = "length")
           /\ Spells(Tail(input), due)
<1> DEFINE n == Len(input)
           t == Tail(input)
<1>1. input \in Seq(Parts)
  BY DEF Framed
<1>2. /\ n \in Nat /\ n >= 1 /\ t \in Seq(Parts) /\ Len(t) = n - 1
      /\ \A i \in 1..n - 1 : i + 1 \in 1..n /\ t[i] = input[i + 1]
  BY <1>1, TailOf
<1> HIDE DEF t
<1>3. input[1].part # "rest"
  BY <1>2 DEF Framed
<1>4. Framed(t, input[1].part = "length")
  <2>1. ASSUME NEW i \in 1..n - 1, t[i].part = "length"
        PROVE  i < n - 1 /\ t[i + 1] = Rest(t[i].msg)
    <3>1. i + 1 \in 1..n /\ t[i] = input[i + 1]
      BY <1>2
    <3>2. i + 1 < n /\ input[(i + 1) + 1] = Rest(input[i + 1].msg)
      BY <2>1, <3>1 DEF Framed
    <3>3. i + 1 \in 1..n - 1
      BY <1>2, <3>2
    <3> QED
      BY <1>2, <3>1, <3>2, <3>3
  <2>2. ASSUME NEW i \in 1..n - 1, t[i].part = "rest"
        PROVE  IF i = 1 THEN input[1].part = "length" ELSE t[i - 1].part = "length"
    <3>1. i + 1 \in 1..n /\ i + 1 # 1 /\ input[i + 1].part = "rest"
      BY <1>2, <2>2
    <3>2. input[(i + 1) - 1].part = "length" /\ (i + 1) - 1 = i
      BY <3>1 DEF Framed
    <3>3. CASE i # 1
      <4>1. i - 1 \in 1..n - 1 /\ (i - 1) + 1 = i
        BY <1>2, <3>3
      <4> QED
        BY <1>2, <3>2, <3>3, <4>1
    <3> QED
      BY <3>2, <3>3
  <2>3. input[1].part = "length" => t # <<>> /\ t[1].part = "rest"
    <3> HAVE input[1].part = "length"
    <3>1. 1 < n /\ input[1 + 1] = Rest(input[1].msg)
      BY <1>2 DEF Framed
    <3>2. 1 \in 1..n - 1 /\ t[1] = input[1 + 1]
      BY <1>2, <3>1
    <3> QED
      BY <1>2, <3>1, <3>2 DEF Rest
  <2>4. ASSUME NEW i \in 1..n - 1, t[i].part = "bytes"
        PROVE  i = n - 1
    <3>1. i + 1 \in 1..n /\ input[i + 1].part = "bytes"
      BY <1>2, <2>4
    <3>2. i + 1 = n
      BY <3>1 DEF Framed
    <3> QED
      BY <1>2, <3>2
  <2> QED
    BY <1>2, <2>1, <2>2, <2>3, <2>4 DEF Framed
<1>5. Spells(t, due)
  <2>1. PICK at : SpellsAt(input, due, at)
    BY DEF Spells
  <2> DEFINE d == Len(due)
             to == [k \in 1..d |-> at[k] - 1]
  <2>2. d \in Nat
    OBVIOUS
  <2>3. \A k \in 1..d : at[k] \in 1..n /\ at[k] # 1 /\ at[k] - 1 \in 1..n - 1
    <3> TAKE k \in 1..d
    <3>1. at[k] \in 1..n /\ input[at[k]].part = "rest"
      <4>1. at[k] \in 1..n /\ input[at[k]] = Rest(due[k])
        BY <2>1 DEF SpellsAt
      <4> QED
        BY <4>1 DEF Rest
    <3> QED
      BY <1>2, <1>3, <3>1
  <2>4. to \in [1..d -> 1..n - 1] /\ \A k \in 1..d : to[k] = at[k] - 1
    BY <2>3
  <2> HIDE DEF to
  <2>5. \A k, l \in 1..d : k < l => to[k] < to[l]
    <3> SUFFICES ASSUME NEW k \in 1..d, NEW l \in 1..d, k < l
                 PROVE  to[k] < to[l]
      OBVIOUS
    <3>1. at[k] < at[l]
      BY <2>1 DEF SpellsAt
    <3> QED
      BY <1>2, <2>3, <2>4, <3>1
  <2>6. \A k \in 1..d : t[to[k]] = Rest(due[k])
    <3> TAKE k \in 1..d
    <3>1. to[k] \in 1..n - 1 /\ to[k] + 1 = at[k]
      BY <2>3, <2>4
    <3>2. t[to[k]] = input[at[k]]
      BY <1>2, <3>1
    <3> QED
      BY <2>1, <3>2 DEF SpellsAt
  <2>7. ASSUME NEW i \in 1..n - 1, t[i].part = "rest"
        PROVE  \E k \in 1..d : to[k] = i
    <3>1. i + 1 \in 1..n /\ input[i + 1].part = "rest"
      BY <1>2, <2>7
    <3>2. PICK k \in 1..d : at[k] = i + 1
      BY <2>1, <3>1 DEF SpellsAt
    <3>3. to[k] = i
      BY <2>4, <3>2
    <3> QED
      BY <3>3
  <2>8. SpellsAt(t, due, to)
    BY <1>2, <2>4, <2>5, <2>6, <2>7 DEF SpellsAt
  <2> QED
    BY <2>8 DEF Spells
<1> QED
  BY <1>4, <1>5 DEF t

\* When a length was read, what comes next is the rest of the message that is due.
LEMMA TakenRest ==
    ASSUME NEW input, NEW due \in Seq(Messages),
           Framed(input, TRUE), Spells(input, due)
    PROVE  /\ input # <<>> /\ due # <<>> /\ input[1] = Rest(due[1])
           /\ Framed(Tail(input), FALSE) /\ Spells(Tail(input), Tail(due))
           /\ Tail(due) \in Seq(Messages)
<1> DEFINE n == Len(input)
           d == Len(due)
           t == Tail(input)
           left == Tail(due)
<1>1. input \in Seq(Parts) /\ input # <<>> /\ input[1].part = "rest"
  BY DEF Framed
<1>2. /\ n \in Nat /\ n >= 1 /\ t \in Seq(Parts) /\ Len(t) = n - 1
      /\ \A i \in 1..n - 1 : i + 1 \in 1..n /\ t[i] = input[i + 1]
  BY <1>1, TailOf
<1>3. PICK at : SpellsAt(input, due, at)
  BY DEF Spells
<1>4. \A k \in 1..d : at[k] \in 1..n
  BY <1>3 DEF SpellsAt
<1>5. d \in Nat /\ d >= 1 /\ at[1] = 1
  <2>1. d \in Nat
    OBVIOUS
  <2>2. PICK k \in 1..d : at[k] = 1
    BY <1>1, <1>2, <1>3 DEF SpellsAt
  <2>3. 1 \in 1..d /\ (k # 1 => at[1] < at[k])
    BY <1>3, <2>1, <2>2 DEF SpellsAt
  <2> QED
    BY <1>4, <2>1, <2>2, <2>3
<1>6. due # <<>> /\ input[1] = Rest(due[1])
  BY <1>3, <1>5 DEF SpellsAt
<1>7. /\ left \in Seq(Messages) /\ Len(left) = d - 1
      /\ \A k \in 1..d - 1 : k + 1 \in 1..d /\ left[k] = due[k + 1]
  BY <1>5, <1>6, TailOf
<1> HIDE DEF t, left
<1>8. Framed(t, FALSE)
  <2>1. ASSUME NEW i \in 1..n - 1, t[i].part = "length"
        PROVE  i < n - 1 /\ t[i + 1] = Rest(t[i].msg)
    <3>1. i + 1 \in 1..n /\ t[i] = input[i + 1]
      BY <1>2
    <3>2. i + 1 < n /\ input[(i + 1) + 1] = Rest(input[i + 1].msg)
      BY <2>1, <3>1 DEF Framed
    <3>3. i + 1 \in 1..n - 1
      BY <1>2, <3>2
    <3> QED
      BY <1>2, <3>1, <3>2, <3>3
  <2>2. ASSUME NEW i \in 1..n - 1, t[i].part = "rest"
        PROVE  i # 1 /\ t[i - 1].part = "length"
    <3>1. i + 1 \in 1..n /\ i + 1 # 1 /\ input[i + 1].part = "rest"
      BY <1>2, <2>2
    <3>2. input[(i + 1) - 1].part = "length" /\ (i + 1) - 1 = i
      BY <3>1 DEF Framed
    <3>3. i # 1
      BY <1>1, <3>2
    <3>4. i - 1 \in 1..n - 1 /\ (i - 1) + 1 = i
      BY <1>2, <3>3
    <3> QED
      BY <1>2, <3>2, <3>3, <3>4
  <2>3. ASSUME NEW i \in 1..n - 1, t[i].part = "bytes"
        PROVE  i = n - 1
    <3>1. i + 1 \in 1..n /\ input[i + 1].part = "bytes"
      BY <1>2, <2>3
    <3>2. i + 1 = n
      BY <3>1 DEF Framed
    <3> QED
      BY <1>2, <3>2
  <2> QED
    BY <1>2, <2>1, <2>2, <2>3 DEF Framed
<1>9. Spells(t, left)
  <2> DEFINE to == [k \in 1..d - 1 |-> at[k + 1] - 1]
  <2>1. \A k \in 1..d - 1 : k + 1 \in 1..d /\ at[k + 1] - 1 \in 1..n - 1
    <3> TAKE k \in 1..d - 1
    <3>1. k + 1 \in 1..d /\ 1 \in 1..d /\ 1 < k + 1
      BY <1>5
    <3>2. at[1] < at[k + 1] /\ at[k + 1] \in 1..n
      BY <1>3, <1>4, <3>1 DEF SpellsAt
    <3> QED
      BY <1>2, <1>5, <3>1, <3>2
  <2>2. /\ to \in [1..d - 1 -> 1..n - 1]
        /\ \A k \in 1..d - 1 : to[k] = at[k + 1] - 1
    BY <2>1
  <2> HIDE DEF to
  <2>3. \A k, l \in 1..d - 1 : k < l => to[k] < to[l]
    <3> SUFFICES ASSUME NEW k \in 1..d - 1, NEW l \in 1..d - 1, k < l
                 PROVE  to[k] < to[l]
      OBVIOUS
    <3>1. k + 1 \in 1..d /\ l + 1 \in 1..d /\ k + 1 < l + 1
      BY <1>5
    <3>2. at[k + 1] < at[l + 1] /\ at[k + 1] \in 1..n /\ at[l + 1] \in 1..n
      BY <1>3, <1>4, <3>1 DEF SpellsAt
    <3> QED
      BY <2>2, <3>2
  <2>4. \A k \in 1..d - 1 : t[to[k]] = Rest(left[k])
    <3> TAKE k \in 1..d - 1
    <3>1. k + 1 \in 1..d /\ to[k] \in 1..n - 1 /\ to[k] + 1 = at[k + 1]
      BY <1>4, <2>1, <2>2
    <3>2. t[to[k]] = input[at[k + 1]]
      BY <1>2, <3>1
    <3>3. left[k] = due[k + 1]
      BY <1>7
    <3> QED
      BY <1>3, <3>1, <3>2, <3>3 DEF SpellsAt
  <2>5. ASSUME NEW i \in 1..n - 1, t[i].part = "rest"
        PROVE  \E k \in 1..d - 1 : to[k] = i
    <3>1. i + 1 \in 1..n /\ input[i + 1].part = "rest"
      BY <1>2, <2>5
    <3>2. PICK k \in 1..d : at[k] = i + 1
      BY <1>3, <3>1 DEF SpellsAt
    <3>3. k # 1 /\ k - 1 \in 1..d - 1 /\ (k - 1) + 1 = k
      BY <1>5, <3>2
    <3>4. to[k - 1] = i
      BY <2>2, <3>2, <3>3
    <3> QED
      BY <3>3, <3>4
  <2>6. SpellsAt(t, left, to)
    BY <1>2, <1>7, <2>2, <2>3, <2>4, <2>5 DEF SpellsAt
  <2> QED
    BY <2>6 DEF Spells
<1> QED
  BY <1>1, <1>6, <1>7, <1>8, <1>9 DEF t, left

-----------------------------------------------------------------------------
(* Peers *)

\* The other peer is one, and another one.
LEMMA OtherPeer ==
    ASSUME NEW p \in Peers
    PROVE  /\ Other(p) \in Peers /\ Other(p) # p
           /\ \A q \in Peers : q = p \/ q = Other(p)
<1>1. \E q \in Peers : q # p
  BY PeersAssumption
<1>2. Other(p) \in Peers /\ Other(p) # p
  BY <1>1 DEF Other
<1> QED
  BY <1>2, PeersAssumption

\* Any sessions of the two peers, in step or not.
Shaped(s) == DOMAIN s = Peers /\ \A q \in Peers : DOMAIN s[q] = PeerFields

\* What keeps a peer in step: the fields that say what it was sent and has read
\* stay as they are.
Same(a, b) ==
    /\ DOMAIN b = PeerFields
    /\ b.input = a.input /\ b.due = a.due /\ b.reading = a.reading
    /\ b.torn = a.torn /\ b.mixed = a.mixed /\ b.owed = a.owed

\* One of the peers changes.
LEMMA OneChanges ==
    ASSUME NEW s, Shaped(s), NEW p \in Peers, NEW x, DOMAIN x = PeerFields
    PROVE  /\ Shaped([s EXCEPT ![p] = x])
           /\ [s EXCEPT ![p] = x][p] = x
           /\ [s EXCEPT ![p] = x][Other(p)] = s[Other(p)]
<1>1. Other(p) \in Peers /\ Other(p) # p
  BY OtherPeer
<1> QED
  BY <1>1 DEF Shaped

LEMMA SameInStep ==
    ASSUME NEW a, NEW b, InStep(a), Same(a, b)
    PROVE  InStep(b)
  BY DEF InStep, Same

\* A peer once the bytes have come to it.
Reached(to, bytes) ==
    [to EXCEPT !.input = IF to.torn /\ bytes # <<>> THEN Bytes
                         ELSE to.input \o bytes]

\* Bytes that are written concern their reader, and only if it has not closed and
\* no write before was cut.
LEMMA CarriedFields ==
    ASSUME NEW s, Shaped(s), NEW p \in Peers, NEW bytes
    PROVE  LET to == s[Other(p)] IN
           /\ Shaped(Carried(s, p, bytes))
           /\ \A q \in Peers \ {Other(p)} : Carried(s, p, bytes)[q] = s[q]
           /\ to.stream # "open" \/ Cut(to.input) => Carried(s, p, bytes) = s
           /\ to.stream = "open" /\ ~Cut(to.input) =>
                Carried(s, p, bytes)[Other(p)] = Reached(to, bytes)
<1>1. Other(p) \in Peers
  BY OtherPeer
<1>2. CASE s[Other(p)].stream # "open" \/ Cut(s[Other(p)].input)
  BY <1>2 DEF Carried
<1>3. CASE s[Other(p)].stream = "open" /\ ~Cut(s[Other(p)].input)
  <2> DEFINE new == IF s[Other(p)].torn /\ bytes # <<>> THEN Bytes
                    ELSE s[Other(p)].input \o bytes
             w == Carried(s, p, bytes)
  <2>1. w = [s EXCEPT ![Other(p)].input = new]
    BY <1>3 DEF Carried
  <2> HIDE DEF w, new
  <2>2. /\ Shaped(w)
        /\ \A q \in Peers \ {Other(p)} : w[q] = s[q]
        /\ w[Other(p)] = [s[Other(p)] EXCEPT !.input = new]
    BY <1>1, <2>1 DEF Shaped
  <2> QED
    BY <1>3, <2>2 DEF w, new, Reached
<1> QED
  BY <1>2, <1>3

\* Bytes of no whole message leave their reader in step, and any bytes one that
\* is torn.
LEMMA CarriedInStep ==
    ASSUME NEW s, Shaped(s), NEW p \in Peers, NEW bytes,
           InStep(s[Other(p)]),
           s[Other(p)].torn \/ bytes \in {<<>>, KeepAlive, Handshake, Bytes}
    PROVE  /\ Shaped(Carried(s, p, bytes))
           /\ InStep(Carried(s, p, bytes)[Other(p)])
           /\ \A q \in Peers \ {Other(p)} : Carried(s, p, bytes)[q] = s[q]
<1> DEFINE to == s[Other(p)]
           w == Carried(s, p, bytes)
           Goal == /\ Shaped(w) /\ InStep(w[Other(p)])
                   /\ \A q \in Peers \ {Other(p)} : w[q] = s[q]
<1> SUFFICES Goal
  OBVIOUS
<1>1. /\ Shaped(w)
      /\ \A q \in Peers \ {Other(p)} : w[q] = s[q]
      /\ to.stream # "open" \/ Cut(to.input) => w = s
      /\ to.stream = "open" /\ ~Cut(to.input) => w[Other(p)] = Reached(to, bytes)
  BY CarriedFields
<1> HIDE DEF w
<1>2. CASE to.stream # "open" \/ Cut(to.input)
  BY <1>1, <1>2
<1>3. CASE to.stream = "open" /\ ~Cut(to.input) /\ to.torn
  <2> DEFINE new == IF bytes # <<>> THEN Bytes ELSE to.input \o bytes
  <2>1. w[Other(p)] = [to EXCEPT !.input = new]
    BY <1>1, <1>3 DEF Reached
  <2>2. new \in {<<>>, Bytes}
    <3>1. to.input \in {<<>>, Bytes}
      BY <1>3 DEF InStep
    <3>2. \A x \in {<<>>, Bytes} : x \o <<>> = x
      BY DEF Bytes
    <3> QED
      BY <3>1, <3>2
  <2> HIDE DEF new
  <2>3. InStep(w[Other(p)])
    BY <1>3, <2>1, <2>2 DEF InStep, PeerFields
  <2> QED
    BY <1>1, <2>3
<1>4. CASE to.stream = "open" /\ ~Cut(to.input) /\ ~to.torn
  <2> DEFINE new == to.input \o bytes
  <2>1. /\ to.due \in Seq(Messages) /\ to.reading \in BOOLEAN
        /\ Framed(to.input, to.reading) /\ Spells(to.input, to.due)
    BY <1>4 DEF InStep
  <2>2. Framed(new, to.reading) /\ Spells(new, to.due)
    <3>1. CASE bytes = <<>>
      <4>1. to.input \in Seq(Parts)
        BY <2>1 DEF Framed
      <4>2. new = to.input
        BY <3>1, <4>1
      <4> QED
        BY <2>1, <4>2
    <3>2. CASE bytes # <<>>
      <4>1. PICK x \in [part : {"alive", "handshake", "bytes"}] : bytes = <<x>>
        BY <1>4, <3>2 DEF KeepAlive, Handshake, Bytes
      <4>2. /\ Framed(to.input \o <<x>>, to.reading)
            /\ Spells(to.input \o <<x>>, to.due)
        BY <1>4, <2>1, AppendedPart
      <4> QED
        BY <4>1, <4>2
    <3> QED
      BY <3>1, <3>2
  <2>3. w[Other(p)] = [to EXCEPT !.input = new]
    BY <1>1, <1>4 DEF Reached
  <2> HIDE DEF new
  <2>4. InStep(w[Other(p)])
    BY <1>4, <2>2, <2>3 DEF InStep, PeerFields
  <2> QED
    BY <1>1, <2>4
<1> QED
  BY <1>2, <1>3, <1>4

\* A message that is written whole is due to its reader, if the reader can still
\* read it.
LEMMA SaidInStep ==
    ASSUME NEW s, Shaped(s), NEW p \in Peers, NEW m \in Messages,
           NEW bytes \in OnStream(Encoded(m)), InStep(s[Other(p)])
    PROVE  /\ Shaped(Said(s, p, m, bytes)) /\ InStep(Said(s, p, m, bytes)[Other(p)])
           /\ \A q \in Peers \ {Other(p)} : Said(s, p, m, bytes)[q] = s[q]
<1> DEFINE to == s[Other(p)]
           w == Carried(s, p, bytes)
           v == Said(s, p, m, bytes)
           whole == /\ bytes = Encoded(m)
                    /\ to.stream = "open" /\ ~to.torn /\ ~Cut(to.input)
           Goal == /\ Shaped(v) /\ InStep(v[Other(p)])
                   /\ \A q \in Peers \ {Other(p)} : v[q] = s[q]
<1> SUFFICES Goal
  OBVIOUS
<1>1. v = IF whole THEN [w EXCEPT ![Other(p)].due = Append(@, m)] ELSE w
  BY DEF Said
<1>2. /\ Shaped(w)
      /\ \A q \in Peers \ {Other(p)} : w[q] = s[q]
      /\ to.stream # "open" \/ Cut(to.input) => w = s
      /\ to.stream = "open" /\ ~Cut(to.input) => w[Other(p)] = Reached(to, bytes)
  BY CarriedFields
<1>3. Other(p) \in Peers
  BY OtherPeer
<1>4. CASE ~whole /\ (to.stream # "open" \/ Cut(to.input))
  <2> HIDE DEF w, v
  <2> QED
    BY <1>1, <1>2, <1>4
<1>5. CASE ~whole /\ ~(to.stream # "open" \/ Cut(to.input))
  <2>1. to.torn \/ bytes \in {<<>>, KeepAlive, Handshake, Bytes}
    BY <1>5 DEF OnStream
  <2>2. /\ Shaped(w) /\ InStep(w[Other(p)])
        /\ \A q \in Peers \ {Other(p)} : w[q] = s[q]
    BY <2>1, CarriedInStep
  <2>3. v = w
    BY <1>1, <1>5
  <2> HIDE DEF w, v
  <2> QED
    BY <2>2, <2>3
<1>6. CASE whole
  <2> DEFINE new == to.input \o bytes
             more == Append(to.due, m)
  <2>1. /\ to.due \in Seq(Messages) /\ to.reading \in BOOLEAN
        /\ Framed(to.input, to.reading) /\ Spells(to.input, to.due)
    BY <1>6 DEF InStep
  <2>2. Framed(new, to.reading) /\ Spells(new, more) /\ more \in Seq(Messages)
    BY <1>6, <2>1, AppendedMessage
  <2> HIDE DEF w, v
  <2>3. /\ w[Other(p)] = [to EXCEPT !.input = new]
        /\ v = [w EXCEPT ![Other(p)].due = Append(@, m)]
    BY <1>1, <1>2, <1>6 DEF Reached
  <2> HIDE DEF new
  <2>4. /\ Shaped(v)
        /\ \A q \in Peers \ {Other(p)} : v[q] = s[q]
        /\ v[Other(p)] = [w[Other(p)] EXCEPT !.due = Append(@, m)]
    BY <1>2, <1>3, <2>3 DEF Shaped
  <2>5. v[Other(p)] = [to EXCEPT !.input = new, !.due = more]
    BY <2>3, <2>4 DEF InStep, PeerFields
  <2> HIDE DEF more
  <2>6. InStep(v[Other(p)])
    BY <1>6, <2>2, <2>5 DEF InStep, PeerFields
  <2> QED
    BY <2>4, <2>6
<1> QED
  BY <1>4, <1>5, <1>6

\* What handling a message changes of the peer that handles it.
After(a, b) ==
    /\ DOMAIN b = PeerFields
    /\ b.input = a.input /\ b.reading = a.reading /\ b.torn = a.torn
    /\ ~b.mixed
    /\ b.owed \subseteq Blocks
    /\ b.due = IF a.torn THEN a.due ELSE Tail(a.due)

\* The message that is due is handled as the one that was due; its reply is due
\* to the other peer.
LEMMA HandledInStep ==
    ASSUME NEW s, Shaped(s), NEW p \in Peers, NEW m \in Messages,
           NEW bytes \in OnStream(Encoded(Reply)),
           InStep(s[Other(p)]), ~s[p].mixed, s[p].owed \subseteq Blocks,
           s[p].torn \/ (s[p].due \in Seq(Messages) /\ s[p].due # <<>> /\ s[p].due[1] = m)
    PROVE  /\ Shaped(Handled(s, p, m, bytes))
           /\ InStep(Handled(s, p, m, bytes)[Other(p)])
           /\ After(s[p], Handled(s, p, m, bytes)[p])
<1> DEFINE me == s[p]
           t == IF me.torn THEN s ELSE Met(s, p, m)
           h == Handled(s, p, m, bytes)
           Goal(u) == Shaped(u) /\ InStep(u[Other(p)]) /\ After(me, u[p])
<1>1. Other(p) \in Peers /\ Other(p) # p
  BY OtherPeer
<1>2. Goal(t)
  <2>1. CASE me.torn
    BY <2>1 DEF After, Shaped
  <2>2. CASE ~me.torn
    <3>1. me.due \in Seq(Messages) /\ me.due # <<>> /\ me.due[1] = m
      BY <2>2
    <3>2. IsPrefix(<<m>>, me.due)
      BY <3>1 DEF IsPrefix
    <3> DEFINE x == [me EXCEPT !.mixed = @ \/ ~IsPrefix(<<m>>, me.due),
                               !.due = IF @ = <<>> THEN @ ELSE Tail(@)]
    <3>3. t = [s EXCEPT ![p] = x]
      BY <2>2 DEF Met
    <3>4. After(me, x) /\ DOMAIN x = PeerFields
      BY <2>2, <3>1, <3>2 DEF After, Shaped, PeerFields
    <3> HIDE DEF x
    <3>5. Goal([s EXCEPT ![p] = x])
      BY <3>4, OneChanges
    <3> HIDE DEF t
    <3> QED
      BY <3>3, <3>5
  <2> QED
    BY <2>1, <2>2
<1>3. ASSUME NEW v
      PROVE  Goal([t EXCEPT ![p].wire = v])
  <2> DEFINE x == [t[p] EXCEPT !.wire = v]
  <2>1. Shaped(t) /\ After(me, t[p]) /\ t[Other(p)] = t[Other(p)]
    BY <1>2
  <2>2. After(me, x) /\ DOMAIN x = PeerFields
    <3> HIDE DEF t
    <3> QED
      BY <2>1 DEF After, PeerFields
  <2> HIDE DEF x, t
  <2>3. Goal([t EXCEPT ![p] = x])
    BY <1>2, <2>2, OneChanges
  <2> QED
    BY <2>3 DEF x
<1>4. CASE m.id \in {"Choke", "Unchoke"}
  <2>1. h = [t EXCEPT ![p].wire = [t[p].wire EXCEPT !.peer_choking = (m.id = "Choke")]]
    BY <1>4 DEF Handled
  <2> HIDE DEF h, t
  <2> QED
    BY <1>3, <2>1 DEF h
<1>5. CASE m.id = "Interested"
  <2> DEFINE u == [t EXCEPT ![p].wire = [t[p].wire EXCEPT !.peer_interested = TRUE]]
  <2>1. h = IF me.wire.am_choking THEN Said(u, p, Reply, bytes) ELSE u
    BY <1>5 DEF Handled
  <2>2. Goal(u)
    <3> HIDE DEF t
    <3> QED
      BY <1>3
  <2> HIDE DEF u, h
  <2>3. Goal(Said(u, p, Reply, bytes))
    <3>1. Reply \in Messages
      BY DEF Reply, Message, Messages
    <3>2. /\ Shaped(Said(u, p, Reply, bytes))
          /\ InStep(Said(u, p, Reply, bytes)[Other(p)])
          /\ \A q \in Peers \ {Other(p)} : Said(u, p, Reply, bytes)[q] = u[q]
      BY <2>2, <3>1, SaidInStep
    <3> QED
      BY <1>1, <2>2, <3>2
  <2> QED
    BY <2>1, <2>2, <2>3 DEF h
<1>6. CASE m.id = "NotInterested"
  <2>1. h = [t EXCEPT ![p].wire = [t[p].wire EXCEPT !.peer_interested = FALSE]]
    BY <1>6 DEF Handled
  <2> HIDE DEF h, t
  <2> QED
    BY <1>3, <2>1 DEF h
<1>7. CASE m.id = "Request" /\ ~me.wire.am_choking
  <2> DEFINE x == [t[p] EXCEPT !.owed = @ \cup {m.block}]
  <2>1. h = [t EXCEPT ![p] = x]
    BY <1>7 DEF Handled
  <2>2. m.block \in Blocks
    BY <1>7 DEF Messages
  <2>3. After(me, x) /\ DOMAIN x = PeerFields
    <3> HIDE DEF t
    <3> QED
      BY <1>2, <2>2 DEF After, PeerFields
  <2> HIDE DEF x, t, h
  <2>4. Goal([t EXCEPT ![p] = x])
    BY <1>2, <2>3, OneChanges
  <2> QED
    BY <2>1, <2>4 DEF h
<1>8. CASE /\ m.id \notin {"Choke", "Unchoke", "Interested", "NotInterested"}
           /\ ~(m.id = "Request" /\ ~me.wire.am_choking)
  <2>1. h = t
    BY <1>8 DEF Handled
  <2> HIDE DEF t, h
  <2> QED
    BY <1>2, <2>1 DEF h
<1> QED
  BY <1>4, <1>5, <1>6, <1>7, <1>8

\* A peer that is torn out of its place.
LEMMA TornFields ==
    ASSUME NEW s, Shaped(s), NEW p \in Peers
    PROVE  /\ Shaped(Torn(s, p))
           /\ Torn(s, p)[Other(p)] = s[Other(p)]
           /\ Torn(s, p)[p] =
                [s[p] EXCEPT !.torn = TRUE, !.due = <<>>,
                             !.input = IF @ = <<>> THEN @ ELSE Bytes]
<1> DEFINE x == [s[p] EXCEPT !.torn = TRUE, !.due = <<>>,
                             !.input = IF @ = <<>> THEN @ ELSE Bytes]
<1>1. Torn(s, p) = [s EXCEPT ![p] = x]
  BY DEF Torn
<1>2. DOMAIN x = PeerFields
  BY DEF Shaped
<1> HIDE DEF x
<1>3. /\ Shaped([s EXCEPT ![p] = x])
      /\ [s EXCEPT ![p] = x][Other(p)] = s[Other(p)]
      /\ [s EXCEPT ![p] = x][p] = x
  BY <1>2, OneChanges
<1> QED
  BY <1>1, <1>3 DEF x

LEMMA TornInStep ==
    ASSUME NEW a, DOMAIN a = PeerFields, ~a.mixed, a.owed \subseteq Blocks,
           a.torn, a.input \in {<<>>, Bytes}, a.reading = FALSE
    PROVE  InStep(a)
  BY DEF InStep

LEMMA PeersShaped ==
    ASSUME PeersInStep, NEW p \in Peers
    PROVE  /\ Shaped(session) /\ Other(p) \in Peers /\ Other(p) # p
           /\ InStep(session[p]) /\ InStep(session[Other(p)])
<1>1. Other(p) \in Peers /\ Other(p) # p
  BY OtherPeer
<1>2. \A q \in Peers : InStep(session[q]) /\ DOMAIN session[q] = PeerFields
  BY DEF PeersInStep, InStep
<1> QED
  BY <1>1, <1>2 DEF PeersInStep, Shaped

\* A step that gives one peer another record.
LEMMA StepOfOne ==
    ASSUME PeersInStep, NEW w, Shaped(w), NEW p \in Peers, InStep(w[Other(p)]),
           NEW x, InStep(x), session' = [w EXCEPT ![p] = x]
    PROVE  PeersInStep'
<1>1. Other(p) # p /\ \A q \in Peers : q = p \/ q = Other(p)
  BY OtherPeer
<1>2. DOMAIN session' = Peers /\ session'[p] = x
  BY DEF Shaped
<1>3. \A q \in Peers : q # p => session'[q] = w[q]
  BY DEF Shaped
<1>4. ASSUME NEW q \in Peers
      PROVE  InStep(session'[q])
  BY <1>1, <1>2, <1>3
<1> QED
  BY <1>2, <1>4 DEF PeersInStep

-----------------------------------------------------------------------------
(* Steps *)

LEMMA ConnectKeeps ==
    ASSUME PeersInStep, NEW p \in Peers, Connect(p)
    PROVE  PeersInStep'
<1>1. session' = [q \in Peers |-> [session[q] EXCEPT !.stream = "open"]]
  BY DEF Connect
<1>2. ASSUME NEW q \in Peers
      PROVE  InStep([session[q] EXCEPT !.stream = "open"])
  <2>1. InStep(session[q])
    BY DEF PeersInStep
  <2> QED
    BY <2>1, SameInStep DEF Same, InStep, PeerFields
<1> QED
  BY <1>1, <1>2 DEF PeersInStep

LEMMA HandshakeKeeps ==
    ASSUME PeersInStep, NEW p \in Peers, SendHandshake(p)
    PROVE  PeersInStep'
<1>1. /\ Shaped(session) /\ Other(p) \in Peers /\ Other(p) # p
      /\ InStep(session[p]) /\ InStep(session[Other(p)])
  BY PeersShaped
<1>2. PICK bytes \in OnStream(Handshake) :
         session' = [Carried(session, p, bytes)
                        EXCEPT ![p].wire.state = IF bytes = Handshake
                                                 THEN "HandshakeSent" ELSE @]
  BY DEF SendHandshake
<1> DEFINE w == Carried(session, p, bytes)
           v == [w[p].wire EXCEPT !.state = IF bytes = Handshake
                                            THEN "HandshakeSent" ELSE @]
           x == [w[p] EXCEPT !.wire = v]
<1>3. session' = [w EXCEPT ![p] = x]
  BY <1>2
<1>4. Shaped(w) /\ InStep(w[Other(p)]) /\ InStep(w[p])
  <2>1. bytes \in {<<>>, KeepAlive, Handshake, Bytes}
    BY DEF OnStream
  <2>2. /\ Shaped(w) /\ InStep(w[Other(p)])
        /\ \A q \in Peers \ {Other(p)} : w[q] = session[q]
    BY <1>1, <2>1, CarriedInStep
  <2> QED
    BY <1>1, <2>2
<1> HIDE DEF w, v
<1>5. InStep(x)
  <2>1. Same(w[p], x)
    BY <1>4 DEF Same, InStep, PeerFields
  <2> HIDE DEF x
  <2> QED
    BY <1>4, <2>1, SameInStep
<1> HIDE DEF x
<1> QED
  BY <1>3, <1>4, <1>5, StepOfOne

\* A read that takes the head of the bytes and is torn out of its place.
LEMMA TornAtHead ==
    ASSUME PeersInStep, NEW p \in Peers, NEW left, ~session[p].reading,
           session' = Torn(Taken(p, left), p)
    PROVE  PeersInStep'
<1> DEFINE me == session[p]
           took == [me EXCEPT !.input = left]
           x == [took EXCEPT !.torn = TRUE, !.due = <<>>,
                             !.input = IF @ = <<>> THEN @ ELSE Bytes]
<1>1. /\ Shaped(session) /\ Other(p) \in Peers /\ Other(p) # p
      /\ InStep(session[p]) /\ InStep(session[Other(p)])
  BY PeersShaped
<1>2. /\ Shaped(Taken(p, left)) /\ Taken(p, left)[p] = took
      /\ Taken(p, left)[Other(p)] = session[Other(p)]
  <2>1. Taken(p, left) = [session EXCEPT ![p] = took]
    BY DEF Taken
  <2>2. DOMAIN took = PeerFields
    BY <1>1 DEF InStep
  <2> HIDE DEF took
  <2> QED
    BY <1>1, <2>1, <2>2 DEF Shaped
<1>3. Torn(Taken(p, left), p) = [Taken(p, left) EXCEPT ![p] = x]
  BY <1>2 DEF Torn
<1>4. InStep(x)
  BY <1>1 DEF InStep, PeerFields
<1> HIDE DEF x
<1> QED
  BY <1>1, <1>2, <1>3, <1>4, StepOfOne

\* Of a head that is no part of a message nothing is left.
LEMMA LeftBehind ==
    ASSUME NEW input, Head(input).part # "bytes", NEW left \in Behind(input)
    PROVE  left = Tail(input)
  BY DEF Behind

\* The handshake at the head of the bytes is part of no message; anything else
\* that is read as one takes the reader out of its place.
LEMMA ReceiveKeeps ==
    ASSUME PeersInStep, NEW p \in Peers, ReceiveHandshake(p)
    PROVE  PeersInStep'
<1> DEFINE me == session[p]
<1>1. /\ Shaped(session) /\ Other(p) \in Peers /\ Other(p) # p
      /\ InStep(session[p]) /\ InStep(session[Other(p)])
  BY PeersShaped
<1>2. me.input # <<>> /\ ~me.reading /\ ~me.torn
  BY DEF ReceiveHandshake
<1>3. PICK left \in Behind(me.input) :
         session' =
           IF Head(me.input).part = "handshake"
           THEN [Taken(p, left) EXCEPT
                   ![p].met = TRUE,
                   ![p].wire.state = IF @ = "HandshakeSent" THEN "Established"
                                     ELSE "HandshakeReceived"]
           ELSE Torn(Taken(p, left), p)
  BY DEF ReceiveHandshake
<1>4. CASE Head(me.input).part = "handshake"
  <2> DEFINE next == IF me.wire.state = "HandshakeSent" THEN "Established"
                     ELSE "HandshakeReceived"
             x == [me EXCEPT !.input = Tail(@), !.met = TRUE,
                             !.wire = [@ EXCEPT !.state = next]]
  <2>1. session' = [session EXCEPT ![p] = x]
    <3>1. left = Tail(me.input)
      BY <1>4, LeftBehind
    <3> QED
      BY <1>4, <1>3, <3>1 DEF Taken
  <2>2. me.input[1].part # "length"
    <3>1. me.input \in Seq(Parts) /\ me.input # <<>>
      BY <1>1, <1>2 DEF InStep, Framed
    <3>2. Head(me.input) = me.input[1]
      BY <3>1
    <3> QED
      BY <1>4, <3>2
  <2>3. Framed(Tail(me.input), FALSE) /\ Spells(Tail(me.input), me.due)
    <3>1. /\ me.due \in Seq(Messages) /\ me.input # <<>>
          /\ Framed(me.input, FALSE) /\ Spells(me.input, me.due)
      BY <1>1, <1>2 DEF InStep
    <3> QED
      BY <2>2, <3>1, TakenPart
  <2>4. InStep(x)
    BY <1>1, <1>2, <2>3 DEF InStep, PeerFields
  <2> HIDE DEF x
  <2> QED
    BY <1>1, <2>1, <2>4, StepOfOne
<1>5. CASE Head(me.input).part # "handshake"
  <2>1. session' = Torn(Taken(p, left), p)
    BY <1>5, <1>3
  <2> QED
    BY <1>2, <2>1, TornAtHead
<1> QED
  BY <1>4, <1>5

\* Both peers in step, in whatever the session has become inside of a step.
BothInStep(s, p) == Shaped(s) /\ InStep(s[p]) /\ InStep(s[Other(p)])

\* A record of p that differs in other fields only.
LEMMA OneInStep ==
    ASSUME NEW s, NEW p \in Peers, BothInStep(s, p), NEW x, Same(s[p], x)
    PROVE  BothInStep([s EXCEPT ![p] = x], p)
<1> DEFINE t == [s EXCEPT ![p] = x]
<1>1. Other(p) # p
  BY OtherPeer
<1>2. DOMAIN t = Peers /\ t[p] = x /\ \A q \in Peers : q # p => t[q] = s[q]
  BY DEF BothInStep, Shaped
<1> HIDE DEF t
<1>3. DOMAIN x = PeerFields /\ InStep(x)
  BY SameInStep DEF BothInStep, Same
<1>4. Other(p) \in Peers
  BY OtherPeer
<1>5. Shaped(t) /\ t[Other(p)] = s[Other(p)]
  BY <1>1, <1>2, <1>3, <1>4 DEF BothInStep, Shaped
<1> QED
  BY <1>2, <1>3, <1>5 DEF t, BothInStep

LEMMA SaidBoth ==
    ASSUME NEW s, NEW p \in Peers, BothInStep(s, p), NEW m \in Messages,
           NEW bytes \in OnStream(Encoded(m))
    PROVE  BothInStep(Said(s, p, m, bytes), p)
<1>1. Other(p) # p
  BY OtherPeer
<1>2. /\ Shaped(Said(s, p, m, bytes)) /\ InStep(Said(s, p, m, bytes)[Other(p)])
      /\ \A q \in Peers \ {Other(p)} : Said(s, p, m, bytes)[q] = s[q]
  BY SaidInStep DEF BothInStep
<1> QED
  BY <1>1, <1>2 DEF BothInStep

LEMMA CarriedBoth ==
    ASSUME NEW s, NEW p \in Peers, BothInStep(s, p),
           NEW bytes \in {<<>>, KeepAlive, Handshake, Bytes}
    PROVE  BothInStep(Carried(s, p, bytes), p)
<1>1. Other(p) # p
  BY OtherPeer
<1>2. /\ Shaped(Carried(s, p, bytes)) /\ InStep(Carried(s, p, bytes)[Other(p)])
      /\ \A q \in Peers \ {Other(p)} : Carried(s, p, bytes)[q] = s[q]
  BY CarriedInStep DEF BothInStep
<1> QED
  BY <1>1, <1>2 DEF BothInStep

LEMMA CalledBoth ==
    ASSUME PeersInStep, NEW p \in Peers
    PROVE  BothInStep(Called(p), p) /\ BothInStep(session, p)
<1> DEFINE x == [session[p] EXCEPT !.calls = @ + 1]
<1>1. BothInStep(session, p)
  BY PeersShaped DEF BothInStep
<1>2. Called(p) = [session EXCEPT ![p] = x]
  BY DEF Called
<1>3. Same(session[p], x)
  BY <1>1 DEF BothInStep, Same, InStep, PeerFields
<1> HIDE DEF x
<1>4. BothInStep([session EXCEPT ![p] = x], p)
  BY <1>1, <1>3, OneInStep
<1> QED
  BY <1>1, <1>2, <1>4

LEMMA BothKeeps ==
    ASSUME NEW p \in Peers, BothInStep(session', p)
    PROVE  PeersInStep'
<1>1. \A q \in Peers : q = p \/ q = Other(p)
  BY OtherPeer
<1> QED
  BY <1>1 DEF BothInStep, Shaped, PeersInStep

\* The fields of the protocol say nothing of what was sent.
LEMMA WireChanges ==
    ASSUME NEW s, NEW p \in Peers, BothInStep(s, p), NEW v,
           session' = [s EXCEPT ![p].wire = v]
    PROVE  PeersInStep'
<1> DEFINE x == [s[p] EXCEPT !.wire = v]
<1>1. Same(s[p], x)
  BY DEF BothInStep, Same, InStep, PeerFields
<1>2. session' = [s EXCEPT ![p] = x]
  OBVIOUS
<1> HIDE DEF x
<1>3. BothInStep([s EXCEPT ![p] = x], p)
  BY <1>1, OneInStep
<1> QED
  BY <1>2, <1>3, BothKeeps

LEMMA EstablishKeeps ==
    ASSUME PeersInStep, NEW p \in Peers, Establish(p)
    PROVE  PeersInStep'
<1> DEFINE v == [session[p].wire EXCEPT !.state = "Established"]
<1>1. session' = [session EXCEPT ![p].wire = v]
  BY DEF Establish
<1> HIDE DEF v
<1> QED
  BY <1>1, CalledBoth, WireChanges

\* What a peer says after a call of its caller.
LEMMA CallsSay ==
    ASSUME PeersInStep, NEW p \in Peers, NEW m \in Messages,
           NEW bytes \in OnStream(Encoded(m))
    PROVE  BothInStep(Said(Called(p), p, m, bytes), p)
  BY CalledBoth, SaidBoth

LEMMA InterestKeeps ==
    ASSUME PeersInStep, NEW p \in Peers, SendInterest(p)
    PROVE  PeersInStep'
<1> DEFINE wants == ~session[p].wire.am_interested
           m == Message(IF wants THEN "Interested" ELSE "NotInterested")
<1>1. m \in Messages
  BY DEF Message, Messages
<1>2. PICK bytes \in OnStream(Encoded(m)) :
         session' = [Said(Called(p), p, m, bytes)
                        EXCEPT ![p].wire.am_interested =
                                  IF bytes = Encoded(m) THEN wants ELSE @]
  BY DEF SendInterest
<1> DEFINE s == Said(Called(p), p, m, bytes)
           v == [s[p].wire EXCEPT !.am_interested =
                                     IF bytes = Encoded(m) THEN wants ELSE @]
<1>3. session' = [s EXCEPT ![p].wire = v]
  BY <1>2
<1> HIDE DEF m
<1>4. BothInStep(s, p)
  BY <1>1, CallsSay
<1> HIDE DEF s, v
<1> QED
  BY <1>3, <1>4, WireChanges

LEMMA ChokeKeeps ==
    ASSUME PeersInStep, NEW p \in Peers, SendChoke(p)
    PROVE  PeersInStep'
<1> DEFINE choke == ~session[p].wire.am_choking
           m == Message(IF choke THEN "Choke" ELSE "Unchoke")
<1>1. m \in Messages
  BY DEF Message, Messages
<1>2. PICK bytes \in OnStream(Encoded(m)) :
         session' = [Said(Called(p), p, m, bytes)
                        EXCEPT ![p].wire.am_choking =
                                  IF bytes = Encoded(m) THEN choke ELSE @]
  BY DEF SendChoke
<1> DEFINE s == Said(Called(p), p, m, bytes)
           v == [s[p].wire EXCEPT !.am_choking =
                                     IF bytes = Encoded(m) THEN choke ELSE @]
<1>3. session' = [s EXCEPT ![p].wire = v]
  BY <1>2
<1> HIDE DEF m
<1>4. BothInStep(s, p)
  BY <1>1, CallsSay
<1> HIDE DEF s, v
<1> QED
  BY <1>3, <1>4, WireChanges

\* Have, Request and a keep-alive change the sender in no other way.
LEMMA SayingKeeps ==
    ASSUME PeersInStep, NEW p \in Peers,
           \/ SendHave(p)
           \/ \E b \in Blocks : SendRequest(p, b)
           \/ SendKeepAlive(p)
    PROVE  PeersInStep'
<1>1. CASE SendHave(p)
  <2>1. Message("Have") \in Messages
    BY DEF Message, Messages
  <2>2. PICK bytes \in OnStream(Encoded(Message("Have"))) :
           session' = Said(Called(p), p, Message("Have"), bytes)
    BY <1>1 DEF SendHave
  <2>3. BothInStep(Said(Called(p), p, Message("Have"), bytes), p)
    BY <2>1, CallsSay
  <2> QED
    BY <2>2, <2>3, BothKeeps
<1>2. ASSUME NEW b \in Blocks, SendRequest(p, b)
      PROVE  PeersInStep'
  <2>1. Block("Request", b) \in Messages
    BY DEF Block, Messages
  <2>2. PICK bytes \in OnStream(Encoded(Block("Request", b))) :
           session' = Said(Called(p), p, Block("Request", b), bytes)
    BY <1>2 DEF SendRequest
  <2>3. BothInStep(Said(Called(p), p, Block("Request", b), bytes), p)
    BY <2>1, CallsSay
  <2> QED
    BY <2>2, <2>3, BothKeeps
<1>3. CASE SendKeepAlive(p)
  <2>1. PICK bytes \in OnStream(KeepAlive) : session' = Carried(Called(p), p, bytes)
    BY <1>3 DEF SendKeepAlive
  <2>2. bytes \in {<<>>, KeepAlive, Handshake, Bytes}
    BY DEF OnStream
  <2>3. BothInStep(Carried(Called(p), p, bytes), p)
    BY <2>2, CalledBoth, CarriedBoth
  <2> QED
    BY <2>1, <2>3, BothKeeps
<1> QED
  BY <1>1, <1>2, <1>3

LEMMA PieceKeeps ==
    ASSUME PeersInStep, NEW p \in Peers, NEW b \in Blocks, SendPiece(p, b)
    PROVE  PeersInStep'
<1> DEFINE m == Block("Piece", b)
<1>1. m \in Messages
  BY DEF Block, Messages
<1>2. PICK bytes \in OnStream(Encoded(m)) :
         session' = [Said(session, p, m, bytes)
                        EXCEPT ![p].owed = IF bytes = Encoded(m)
                                           THEN @ \ {b} ELSE @]
  BY DEF SendPiece
<1> DEFINE s == Said(session, p, m, bytes)
           owes == IF bytes = Encoded(m) THEN s[p].owed \ {b} ELSE s[p].owed
           x == [s[p] EXCEPT !.owed = owes]
<1> HIDE DEF m
<1>3. BothInStep(s, p)
  BY <1>1, CalledBoth, SaidBoth
<1>4. session' = [s EXCEPT ![p] = x]
  BY <1>2
<1> HIDE DEF s
<1>5. owes \subseteq Blocks
  BY <1>3 DEF BothInStep, InStep
<1> HIDE DEF owes
<1>6. InStep(x)
  BY <1>3, <1>5 DEF BothInStep, InStep, PeerFields
<1> HIDE DEF x
<1> QED
  BY <1>3, <1>4, <1>6, StepOfOne DEF BothInStep

\* The session once p has taken the head of its bytes.
LEMMA TakenFields ==
    ASSUME PeersInStep, NEW p \in Peers, NEW left
    PROVE  /\ Shaped(Taken(p, left)) /\ InStep(Taken(p, left)[Other(p)])
           /\ Taken(p, left)[p] = [session[p] EXCEPT !.input = left]
<1> DEFINE x == [session[p] EXCEPT !.input = left]
           t == Taken(p, left)
<1>1. /\ Shaped(session) /\ Other(p) \in Peers /\ Other(p) # p
      /\ InStep(session[p]) /\ InStep(session[Other(p)])
  BY PeersShaped
<1>2. t = [session EXCEPT ![p] = x] /\ DOMAIN x = PeerFields
  BY <1>1 DEF Taken, InStep
<1> HIDE DEF x, t
<1>3. Shaped(t) /\ t[p] = x /\ t[Other(p)] = session[Other(p)]
  BY <1>1, <1>2 DEF Shaped
<1> QED
  BY <1>1, <1>3 DEF x, t

\* What stands at the head of the bytes of a peer in step.
LEMMA HeadOfInput ==
    ASSUME NEW a, InStep(a), a.input # <<>>, ~a.torn
    PROVE  /\ Head(a.input) = a.input[1] /\ a.reading \in BOOLEAN
           /\ a.due \in Seq(Messages) /\ Framed(a.input, a.reading)
           /\ Spells(a.input, a.due)
<1>1. /\ a.due \in Seq(Messages) /\ Framed(a.input, a.reading)
      /\ Spells(a.input, a.due) /\ a.reading \in BOOLEAN
  BY DEF InStep
<1>2. a.input \in Seq(Parts)
  BY <1>1 DEF Framed
<1> QED
  BY <1>1, <1>2

\* The length of a message opens its rest; what stands between the messages is
\* passed over.
LEMMA LengthKeeps ==
    ASSUME PeersInStep, NEW p \in Peers, ReadLength(p)
    PROVE  PeersInStep'
<1> DEFINE me == session[p]
           at == Head(me.input).part
<1>1. /\ Shaped(session) /\ InStep(me) /\ InStep(session[Other(p)])
  BY PeersShaped
<1>2. me.input # <<>> /\ ~me.reading /\ ~me.torn
  BY DEF ReadLength
<1>3. /\ at = me.input[1].part /\ me.due \in Seq(Messages)
      /\ Framed(me.input, FALSE) /\ Spells(me.input, me.due)
  <2>1. /\ Head(me.input) = me.input[1] /\ me.reading \in BOOLEAN
        /\ me.due \in Seq(Messages) /\ Framed(me.input, me.reading)
        /\ Spells(me.input, me.due)
    BY <1>1, <1>2, HeadOfInput
  <2>2. me.reading = FALSE
    BY <1>2, <2>1
  <2> QED
    BY <2>1, <2>2
<1>4. Framed(Tail(me.input), at = "length") /\ Spells(Tail(me.input), me.due)
  BY <1>2, <1>3, TakenPart
<1>5. PICK left \in Behind(me.input) :
         session' =
           CASE at = "length" -> [Taken(p, left) EXCEPT ![p].reading = TRUE]
             [] at = "alive" -> Taken(p, left)
             [] OTHER -> Torn(Taken(p, left), p)
  BY DEF ReadLength
<1>6. at # "bytes" => left = Tail(me.input)
  BY LeftBehind
<1>7. CASE at = "length"
  <2> DEFINE x == [me EXCEPT !.input = Tail(@), !.reading = TRUE]
  <2>1. session' = [session EXCEPT ![p] = x]
    <3>1. session' = [Taken(p, left) EXCEPT ![p].reading = TRUE]
      BY <1>5, <1>7
    <3>2. left = Tail(me.input)
      BY <1>6, <1>7
    <3> QED
      BY <3>1, <3>2 DEF Taken
  <2>2. Framed(Tail(me.input), TRUE)
    BY <1>4, <1>7
  <2>3. InStep(x)
    BY <1>1, <1>2, <1>3, <1>4, <2>2 DEF InStep, PeerFields
  <2> HIDE DEF x
  <2> QED
    BY <1>1, <2>1, <2>3, StepOfOne
<1>8. CASE at = "alive"
  <2> DEFINE x == [me EXCEPT !.input = Tail(@)]
  <2>1. session' = [session EXCEPT ![p] = x]
    <3>1. session' = Taken(p, left)
      BY <1>5, <1>8
    <3>2. left = Tail(me.input)
      BY <1>6, <1>8
    <3> QED
      BY <3>1, <3>2 DEF Taken
  <2>2. Framed(Tail(me.input), FALSE)
    BY <1>4, <1>8
  <2>3. InStep(x)
    BY <1>1, <1>2, <1>3, <1>4, <2>2 DEF InStep, PeerFields
  <2> HIDE DEF x
  <2> QED
    BY <1>1, <2>1, <2>3, StepOfOne
<1>9. CASE at \notin {"length", "alive"}
  <2>1. session' = Torn(Taken(p, left), p)
    BY <1>5, <1>9
  <2> QED
    BY <1>2, <2>1, TornAtHead
<1> QED
  BY <1>7, <1>8, <1>9

\* A keep-alive that is waited for is passed over like one that is met.
LEMMA KeepAliveKeeps ==
    ASSUME PeersInStep, NEW p \in Peers, ReadKeepAlive(p)
    PROVE  PeersInStep'
<1> DEFINE me == session[p]
           at == Head(me.input).part
<1>1. /\ Shaped(session) /\ InStep(me) /\ InStep(session[Other(p)])
  BY PeersShaped
<1>2. me.input # <<>> /\ ~me.reading /\ ~me.torn
  BY DEF ReadKeepAlive
<1>3. /\ Head(me.input) = me.input[1] /\ me.reading \in BOOLEAN
      /\ me.due \in Seq(Messages) /\ Framed(me.input, me.reading)
      /\ Spells(me.input, me.due)
  BY <1>1, <1>2, HeadOfInput
<1>4. PICK left \in Behind(me.input) :
         LET s == [Taken(p, left) EXCEPT ![p].calls = @ + 1]
         IN  session' = IF at = "alive" THEN s ELSE Torn(s, p)
  BY DEF ReadKeepAlive
<1> DEFINE s == [Taken(p, left) EXCEPT ![p].calls = @ + 1]
           x == [me EXCEPT !.input = left, !.calls = @ + 1]
<1>5. s = [session EXCEPT ![p] = x]
  BY DEF Taken
<1>6. CASE at = "alive"
  <2>1. session' = s /\ left = Tail(me.input)
    BY <1>4, <1>6, LeftBehind
  <2>2. /\ Framed(Tail(me.input), me.input[1].part = "length")
        /\ Spells(Tail(me.input), me.due)
    <3>1. me.reading = FALSE
      BY <1>2, <1>3
    <3> QED
      BY <1>2, <1>3, <3>1, TakenPart
  <2>3. Framed(left, FALSE) /\ Spells(left, me.due)
    BY <1>3, <1>6, <2>1, <2>2
  <2>4. InStep(x)
    BY <1>1, <1>2, <1>3, <2>3 DEF InStep, PeerFields
  <2> HIDE DEF x, s
  <2> QED
    BY <1>1, <1>5, <2>1, <2>4, StepOfOne
<1>7. CASE at # "alive"
  <2> DEFINE y == [x EXCEPT !.torn = TRUE, !.due = <<>>,
                            !.input = IF @ = <<>> THEN @ ELSE Bytes]
  <2>1. session' = Torn(s, p)
    BY <1>4, <1>7
  <2>2. Torn(s, p) = [session EXCEPT ![p] = y]
    <3>1. DOMAIN session = Peers
      BY <1>1 DEF Shaped
    <3> HIDE DEF x, s
    <3> QED
      BY <1>5, <3>1 DEF Torn
  <2>3. InStep(y)
    BY <1>1, <1>2, <1>3 DEF InStep, PeerFields
  <2> HIDE DEF y
  <2> QED
    BY <1>1, <2>1, <2>2, <2>3, StepOfOne
<1> QED
  BY <1>6, <1>7

\* The rest of the message behind a length is that of the message that is due.
LEMMA RestKeeps ==
    ASSUME PeersInStep, NEW p \in Peers, ReadRest(p)
    PROVE  PeersInStep'
<1> DEFINE me == session[p]
           s == Taken(p, Tail(me.input))
<1>1. /\ Shaped(session) /\ InStep(me) /\ InStep(session[Other(p)])
  BY PeersShaped
<1>2. me.input # <<>> /\ me.reading /\ ~me.torn
  BY <1>1 DEF ReadRest, InStep
<1>3. /\ Head(me.input) = me.input[1] /\ me.reading \in BOOLEAN
      /\ me.due \in Seq(Messages) /\ Framed(me.input, me.reading)
      /\ Spells(me.input, me.due)
  BY <1>1, <1>2, HeadOfInput
<1>4. /\ me.due # <<>> /\ me.input[1] = Rest(me.due[1])
      /\ Framed(Tail(me.input), FALSE) /\ Spells(Tail(me.input), Tail(me.due))
      /\ Tail(me.due) \in Seq(Messages)
  <2>1. me.reading = TRUE
    BY <1>2, <1>3
  <2> QED
    BY <1>3, <2>1, TakenRest
<1>5. PICK m \in Spelled(Head(me.input)), bytes \in OnStream(Encoded(Reply)) :
         session' = [Handled(s, p, m, bytes) EXCEPT ![p].reading = FALSE]
  <2>1. Head(me.input).part # "bytes"
    BY <1>3, <1>4 DEF Rest
  <2>2. PICK m \in Spelled(Head(me.input)), left \in Behind(me.input),
             bytes \in OnStream(Encoded(Reply)) :
           session' = [Handled(Taken(p, left), p, m, bytes)
                          EXCEPT ![p].reading = FALSE]
    BY DEF ReadRest
  <2>3. left = Tail(me.input)
    BY <2>1, LeftBehind
  <2> QED
    BY <2>2, <2>3
<1>6. m = me.due[1] /\ m \in Messages
  <2>1. m = me.due[1]
    BY <1>3, <1>4, <1>5 DEF Spelled, Rest
  <2>2. me.due[1] \in Messages
    BY <1>3, <1>4
  <2> QED
    BY <2>1, <2>2
<1>7. /\ Shaped(s) /\ InStep(s[Other(p)])
      /\ s[p] = [me EXCEPT !.input = Tail(@)]
  BY TakenFields
<1>8. /\ s[p].input = Tail(me.input) /\ s[p].due = me.due
      /\ s[p].torn = me.torn /\ ~s[p].mixed /\ s[p].owed \subseteq Blocks
  BY <1>1, <1>7 DEF InStep, PeerFields
<1> DEFINE h == Handled(s, p, m, bytes)
<1> HIDE DEF s
<1>9. Shaped(h) /\ InStep(h[Other(p)]) /\ After(s[p], h[p])
  BY <1>3, <1>4, <1>6, <1>7, <1>8, HandledInStep
<1> HIDE DEF h
<1> DEFINE x == [h[p] EXCEPT !.reading = FALSE]
<1>10. /\ h[p].input = Tail(me.input) /\ h[p].due = Tail(me.due)
       /\ ~h[p].torn /\ ~h[p].mixed /\ h[p].owed \subseteq Blocks
       /\ DOMAIN h[p] = PeerFields
  BY <1>2, <1>8, <1>9 DEF After
<1>11. InStep(x)
  BY <1>4, <1>10 DEF InStep, PeerFields
<1>12. session' = [h EXCEPT ![p] = x]
  BY <1>5 DEF s, h
<1> HIDE DEF x
<1> QED
  BY <1>9, <1>11, <1>12, StepOfOne

\* Out of its place a peer counts no message as the one that is due.
LEMMA TornKeeps ==
    ASSUME PeersInStep, NEW p \in Peers, ReadTorn(p)
    PROVE  PeersInStep'
<1> DEFINE me == session[p]
<1>1. /\ Shaped(session) /\ InStep(me) /\ InStep(session[Other(p)])
  BY PeersShaped
<1>2. /\ me.input = Bytes /\ me.torn /\ me.reading = FALSE
      /\ ~me.mixed /\ me.owed \subseteq Blocks
  BY <1>1 DEF ReadTorn, InStep
<1>3. PICK left \in Behind(me.input) :
         LET s == [Taken(p, left) EXCEPT ![p].calls = @ + 1] IN
         \/ session' = s
         \/ \E m \in Spelled(Head(me.input)), bytes \in OnStream(Encoded(Reply)) :
              session' = Handled(s, p, m, bytes)
  BY DEF ReadTorn
<1> DEFINE s == [Taken(p, left) EXCEPT ![p].calls = @ + 1]
           took == [me EXCEPT !.input = left, !.calls = @ + 1]
<1>4. left \in {<<>>, Bytes}
  BY <1>2, <1>3 DEF Behind, Bytes
<1>5. /\ Shaped(s) /\ InStep(s[Other(p)]) /\ s[p] = took
  <2>1. s = [session EXCEPT ![p] = took]
    BY DEF Taken
  <2>2. DOMAIN took = PeerFields
    BY <1>1 DEF InStep
  <2>3. Other(p) \in Peers /\ Other(p) # p
    BY OtherPeer
  <2> HIDE DEF took, s
  <2> QED
    BY <1>1, <2>1, <2>2, <2>3 DEF Shaped
<1>6. /\ DOMAIN took = PeerFields /\ took.input \in {<<>>, Bytes} /\ took.torn
      /\ took.reading = FALSE /\ ~took.mixed /\ took.owed \subseteq Blocks
  BY <1>1, <1>2, <1>4 DEF InStep, PeerFields
<1>7. CASE session' = s
  <2>1. InStep(s[p])
    BY <1>5, <1>6, TornInStep
  <2>2. BothInStep(session', p)
    BY <1>5, <1>7, <2>1 DEF BothInStep
  <2> QED
    BY <2>2, BothKeeps
<1>8. ASSUME NEW m \in Spelled(Head(me.input)),
             NEW bytes \in OnStream(Encoded(Reply)),
             session' = Handled(s, p, m, bytes)
      PROVE  PeersInStep'
  <2>1. m \in Messages
    BY <1>2, <1>8 DEF Spelled, Bytes
  <2> DEFINE h == Handled(s, p, m, bytes)
  <2> HIDE DEF took, s
  <2>2. /\ Shaped(h) /\ InStep(h[Other(p)]) /\ After(s[p], h[p])
    BY <1>5, <1>6, <2>1, HandledInStep
  <2> DEFINE x == h[p]
  <2> HIDE DEF h
  <2>3. /\ DOMAIN x = PeerFields /\ x.input \in {<<>>, Bytes} /\ x.torn
        /\ x.reading = FALSE /\ ~x.mixed /\ x.owed \subseteq Blocks
    BY <1>5, <1>6, <2>2 DEF After
  <2> HIDE DEF x
  <2>4. InStep(x)
    BY <2>3, TornInStep
  <2>5. BothInStep(session', p)
    BY <1>8, <2>2, <2>4 DEF BothInStep, x, h
  <2> QED
    BY <2>5, BothKeeps
<1> QED
  BY <1>3, <1>7, <1>8

\* A read that times out has taken nothing, or has lost its place.
LEMMA TimeoutKeeps ==
    ASSUME PeersInStep, NEW p \in Peers, ReadTimesOut(p)
    PROVE  PeersInStep'
<1> DEFINE s == Called(p)
           t == Torn(s, p)
           x == [t[p] EXCEPT !.reading = FALSE]
<1>1. BothInStep(s, p)
  BY CalledBoth
<1>2. CASE session' = s
  BY <1>1, <1>2, BothKeeps
<1>3. CASE session' = [t EXCEPT ![p].reading = FALSE]
  <2>1. session' = [t EXCEPT ![p] = x]
    BY <1>3
  <2>2. s[p].input = <<>> \/ s[p].input # <<>>
    OBVIOUS
  <2> HIDE DEF s
  <2>3. /\ Shaped(t) /\ t[Other(p)] = s[Other(p)]
        /\ t[p] = [s[p] EXCEPT !.torn = TRUE, !.due = <<>>,
                               !.input = IF @ = <<>> THEN @ ELSE Bytes]
    BY <1>1, TornFields DEF BothInStep
  <2> HIDE DEF t
  <2>4. InStep(x)
    BY <1>1, <2>3 DEF BothInStep, InStep, PeerFields
  <2> HIDE DEF x
  <2>5. InStep(t[Other(p)])
    BY <1>1, <2>3 DEF BothInStep
  <2> QED
    BY <2>1, <2>3, <2>4, <2>5, StepOfOne
<1> QED
  BY <1>2, <1>3 DEF ReadTimesOut

\* Nothing is due to a peer that has closed, or has just begun.
LEMMA NothingDue == Framed(<<>>, FALSE) /\ Spells(<<>>, <<>>)
<1>1. Framed(<<>>, FALSE)
  BY DEF Framed
<1>2. SpellsAt(<<>>, <<>>, [k \in 1..0 |-> k])
  BY DEF SpellsAt
<1> QED
  BY <1>1, <1>2 DEF Spells

LEMMA EmptyInStep ==
    ASSUME NEW a, DOMAIN a = PeerFields, ~a.mixed, a.owed \subseteq Blocks,
           a.input = <<>>, a.due = <<>>, a.reading = FALSE
    PROVE  InStep(a)
<1>1. <<>> \in Seq(Messages)
  OBVIOUS
<1> QED
  BY <1>1, NothingDue DEF InStep

LEMMA CloseKeeps ==
    ASSUME PeersInStep, NEW p \in Peers, Close(p)
    PROVE  PeersInStep'
<1> DEFINE x == [session[p] EXCEPT !.stream = "closed", !.input = <<>>,
                                   !.reading = FALSE, !.due = <<>>]
<1>1. /\ Shaped(session) /\ InStep(session[p]) /\ InStep(session[Other(p)])
  BY PeersShaped
<1>2. session' = [session EXCEPT ![p] = x]
  BY DEF Close
<1>3. /\ DOMAIN x = PeerFields /\ ~x.mixed /\ x.owed \subseteq Blocks
      /\ x.input = <<>> /\ x.due = <<>> /\ x.reading = FALSE
  BY <1>1 DEF InStep, PeerFields
<1> HIDE DEF x
<1>4. InStep(x)
  BY <1>3, EmptyInStep
<1> QED
  BY <1>1, <1>2, <1>4, StepOfOne

LEMMA StepKeeps ==
    ASSUME PeersInStep, NEW p \in Peers, SessionStep(p)
    PROVE  PeersInStep'
<1>1. CASE Connect(p)
  BY <1>1, ConnectKeeps
<1>2. CASE SendHandshake(p)
  BY <1>2, HandshakeKeeps
<1>3. CASE ReceiveHandshake(p)
  BY <1>3, ReceiveKeeps
<1>4. CASE Establish(p)
  BY <1>4, EstablishKeeps
<1>5. CASE SendInterest(p)
  BY <1>5, InterestKeeps
<1>6. CASE SendChoke(p)
  BY <1>6, ChokeKeeps
<1>7. CASE SendHave(p) \/ SendKeepAlive(p)
  BY <1>7, SayingKeeps
<1>8. ASSUME NEW b \in Blocks, SendRequest(p, b)
      PROVE  PeersInStep'
  BY <1>8, SayingKeeps
<1>9. ASSUME NEW b \in Blocks, SendPiece(p, b)
      PROVE  PeersInStep'
  BY <1>9, PieceKeeps
<1>10. CASE ReadLength(p)
  BY <1>10, LengthKeeps
<1>11. CASE ReadRest(p)
  BY <1>11, RestKeeps
<1>12. CASE ReadKeepAlive(p)
  BY <1>12, KeepAliveKeeps
<1>13. CASE ReadTorn(p)
  BY <1>13, TornKeeps
<1>14. CASE ReadTimesOut(p)
  BY <1>14, TimeoutKeeps
<1>15. CASE Close(p)
  BY <1>15, CloseKeeps
<1> QED
  BY <1>1, <1>2, <1>3, <1>4, <1>5, <1>6, <1>7, <1>8, <1>9, <1>10, <1>11,
     <1>12, <1>13, <1>14, <1>15 DEF SessionStep

-----------------------------------------------------------------------------

\* What a peer handles is what the other said, in its order and nothing left
\* out, up to the place where one of its reads or one of the other's writes
\* ended inside of a message (read_message, handle_message, write_all): the
\* messages that are due to a peer are those that its unread bytes spell, up to
\* the part of a message that a write left, and a message is due from the moment
\* it is written whole.
THEOREM MessagesTheorem == SessionSpec => []MessagesInOrder
<1>1. SessionInit => PeersInStep
  <2> SUFFICES ASSUME SessionInit
               PROVE  PeersInStep
    OBVIOUS
  <2>1. InStep(NewPeer)
    <3>1. /\ DOMAIN NewPeer = PeerFields /\ ~NewPeer.mixed
          /\ NewPeer.owed \subseteq Blocks /\ NewPeer.input = <<>>
          /\ NewPeer.due = <<>> /\ NewPeer.reading = FALSE
      BY DEF NewPeer, PeerFields
    <3> QED
      BY <3>1, EmptyInStep
  <2> QED
    BY <2>1 DEF SessionInit, PeersInStep
<1>2. PeersInStep /\ [SessionNext]_session => PeersInStep'
  <2> SUFFICES ASSUME PeersInStep, [SessionNext]_session
               PROVE  PeersInStep'
    OBVIOUS
  <2>1. ASSUME NEW p \in Peers, SessionStep(p)
        PROVE  PeersInStep'
    BY <2>1, StepKeeps
  <2>2. CASE UNCHANGED session
    BY <2>2 DEF PeersInStep
  <2> QED
    BY <2>1, <2>2 DEF SessionNext
<1>3. PeersInStep => MessagesInOrder
  BY DEF PeersInStep, InStep, MessagesInOrder
<1> QED
  BY <1>1, <1>2, <1>3, PTL DEF SessionSpec

-----------------------------------------------------------------------------
(* The piece scheduler and its downloads (PieceDownload) *)

PieceFields ==
    {"playhead", "target", "priority", "requested", "completed", "urls", "client",
     "requests", "active", "total", "at", "piece", "dropped", "moves"}

\* The counters agree with the sets; a piece that is being downloaded is among
\* the requests, and a request is of a piece that was marked requested.
CountersAgree ==
    /\ DOMAIN pieces = PieceFields
    /\ pieces.at \in {"idle", "p2p", "http"}
    /\ IsFiniteSet(pieces.requests) /\ IsFiniteSet(pieces.completed)
    /\ pieces.dropped \in Nat
    /\ pieces.requests \subseteq pieces.requested
    /\ pieces.requested \cap pieces.completed = {}
    /\ pieces.total = Cardinality(pieces.completed)
    /\ Cardinality(pieces.requests) = pieces.active
    /\ IF pieces.at = "idle" THEN pieces.active = pieces.dropped
       ELSE pieces.active = pieces.dropped + 1 /\ pieces.piece \in pieces.requests

\* What the scheduler marks, field by field.
LEMMA MarkedRequested ==
    ASSUME CountersAgree, NEW p
    PROVE  /\ DOMAIN MarkRequested(pieces, p) = PieceFields
           /\ MarkRequested(pieces, p).requested = pieces.requested \cup {p}
           /\ \A f \in PieceFields \ {"requested"} : MarkRequested(pieces, p)[f] = pieces[f]
BY DEF CountersAgree, MarkRequested, PieceFields

LEMMA MarkedCompleted ==
    ASSUME CountersAgree, NEW p
    PROVE  /\ DOMAIN MarkCompleted(pieces, p) = PieceFields
           /\ MarkCompleted(pieces, p).requested = pieces.requested \ {p}
           /\ MarkCompleted(pieces, p).completed = pieces.completed \cup {p}
           /\ \A f \in PieceFields \ {"requested", "completed"} :
                 MarkCompleted(pieces, p)[f] = pieces[f]
BY DEF CountersAgree, MarkCompleted, PieceFields

LEMMA BeginAgrees ==
    ASSUME CountersAgree, BeginDownload
    PROVE  CountersAgree'
<1>1. PICK held \in Holdings, piece \in Pieces :
        /\ NextRequest(pieces, held, piece)
        /\ pieces' = [MarkRequested(pieces, piece) EXCEPT
                        !.priority = [p \in Wanted(pieces) \cup DOMAIN @ |->
                                        Priority(pieces, p)],
                        !.piece = piece, !.at = "p2p",
                        !.requests = @ \cup {piece}, !.active = @ + 1]
  BY DEF BeginDownload
<1> DEFINE marked == MarkRequested(pieces, piece)
           priority == [p \in Wanted(pieces) \cup DOMAIN marked.priority |->
                          Priority(pieces, p)]
<1>2. pieces' = [marked EXCEPT !.priority = priority, !.piece = piece, !.at = "p2p",
                               !.requests = marked.requests \cup {piece},
                               !.active = marked.active + 1]
  BY <1>1, Zenon
<1>3. /\ DOMAIN marked = PieceFields
      /\ marked.requested = pieces.requested \cup {piece}
      /\ marked.requests = pieces.requests /\ marked.active = pieces.active
      /\ marked.dropped = pieces.dropped
      /\ marked.completed = pieces.completed
      /\ marked.total = pieces.total
  BY MarkedRequested DEF PieceFields
<1> HIDE DEF marked, priority
<1>4. /\ DOMAIN pieces' = PieceFields
      /\ pieces'.at = "p2p" /\ pieces'.piece = piece
      /\ pieces'.requested = pieces.requested \cup {piece}
      /\ pieces'.requests = pieces.requests \cup {piece}
      /\ pieces'.active = pieces.active + 1
      /\ pieces'.dropped = pieces.dropped
      /\ pieces'.completed = pieces.completed
      /\ pieces'.total = pieces.total
  BY <1>2, <1>3 DEF PieceFields
<1>5. piece \notin pieces.requested /\ piece \notin pieces.completed
  BY <1>1 DEF NextRequest, Wanted
<1>6. piece \notin pieces.requests
  BY <1>5 DEF CountersAgree
<1>7. pieces.at = "idle"
  BY DEF BeginDownload
<1>8. /\ IsFiniteSet(pieces.requests \cup {piece})
      /\ Cardinality(pieces.requests \cup {piece}) = Cardinality(pieces.requests) + 1
  BY <1>6, FS_AddElement DEF CountersAgree
<1>9. QED  BY <1>4, <1>5, <1>7, <1>8 DEF CountersAgree

\* The end of a download takes its counters back, and counts a success.
LEMMA OverSettles ==
    ASSUME CountersAgree, pieces.at # "idle", NEW ok \in BOOLEAN,
           pieces' = Over(pieces, ok)
    PROVE  CountersAgree'
<1> DEFINE p == pieces.piece
           marked == IF ok THEN MarkCompleted(pieces, p) ELSE pieces
<1>1. pieces' = [marked EXCEPT
                   !.at = "idle", !.piece = Nothing,
                   !.requests = marked.requests \ {p}, !.active = marked.active - 1,
                   !.total = IF ok THEN marked.total + 1 ELSE marked.total]
  BY Zenon DEF Over
<1>2. /\ DOMAIN marked = PieceFields
      /\ marked.requested = IF ok THEN pieces.requested \ {p} ELSE pieces.requested
      /\ marked.completed = IF ok THEN pieces.completed \cup {p} ELSE pieces.completed
      /\ marked.requests = pieces.requests /\ marked.active = pieces.active
      /\ marked.dropped = pieces.dropped /\ marked.total = pieces.total
  <2>1. CASE ok = TRUE
    BY <2>1, MarkedCompleted DEF PieceFields
  <2>2. CASE ok = FALSE
    BY <2>2 DEF CountersAgree
  <2>3. QED  BY <2>1, <2>2
<1> HIDE DEF marked, p
<1>3. /\ DOMAIN pieces' = PieceFields
      /\ pieces'.at = "idle"
      /\ pieces'.requests = pieces.requests \ {p}
      /\ pieces'.active = pieces.active - 1
      /\ pieces'.dropped = pieces.dropped
      /\ pieces'.requested = IF ok THEN pieces.requested \ {p} ELSE pieces.requested
      /\ pieces'.completed = IF ok THEN pieces.completed \cup {p} ELSE pieces.completed
      /\ pieces'.total = IF ok THEN pieces.total + 1 ELSE pieces.total
  BY <1>1, <1>2 DEF PieceFields
<1>4. /\ p \in pieces.requests /\ p \in pieces.requested
      /\ p \notin pieces.completed
      /\ pieces.active = pieces.dropped + 1
  BY DEF CountersAgree, p
<1>5. /\ IsFiniteSet(pieces.requests \ {p})
      /\ Cardinality(pieces.requests \ {p}) = pieces.active - 1
  <2>1. IsFiniteSet(pieces.requests) /\ Cardinality(pieces.requests) = pieces.active
    BY DEF CountersAgree
  <2> DEFINE R == pieces.requests
  <2>2. p \in R /\ IsFiniteSet(R) /\ Cardinality(R) = pieces.active
    BY <1>4, <2>1
  <2> HIDE DEF R
  <2>3. IsFiniteSet(R \ {p}) /\ Cardinality(R \ {p}) = Cardinality(R) - 1
    BY <2>2, FS_RemoveElement
  <2>4. QED  BY <2>2, <2>3 DEF R
<1>6. /\ IsFiniteSet(pieces.completed \cup {p})
      /\ Cardinality(pieces.completed \cup {p}) = pieces.total + 1
  <2>1. /\ IsFiniteSet(pieces.completed)
        /\ Cardinality(pieces.completed) = pieces.total
    BY DEF CountersAgree
  <2> DEFINE C == pieces.completed
  <2>2. p \notin C /\ IsFiniteSet(C) /\ Cardinality(C) = pieces.total
    BY <1>4, <2>1
  <2> HIDE DEF C
  <2>3. IsFiniteSet(C \cup {p}) /\ Cardinality(C \cup {p}) = Cardinality(C) + 1
    BY <2>2, FS_AddElement
  <2>4. QED  BY <2>2, <2>3 DEF C
<1>7. CASE ok = TRUE
  <2>1. /\ pieces'.requested = pieces.requested \ {p}
        /\ pieces'.completed = pieces.completed \cup {p}
        /\ pieces'.total = pieces.total + 1
    BY <1>3, <1>7
  <2>2. /\ pieces'.requests \subseteq pieces'.requested
        /\ pieces'.requested \cap pieces'.completed = {}
    BY <1>3, <2>1 DEF CountersAgree
  <2>3. QED  BY <1>3, <1>4, <1>5, <1>6, <2>1, <2>2 DEF CountersAgree
<1>8. CASE ok = FALSE
  <2>1. /\ pieces'.requested = pieces.requested
        /\ pieces'.completed = pieces.completed
        /\ pieces'.total = pieces.total
    BY <1>3, <1>8
  <2>2. QED  BY <1>3, <1>4, <1>5, <2>1 DEF CountersAgree
<1>9. QED  BY <1>7, <1>8

LEMMA P2pFailsSettles ==
    ASSUME CountersAgree, P2pFails
    PROVE  CountersAgree'
<1>1. pieces.at = "p2p"
  BY DEF P2pFails
<1>2. CASE pieces' = [pieces EXCEPT !.at = "http"]
  <2>1. /\ DOMAIN pieces' = PieceFields /\ pieces'.at = "http"
        /\ \A f \in PieceFields \ {"at"} : pieces'[f] = pieces[f]
    BY <1>2 DEF CountersAgree, PieceFields
  <2>2. QED  BY <1>1, <2>1 DEF CountersAgree, PieceFields
<1>3. CASE pieces' = Over(pieces, FALSE)
  BY <1>1, <1>3, OverSettles
<1>4. QED  BY <1>2, <1>3 DEF P2pFails

LEMMA HttpEndsSettles ==
    ASSUME CountersAgree, HttpEnds
    PROVE  CountersAgree'
<1>1. pieces.at = "http"
  BY DEF HttpEnds
<1>2. PICK ok \in BOOLEAN : pieces' = Over(pieces, ok)
  BY DEF HttpEnds
<1>3. QED  BY <1>1, <1>2, OverSettles

\* What a dropped download raised stays raised, and is counted as dropped.
LEMMA DropSettles ==
    ASSUME CountersAgree, DropDownload
    PROVE  CountersAgree'
<1>1. /\ pieces.at # "idle"
      /\ pieces' = [pieces EXCEPT !.at = "idle", !.piece = Nothing,
                                  !.dropped = pieces.dropped + 1]
  BY DEF DropDownload
<1>2. /\ DOMAIN pieces' = PieceFields
      /\ pieces'.at = "idle" /\ pieces'.dropped = pieces.dropped + 1
      /\ \A f \in PieceFields \ {"at", "piece", "dropped"} : pieces'[f] = pieces[f]
  BY <1>1 DEF CountersAgree, PieceFields
<1>3. QED  BY <1>1, <1>2 DEF CountersAgree, PieceFields

\* Moves and sources are no business of the counters.
LEMMA MovesSettle ==
    ASSUME CountersAgree, SetPlayhead \/ SetSeekTarget \/ ChangeSources
    PROVE  CountersAgree'
<1>1. /\ DOMAIN pieces' = PieceFields
      /\ \A f \in PieceFields \ {"playhead", "target", "urls", "moves"} :
            pieces'[f] = pieces[f]
  BY DEF CountersAgree, PieceFields, SetPlayhead, SetSeekTarget, ChangeSources
<1>2. QED  BY <1>1 DEF CountersAgree, PieceFields

LEMMA SettledStep ==
    ASSUME CountersAgree, [PiecesNext]_pieces
    PROVE  CountersAgree'
<1>1. CASE BeginDownload  BY <1>1, BeginAgrees
<1>2. CASE P2pFails       BY <1>2, P2pFailsSettles
<1>3. CASE HttpEnds       BY <1>3, HttpEndsSettles
<1>4. CASE DropDownload   BY <1>4, DropSettles
<1>5. CASE SetPlayhead \/ SetSeekTarget \/ ChangeSources
  BY <1>5, MovesSettle
<1>6. CASE UNCHANGED pieces
  BY <1>6 DEF CountersAgree
<1>7. QED
  BY <1>1, <1>2, <1>3, <1>4, <1>5, <1>6 DEF PiecesNext

\* The count of active requests is the running one and those whose caller went
\* away, and no piece is downloaded twice (download_*, update_download_queue),
\* for any pieces, sources and seeks.
THEOREM CountersTheorem == PiecesSpec => []CountersSettle
<1>1. PiecesInit => CountersAgree
  BY FS_EmptySet DEF PiecesInit, CountersAgree, PieceFields
<1>2. CountersAgree /\ [PiecesNext]_pieces => CountersAgree'
  BY SettledStep
<1>3. CountersAgree => CountersSettle
  <2> HAVE CountersAgree
  <2>1. CASE pieces.at = "idle"
    BY <2>1, FS_EmptySet DEF CountersAgree, CountersSettle
  <2>2. CASE pieces.at # "idle"
    <3>1. Cardinality({pieces.piece}) = 1
      BY FS_Singleton
    <3>2. QED  BY <2>2, <3>1 DEF CountersAgree, CountersSettle
  <2>3. QED  BY <2>1, <2>2
<1>4. QED  BY <1>1, <1>2, <1>3, PTL DEF PiecesSpec

-----------------------------------------------------------------------------
(* The cache of downloaded media (MediaCache) *)

Writes == [nr: Nat, hash: Hashes, end: Ends, linked: BOOLEAN, done: BOOLEAN]

\* What a step needs to know of the state's shape.
Shape ==
    /\ DOMAIN cache = {"entries", "disk", "writes", "removing", "count", "strays",
                       "now", "steady"}
    /\ cache.count \in Nat /\ cache.now \in Times
    /\ DOMAIN cache.disk = Hashes
    /\ DOMAIN cache.entries \subseteq Hashes /\ IsFiniteSet(DOMAIN cache.entries)
    /\ cache.writes \subseteq Writes
    /\ cache.removing \in [Cleaners -> Seq(Hashes)]

\* The file of h is known to an entry, a clean-up or a write.
Leaving(h) == \E k \in Cleaners : h \in Range(cache.removing[k])
Known(h) ==
    \/ h \in DOMAIN cache.entries \/ Leaving(h)
    \/ \E w \in cache.writes : w.hash = h

FilesKnown == Shape /\ NoStrayFiles

LEMMA KnownFiles ==
    NoStrayFiles <=> \A h \in Hashes :
                        cache.disk[h] # Absent /\ h \notin cache.strays => Known(h)
BY DEF NoStrayFiles, Known, Leaving

\* A write changed in one of its flags is the write of the same file.
LEMMA FlagsKeepHash ==
    ASSUME NEW w \in Writes, NEW flag \in BOOLEAN
    PROVE  /\ [w EXCEPT !.done = flag] \in Writes
           /\ [w EXCEPT !.done = flag].hash = w.hash
           /\ [w EXCEPT !.linked = flag] \in Writes
           /\ [w EXCEPT !.linked = flag].hash = w.hash
BY DEF Writes

\* A write that is recorded has an entry, and no entry goes.
LEMMA RecordedDomain ==
    ASSUME NEW entries, NEW h, NEW end, NEW now
    PROVE  DOMAIN Recorded(entries, h, end, now) = DOMAIN entries \cup {h}
<1>1. CASE h \in DOMAIN entries
  BY <1>1 DEF Recorded
<1>2. CASE h \notin DOMAIN entries
  BY <1>2 DEF Recorded
<1>3. QED  BY <1>1, <1>2

\* A step that adds to what knows of a file leaves every file known.
LEMMA MoreKnown ==
    ASSUME FilesKnown, Shape',
           DOMAIN cache.entries \subseteq DOMAIN cache'.entries,
           cache'.removing = cache.removing,
           \A w \in cache.writes :
              w.hash \in cache'.strays \/ \E m \in cache'.writes : m.hash = w.hash,
           \A h \in Hashes :
              \/ cache'.disk[h] = cache.disk[h]
              \/ \E m \in cache'.writes : m.hash = h,
           \A h \in cache.strays : h \in cache'.strays \/ Known(h)'
    PROVE  FilesKnown'
<1>1. ASSUME NEW h \in Hashes, cache'.disk[h] # Absent, h \notin cache'.strays
      PROVE  Known(h)'
  <2>1. CASE \E m \in cache'.writes : m.hash = h
    BY <2>1 DEF Known
  <2>2. CASE cache'.disk[h] = cache.disk[h] /\ h \notin cache.strays
    <3>1. Known(h)
      BY <1>1, <2>2, KnownFiles DEF FilesKnown, Absent
    <3>2. Leaving(h) => Leaving(h)'
      BY DEF Leaving
    <3> QED
      BY <1>1, <3>1, <3>2 DEF Known
  <2> QED
    BY <1>1, <2>1, <2>2
<1>2. NoStrayFiles'
  BY <1>1 DEF NoStrayFiles, Known, Leaving, Absent
<1> QED
  BY <1>2 DEF FilesKnown

LEMMA BeginWriteKeeps ==
    ASSUME FilesKnown, BeginWrite
    PROVE  FilesKnown'
<1>1. PICK h \in Hashes, end \in Ends :
        cache' = [cache EXCEPT
                     !.count = @ + 1,
                     !.writes = @ \cup {[nr |-> cache.count, hash |-> h, end |-> end,
                                         linked |-> TRUE, done |-> FALSE]}]
  BY DEF BeginWrite
<1> DEFINE new == [nr |-> cache.count, hash |-> h, end |-> end,
                   linked |-> TRUE, done |-> FALSE]
<1>2. /\ DOMAIN cache' = DOMAIN cache
      /\ cache'.entries = cache.entries /\ cache'.disk = cache.disk
      /\ cache'.removing = cache.removing /\ cache'.strays = cache.strays
      /\ cache'.now = cache.now /\ cache'.count = cache.count + 1
      /\ cache'.writes = cache.writes \cup {new}
  BY <1>1 DEF FilesKnown, Shape
<1>3. new \in Writes
  BY DEF FilesKnown, Shape, Writes
<1> HIDE DEF new
<1>4. Shape'
  BY <1>2, <1>3 DEF FilesKnown, Shape
<1>5. QED  BY <1>2, <1>4, MoreKnown

LEMMA WriteDataKeeps ==
    ASSUME FilesKnown, WriteData
    PROVE  FilesKnown'
<1>1. PICK w \in cache.writes :
        cache' = [cache EXCEPT
                      !.writes = (@ \ {w}) \cup {[w EXCEPT !.done = TRUE]},
                      !.disk[w.hash] = IF w.linked THEN Max({@, w.end}) ELSE @]
  BY DEF WriteData
<1> DEFINE done == [w EXCEPT !.done = TRUE]
<1>2. /\ w \in Writes
      /\ done \in Writes /\ done.hash = w.hash
  BY FlagsKeepHash DEF FilesKnown, Shape
<1>3. /\ DOMAIN cache' = DOMAIN cache
      /\ cache'.entries = cache.entries
      /\ cache'.removing = cache.removing /\ cache'.strays = cache.strays
      /\ cache'.now = cache.now /\ cache'.count = cache.count
      /\ cache'.writes = (cache.writes \ {w}) \cup {done}
      /\ DOMAIN cache'.disk = DOMAIN cache.disk
      /\ \A h \in Hashes : h # w.hash => cache'.disk[h] = cache.disk[h]
  BY <1>1 DEF FilesKnown, Shape
<1> HIDE DEF done
<1>4. Shape'
  BY <1>2, <1>3 DEF FilesKnown, Shape
<1>5. \A m \in cache.writes : \E n \in cache'.writes : n.hash = m.hash
  BY <1>2, <1>3
<1>6. \E n \in cache'.writes : n.hash = w.hash
  BY <1>2, <1>3
<1>7. QED  BY <1>3, <1>4, <1>5, <1>6, MoreKnown

LEMMA EndWriteKeeps ==
    ASSUME FilesKnown, EndWrite
    PROVE  FilesKnown'
<1>1. PICK w \in cache.writes :
        cache' = [cache EXCEPT
                      !.writes = @ \ {w}, !.strays = @ \ {w.hash},
                      !.entries = Recorded(@, w.hash, w.end, cache.now)]
  BY DEF EndWrite
<1>2. /\ DOMAIN cache' = DOMAIN cache
      /\ cache'.entries = Recorded(cache.entries, w.hash, w.end, cache.now)
      /\ cache'.disk = cache.disk /\ cache'.removing = cache.removing
      /\ cache'.strays = cache.strays \ {w.hash}
      /\ cache'.now = cache.now /\ cache'.count = cache.count
      /\ cache'.writes = cache.writes \ {w}
  BY <1>1 DEF FilesKnown, Shape
<1>3. DOMAIN cache'.entries = DOMAIN cache.entries \cup {w.hash}
  <2>1. DOMAIN Recorded(cache.entries, w.hash, w.end, cache.now)
           = DOMAIN cache.entries \cup {w.hash}
    BY RecordedDomain
  <2>2. QED  BY <1>2, <2>1
<1>4. w.hash \in Hashes
  BY DEF FilesKnown, Shape, Writes
<1>5. IsFiniteSet(DOMAIN cache'.entries)
  <2>1. IsFiniteSet(DOMAIN cache.entries)
    BY DEF FilesKnown, Shape
  <2>2. IsFiniteSet(DOMAIN cache.entries \cup {w.hash})
    BY <2>1, FS_AddElement
  <2>3. QED  BY <1>3, <2>2
<1>6. Shape'
  BY <1>2, <1>3, <1>4, <1>5 DEF FilesKnown, Shape
<1>7. NoStrayFiles'
  BY <1>2, <1>3 DEF FilesKnown, NoStrayFiles, Absent
<1>8. QED  BY <1>6, <1>7 DEF FilesKnown

LEMMA WriteFailsKeeps ==
    ASSUME FilesKnown, WriteFails
    PROVE  FilesKnown'
<1>1. PICK w \in cache.writes :
        cache' = [cache EXCEPT !.writes = @ \ {w}, !.strays = @ \cup {w.hash}]
  BY DEF WriteFails
<1>2. /\ DOMAIN cache' = DOMAIN cache
      /\ cache'.entries = cache.entries /\ cache'.disk = cache.disk
      /\ cache'.removing = cache.removing
      /\ cache'.strays = cache.strays \cup {w.hash}
      /\ cache'.now = cache.now /\ cache'.count = cache.count
      /\ cache'.writes = cache.writes \ {w}
  BY <1>1 DEF FilesKnown, Shape
<1>3. Shape'
  BY <1>2 DEF FilesKnown, Shape
<1>4. QED  BY <1>2, <1>3, MoreKnown

\* The clock and the reads touch no file.
LEMMA TickKeeps ==
    ASSUME FilesKnown, Tick
    PROVE  FilesKnown'
<1>1. PICK t \in Times :
        cache' = [cache EXCEPT !.now = t, !.steady = @ /\ t >= cache.now]
  BY DEF Tick
<1>2. /\ DOMAIN cache' = DOMAIN cache
      /\ cache'.entries = cache.entries /\ cache'.disk = cache.disk
      /\ cache'.removing = cache.removing /\ cache'.strays = cache.strays
      /\ cache'.now = t /\ cache'.count = cache.count
      /\ cache'.writes = cache.writes
  BY <1>1 DEF FilesKnown, Shape
<1>3. Shape'
  BY <1>2 DEF FilesKnown, Shape
<1>4. QED  BY <1>2, <1>3, MoreKnown

LEMMA ReadKeeps ==
    ASSUME FilesKnown, Read
    PROVE  FilesKnown'
<1>1. PICK h \in DOMAIN cache.entries :
        cache' = [cache EXCEPT !.entries[h].used = cache.now]
  BY DEF Read
<1>2. /\ DOMAIN cache' = DOMAIN cache
      /\ DOMAIN cache'.entries = DOMAIN cache.entries /\ cache'.disk = cache.disk
      /\ cache'.removing = cache.removing /\ cache'.strays = cache.strays
      /\ cache'.now = cache.now /\ cache'.count = cache.count
      /\ cache'.writes = cache.writes
  BY <1>1 DEF FilesKnown, Shape
<1>3. Shape'
  BY <1>2 DEF FilesKnown, Shape
<1>4. QED  BY <1>2, <1>3, MoreKnown

\* The entries in the order of a clean-up: each once, and the first of them go.
LEMMA EvictedFirst ==
    ASSUME NEW entries, IsFiniteSet(DOMAIN entries), NEW q \in Sorted(entries)
    PROVE  /\ q \in Seq(DOMAIN entries) /\ Range(q) = DOMAIN entries
           /\ Evicted(entries, q) \in Seq(DOMAIN entries)
           /\ \E n \in 0 .. Len(q) : Evicted(entries, q) = SubSeq(q, 1, n)
<1> DEFINE S == DOMAIN entries
           c == Cardinality(S)
<1>1. /\ q \in [1 .. c -> S]
      /\ \A i, j \in 1 .. c : i # j => q[i] # q[j]
  BY DEF Sorted, SetToSeqs
<1>2. c \in Nat
  BY FS_CardinalityType
<1>3. q \in Seq(S) /\ Len(q) = c /\ DOMAIN q = 1 .. c
  <2> HIDE DEF c
  <2> QED
    BY <1>1, <1>2
<1>4. Range(q) = S
  <2>1. IsFiniteSet(1 .. c) /\ Cardinality(1 .. c) = c
    <3>1. IsFiniteSet(1 .. c) /\ Cardinality(1 .. c) = IF 1 > c THEN 0 ELSE c - 1 + 1
      BY <1>2, FS_Interval
    <3> HIDE DEF c
    <3> QED
      BY <1>2, <3>1
  <2>2. q \in Injection(1 .. c, S)
    BY <1>1 DEF Injection, IsInjective
  <2>3. q \in Surjection(1 .. c, S)
    BY <2>1, <2>2, FS_Injection
  <2> QED
    BY <1>3, <2>3 DEF Surjection, Range
<1> DEFINE total(i) == FileSizes(entries, {q[j] : j \in i .. Len(q)})
           above == {i \in DOMAIN q : total(i) > Threshold}
           n == Cardinality(above)
<1>5. n \in 0 .. Len(q)
  <2> HIDE DEF total
  <2>1. IsFiniteSet(1 .. c) /\ Cardinality(1 .. c) = IF 1 > c THEN 0 ELSE c - 1 + 1
    BY <1>2, FS_Interval
  <2>2. IsFiniteSet(above) /\ n <= Cardinality(1 .. c)
    BY <1>3, <2>1, FS_Subset
  <2>3. n \in Nat
    BY <2>2, FS_CardinalityType
  <2> HIDE DEF n, c
  <2> QED
    BY <1>2, <1>3, <2>1, <2>2, <2>3
<1>6. Evicted(entries, q) = SubSeq(q, 1, n)
  BY DEF Evicted
<1> HIDE DEF n, S, c
<1>7. SubSeq(q, 1, n) \in Seq(S)
  BY <1>3, <1>5
<1> QED
  BY <1>3, <1>4, <1>5, <1>6, <1>7 DEF S

LEMMA CleanupKeeps ==
    ASSUME FilesKnown, NEW k \in Cleaners, Cleanup(k)
    PROVE  FilesKnown'
<1>1. PICK q \in Sorted(cache.entries) :
        LET gone == Evicted(cache.entries, q) IN
        cache' = [cache EXCEPT !.removing[k] = gone,
                               !.entries = Restrict(@, DOMAIN @ \ Range(gone))]
  BY DEF Cleanup
<1> DEFINE gone == Evicted(cache.entries, q)
           rest == Restrict(cache.entries, DOMAIN cache.entries \ Range(gone))
<1>2. gone \in Seq(DOMAIN cache.entries)
  BY EvictedFirst DEF FilesKnown, Shape
<1>3. gone \in Seq(Hashes)
  <2> HIDE DEF gone
  <2> QED
    BY <1>2 DEF FilesKnown, Shape
<1>4. DOMAIN rest = DOMAIN cache.entries \ Range(gone)
  BY DEF Restrict
<1>5. /\ DOMAIN cache' = DOMAIN cache
      /\ cache'.disk = cache.disk /\ cache'.strays = cache.strays
      /\ cache'.count = cache.count /\ cache'.writes = cache.writes
      /\ cache'.now = cache.now
      /\ cache'.removing = [cache.removing EXCEPT ![k] = gone]
      /\ cache'.entries = rest
  BY <1>1 DEF FilesKnown, Shape
<1> HIDE DEF gone, rest
<1>6. IsFiniteSet(DOMAIN rest)
  BY <1>4, FS_Subset DEF FilesKnown, Shape
<1>7. Shape'
  BY <1>3, <1>4, <1>5, <1>6 DEF FilesKnown, Shape
<1>8. ASSUME NEW h \in Hashes, Known(h)
      PROVE  Known(h)'
  <2>1. CASE Leaving(h)
    <3>1. PICK j \in Cleaners : h \in Range(cache.removing[j])
      BY <2>1 DEF Leaving
    <3>2. j # k
      BY <3>1 DEF Cleanup, Range
    <3>3. cache'.removing[j] = cache.removing[j]
      BY <1>5, <3>2 DEF FilesKnown, Shape
    <3> QED
      BY <3>1, <3>3 DEF Known, Leaving
  <2>2. CASE h \in Range(gone)
    <3>1. cache'.removing[k] = gone
      BY <1>5 DEF FilesKnown, Shape
    <3> QED
      BY <2>2, <3>1 DEF Known, Leaving
  <2>3. CASE h \in DOMAIN rest \/ \E w \in cache.writes : w.hash = h
    BY <1>5, <2>3 DEF Known
  <2> QED
    BY <1>4, <1>8, <2>1, <2>2, <2>3 DEF Known
<1>9. \A h \in Hashes : cache'.disk[h] # Absent /\ h \notin cache'.strays => Known(h)'
  BY <1>5, <1>8, KnownFiles DEF FilesKnown, Absent
<1>10. NoStrayFiles'
  BY <1>9 DEF NoStrayFiles, Known, Leaving, Absent
<1>11. QED  BY <1>7, <1>10 DEF FilesKnown

\* A file that is removed, or noted as left behind: the others, and the writes
\* under way, are as they were.
FreedOf(writes, h) == {[w EXCEPT !.linked = w.linked /\ w.hash # h] : w \in writes}

LEMMA RemovedParts ==
    ASSUME FilesKnown, NEW h \in Hashes, NEW c \in Removed(h)
    PROVE  /\ DOMAIN c = DOMAIN cache
           /\ c.entries = cache.entries /\ c.removing = cache.removing
           /\ c.count = cache.count /\ c.now = cache.now
           /\ c.steady = cache.steady
           /\ DOMAIN c.disk = Hashes /\ c.writes \subseteq Writes
           /\ \A g \in Hashes : c.disk[g] # Absent /\ g \notin c.strays =>
                 g # h /\ cache.disk[g] # Absent /\ g \notin cache.strays
           /\ \A w \in cache.writes : \E m \in c.writes : m.hash = w.hash
<1>1. CASE c = [cache EXCEPT !.strays = @ \cup {h}]
  <2>1. /\ DOMAIN c = DOMAIN cache
        /\ c.entries = cache.entries /\ c.removing = cache.removing
        /\ c.count = cache.count /\ c.now = cache.now /\ c.steady = cache.steady
        /\ c.disk = cache.disk /\ c.writes = cache.writes
        /\ c.strays = cache.strays \cup {h}
    BY <1>1 DEF FilesKnown, Shape
  <2> QED
    BY <2>1 DEF FilesKnown, Shape
<1>2. CASE c = Unlinked(cache, h)
  <2> DEFINE disk == [cache.disk EXCEPT ![h] = Absent]
             strays == cache.strays \ {h}
             writes == FreedOf(cache.writes, h)
  <2>1. c = [cache EXCEPT !.disk = disk, !.strays = strays, !.writes = writes]
    BY <1>2, Zenon DEF Unlinked, FreedOf
  <2> HIDE DEF disk, strays, writes
  <2>2. /\ DOMAIN c = DOMAIN cache
        /\ c.entries = cache.entries /\ c.removing = cache.removing
        /\ c.count = cache.count /\ c.now = cache.now /\ c.steady = cache.steady
        /\ c.strays = strays /\ c.disk = disk /\ c.writes = writes
    BY <2>1 DEF FilesKnown, Shape
  <2>3. \A w \in cache.writes :
          LET after == [w EXCEPT !.linked = w.linked /\ w.hash # h]
          IN  after \in Writes /\ after.hash = w.hash /\ after \in writes
    <3> TAKE w \in cache.writes
    <3>1. w \in Writes /\ (w.linked /\ w.hash # h) \in BOOLEAN
      BY DEF FilesKnown, Shape
    <3>2. QED  BY <3>1, FlagsKeepHash DEF writes, FreedOf
  <2>4. writes \subseteq Writes
    BY <2>3 DEF writes, FreedOf
  <2>5. /\ DOMAIN disk = Hashes /\ disk[h] = Absent
        /\ \A g \in Hashes : g # h => disk[g] = cache.disk[g]
    BY DEF disk, FilesKnown, Shape
  <2>6. \A g : g # h /\ g \notin strays => g \notin cache.strays
    BY DEF strays
  <2>7. \A w \in cache.writes : \E m \in c.writes : m.hash = w.hash
    BY <2>2, <2>3
  <2> QED
    BY <2>2, <2>4, <2>5, <2>6, <2>7 DEF Absent
<1>3. QED  BY <1>1, <1>2 DEF Removed

\* What a removal leaves of a clean-up's files is left by one of its steps.
LEMMA RemovalKeeps ==
    ASSUME FilesKnown, NEW h \in Hashes, NEW c \in Removed(h),
           NEW removing \in [Cleaners -> Seq(Hashes)],
           \A g \in Hashes : Leaving(g) /\ g # h =>
              \E k \in Cleaners : g \in Range(removing[k]),
           cache' = [c EXCEPT !.removing = removing]
    PROVE  FilesKnown'
<1>1. /\ DOMAIN c = DOMAIN cache
      /\ c.entries = cache.entries /\ c.count = cache.count /\ c.now = cache.now
      /\ DOMAIN c.disk = Hashes /\ c.writes \subseteq Writes
      /\ \A g \in Hashes : c.disk[g] # Absent /\ g \notin c.strays =>
            g # h /\ cache.disk[g] # Absent /\ g \notin cache.strays
      /\ \A w \in cache.writes : \E m \in c.writes : m.hash = w.hash
  BY RemovedParts
<1>2. /\ DOMAIN cache' = DOMAIN c
      /\ cache'.entries = c.entries /\ cache'.count = c.count /\ cache'.now = c.now
      /\ cache'.disk = c.disk /\ cache'.writes = c.writes
      /\ cache'.strays = c.strays /\ cache'.removing = removing
  BY <1>1 DEF FilesKnown, Shape
<1>3. Shape'
  BY <1>1, <1>2 DEF FilesKnown, Shape
<1>4. ASSUME NEW g \in Hashes, cache'.disk[g] # Absent, g \notin cache'.strays
      PROVE  Known(g)'
  <2>1. g # h /\ cache.disk[g] # Absent /\ g \notin cache.strays
    BY <1>1, <1>2, <1>4
  <2>2. Known(g)
    BY <2>1, KnownFiles DEF FilesKnown
  <2>3. Leaving(g) => Leaving(g)'
    BY <1>2, <2>1 DEF Leaving
  <2>4. (\E w \in cache.writes : w.hash = g) => \E w \in cache'.writes : w.hash = g
    BY <1>1, <1>2
  <2> QED
    BY <1>1, <1>2, <2>2, <2>3, <2>4 DEF Known
<1>5. NoStrayFiles'
  BY <1>4 DEF NoStrayFiles, Known, Leaving, Absent
<1>6. QED  BY <1>3, <1>5 DEF FilesKnown

LEMMA DeleteKeeps ==
    ASSUME FilesKnown, Delete
    PROVE  FilesKnown'
<1>1. PICK h \in Hashes : cache' \in {Unlinked(cache, h), cache}
  BY DEF Delete
<1>2. CASE cache' = cache
  BY <1>2 DEF FilesKnown, Shape, NoStrayFiles, Absent
<1>3. CASE cache' = Unlinked(cache, h)
  <2> DEFINE c == Unlinked(cache, h)
  <2>1. c \in Removed(h)
    BY DEF Removed
  <2>2. DOMAIN c = DOMAIN cache /\ c.removing = cache.removing
    BY <2>1, RemovedParts
  <2> HIDE DEF c
  <2>3. cache' = c
    BY <1>3 DEF c
  <2>4. c = [c EXCEPT !.removing = cache.removing]
    <3>1. c = [x \in DOMAIN c |-> c[x]]
      BY DEF c, Unlinked
    <3> QED
      BY <2>2, <3>1
  <2>5. cache' = [c EXCEPT !.removing = cache.removing]
    BY <2>3, <2>4
  <2>6. cache.removing \in [Cleaners -> Seq(Hashes)]
    BY DEF FilesKnown, Shape
  <2>7. \A g \in Hashes : Leaving(g) /\ g # h =>
           \E k \in Cleaners : g \in Range(cache.removing[k])
    BY DEF Leaving
  <2>8. QED  BY <2>1, <2>5, <2>6, <2>7, RemovalKeeps
<1>4. QED  BY <1>1, <1>2, <1>3

LEMMA RemoveFileKeeps ==
    ASSUME FilesKnown, NEW k \in Cleaners, RemoveFile(k)
    PROVE  FilesKnown'
<1> DEFINE files == cache.removing[k]
           h == Head(files)
           removing == [cache.removing EXCEPT ![k] = Tail(files)]
<1>1. PICK c \in Removed(h) : cache' = [c EXCEPT !.removing[k] = Tail(@)]
  BY DEF RemoveFile
<1>2. files \in Seq(Hashes) /\ files # <<>>
  BY DEF RemoveFile, FilesKnown, Shape
<1>3. h \in Hashes /\ Tail(files) \in Seq(Hashes)
  BY <1>2
<1>4. c.removing = cache.removing /\ DOMAIN c = DOMAIN cache
  BY <1>3, RemovedParts
<1>5. cache' = [c EXCEPT !.removing = removing]
  BY <1>1, <1>4
<1>6. removing \in [Cleaners -> Seq(Hashes)]
  BY <1>3 DEF FilesKnown, Shape
<1>7. \A g : g \in Range(files) /\ g # h => g \in Range(Tail(files))
  <2> SUFFICES ASSUME NEW i \in 1 .. Len(files), files[i] # h
               PROVE  \E j \in 1 .. Len(Tail(files)) : Tail(files)[j] = files[i]
    <3> HIDE DEF files, h
    <3>1. DOMAIN files = 1 .. Len(files) /\ DOMAIN Tail(files) = 1 .. Len(Tail(files))
      BY <1>2
    <3> QED
      BY <3>1 DEF Range
  <2> HIDE DEF files
  <2>1. i > 1
    BY <1>2
  <2>2. i - 1 \in 1 .. Len(Tail(files)) /\ Tail(files)[i - 1] = files[i]
    BY <1>2, <2>1
  <2> QED
    BY <2>2
<1>8. \A g \in Hashes : Leaving(g) /\ g # h =>
         \E j \in Cleaners : g \in Range(removing[j])
  <2> TAKE g \in Hashes
  <2> HAVE Leaving(g) /\ g # h
  <2>1. PICK j \in Cleaners : g \in Range(cache.removing[j])
    BY DEF Leaving
  <2>2. CASE j = k
    <3>1. removing[k] = Tail(files)
      BY DEF FilesKnown, Shape
    <3> QED
      BY <1>7, <2>1, <2>2, <3>1
  <2>3. CASE j # k
    <3>1. removing[j] = cache.removing[j]
      BY <2>3 DEF FilesKnown, Shape
    <3> QED
      BY <2>1, <3>1
  <2> QED
    BY <2>2, <2>3
<1> HIDE DEF h, removing
<1>9. QED  BY <1>3, <1>5, <1>6, <1>8, RemovalKeeps

LEMMA CleanupDroppedKeeps ==
    ASSUME FilesKnown, NEW k \in Cleaners, CleanupDropped(k)
    PROVE  FilesKnown'
<1> DEFINE files == cache.removing[k]
           removing == [cache.removing EXCEPT ![k] = <<>>]
<1>1. /\ DOMAIN cache' = DOMAIN cache
      /\ cache'.entries = cache.entries /\ cache'.disk = cache.disk
      /\ cache'.count = cache.count /\ cache'.writes = cache.writes
      /\ cache'.now = cache.now
      /\ cache'.removing = removing
      /\ cache'.strays = cache.strays \cup Range(files)
  BY DEF FilesKnown, Shape, CleanupDropped
<1>2. removing \in [Cleaners -> Seq(Hashes)]
  BY DEF FilesKnown, Shape
<1>3. Shape'
  BY <1>1, <1>2 DEF FilesKnown, Shape
<1>4. ASSUME NEW h \in Hashes, cache'.disk[h] # Absent, h \notin cache'.strays
      PROVE  Known(h)'
  <2>1. Known(h) /\ h \notin Range(files)
    BY <1>1, <1>4, KnownFiles DEF FilesKnown, Absent
  <2>2. Leaving(h) => Leaving(h)'
    <3> SUFFICES ASSUME NEW j \in Cleaners, h \in Range(cache.removing[j])
                 PROVE  h \in Range(cache'.removing[j])
      BY DEF Leaving
    <3>1. j # k
      BY <2>1
    <3> QED
      BY <1>1, <3>1 DEF FilesKnown, Shape
  <2> QED
    BY <1>1, <2>1, <2>2 DEF Known
<1>5. NoStrayFiles'
  BY <1>4 DEF NoStrayFiles, Known, Leaving, Absent
<1>6. QED  BY <1>3, <1>5 DEF FilesKnown

\* After a restart every file is one that was left behind, and no entry is known.
LEMMA RestartKeeps ==
    ASSUME FilesKnown, Restart
    PROVE  FilesKnown' /\ DOMAIN cache'.entries = {}
<1> DEFINE fresh == Fresh(cache.disk, cache.now)
<1>1. /\ DOMAIN fresh = DOMAIN cache
      /\ fresh.disk = cache.disk /\ fresh.writes = {} /\ fresh.now = cache.now
      /\ DOMAIN fresh.entries = {}
      /\ fresh.removing = [k \in Cleaners |-> <<>>]
  BY DEF Fresh, FilesKnown, Shape
<1>2. cache' = [fresh EXCEPT !.count = cache.count, !.strays = Hashes]
  BY DEF Restart
<1> HIDE DEF fresh
<1>3. /\ DOMAIN cache' = DOMAIN cache
      /\ cache'.disk = cache.disk /\ cache'.writes = {} /\ cache'.now = cache.now
      /\ DOMAIN cache'.entries = {}
      /\ cache'.removing = [k \in Cleaners |-> <<>>]
      /\ cache'.count = cache.count /\ cache'.strays = Hashes
  BY <1>1, <1>2 DEF FilesKnown, Shape
<1>4. IsFiniteSet(DOMAIN cache'.entries)
  BY <1>3, FS_EmptySet
<1>5. QED  BY <1>3, <1>4 DEF FilesKnown, Shape, NoStrayFiles

LEMMA FilesStep ==
    ASSUME FilesKnown, [CacheNext]_cache
    PROVE  FilesKnown'
<1>1. CASE BeginWrite  BY <1>1, BeginWriteKeeps
<1>2. CASE WriteData   BY <1>2, WriteDataKeeps
<1>3. CASE EndWrite    BY <1>3, EndWriteKeeps
<1>4. CASE WriteFails  BY <1>4, WriteFailsKeeps
<1>5. CASE Tick        BY <1>5, TickKeeps
<1>6. CASE Read        BY <1>6, ReadKeeps
<1>7. ASSUME NEW k \in Cleaners, Cleanup(k) \/ RemoveFile(k) \/ CleanupDropped(k)
      PROVE  FilesKnown'
  BY <1>7, CleanupKeeps, RemoveFileKeeps, CleanupDroppedKeeps
<1>8. CASE Delete      BY <1>8, DeleteKeeps
<1>9. CASE Restart     BY <1>9, RestartKeeps
<1>10. CASE UNCHANGED cache
  BY <1>10 DEF FilesKnown, Shape, NoStrayFiles, Absent
<1>11. QED
  BY <1>1, <1>2, <1>3, <1>4, <1>5, <1>6, <1>7, <1>8, <1>9, <1>10 DEF CacheNext

LEMMA FilesInit == CacheInit => FilesKnown
<1> SUFFICES ASSUME CacheInit
             PROVE  FilesKnown
  OBVIOUS
<1>1. PICK t \in Times : cache = Fresh([h \in Hashes |-> Absent], t)
  BY DEF CacheInit
<1>2. /\ DOMAIN cache = {"entries", "disk", "writes", "removing", "count", "strays",
                         "now", "steady"}
      /\ cache.count = 0 /\ cache.now = t /\ cache.disk = [h \in Hashes |-> Absent]
      /\ cache.writes = {} /\ DOMAIN cache.entries = {}
      /\ cache.removing = [k \in Cleaners |-> <<>>]
  BY <1>1 DEF Fresh
<1>3. IsFiniteSet(DOMAIN cache.entries)
  BY <1>2, FS_EmptySet
<1> QED
  BY <1>2, <1>3 DEF FilesKnown, Shape, NoStrayFiles, Absent

\* But for what failed writes, failed removals, dropped clean-ups and restarts
\* left behind, every file of the cache is known to an entry, to a write or to
\* the clean-up that is removing it (write, cleanup, delete), for any files,
\* sizes, times and number of writers and clean-ups.
THEOREM StrayTheorem == CacheSpec => []NoStrayFiles
<1>1. FilesKnown /\ [CacheNext]_cache => FilesKnown'
  BY FilesStep
<1>2. FilesKnown => NoStrayFiles
  BY DEF FilesKnown
<1>3. QED  BY <1>1, <1>2, FilesInit, PTL DEF CacheSpec

-----------------------------------------------------------------------------
(* What a clean-up of the cache takes (MediaCache) *)

CacheEntry == [size : Nat, downloaded : Nat, last : Times, wrote : Times, used : Times]

\* The entries' times: of the last write, and, while the clock was not set back,
\* of a use that is not before it and not in the future.
InTime ==
    /\ cache.entries \in [DOMAIN cache.entries -> CacheEntry]
    /\ \A h \in DOMAIN cache.entries :
          LET e == cache.entries[h] IN
          /\ e.last = e.wrote
          /\ cache.steady => e.wrote <= e.used /\ e.used <= cache.now

LEMMA MaxOfTwo ==
    ASSUME NEW a \in Nat, NEW b \in Nat
    PROVE  Max({a, b}) \in Nat
<1>1. {a, b} \in SUBSET (0 .. a + b) /\ {a, b} # {} /\ a + b \in Nat
  OBVIOUS
<1> QED
  BY <1>1, MaxOfBounded

LEMMA RecordedInTime ==
    ASSUME InTime, cache.now \in Times, NEW h, NEW end \in Ends
    PROVE  LET entries == Recorded(cache.entries, h, end, cache.now) IN
           /\ entries \in [DOMAIN cache.entries \cup {h} -> CacheEntry]
           /\ \A g \in DOMAIN cache.entries \cup {h} :
                 LET e == entries[g] IN
                 /\ e.last = e.wrote
                 /\ cache.steady => e.wrote <= e.used /\ e.used <= cache.now
<1> DEFINE entries == Recorded(cache.entries, h, end, cache.now)
           now == cache.now
           Good(e) == /\ e \in CacheEntry /\ e.last = e.wrote
                      /\ cache.steady => e.wrote <= e.used /\ e.used <= now
<1>1. now \in Times /\ now \in Nat /\ end \in Nat
  BY EndsAssumption, TimesAssumption
<1>2. \A g \in DOMAIN cache.entries : Good(cache.entries[g])
  BY DEF InTime
<1>3. CASE h \in DOMAIN cache.entries
  <2> DEFINE old == cache.entries[h]
             most == Max({old.downloaded, end})
             new == [old EXCEPT !.downloaded = most, !.last = now,
                                !.wrote = now, !.used = now]
  <2>1. old \in CacheEntry
    BY <1>2, <1>3
  <2>2. most \in Nat
    BY <1>1, <2>1, MaxOfTwo DEF CacheEntry
  <2>3. entries = [cache.entries EXCEPT ![h] = new]
    BY <1>3 DEF Recorded
  <2> HIDE DEF now, most, old
  <2>4. Good(new)
    <3>1. /\ new.last = now /\ new.wrote = now /\ new.used = now
          /\ new \in CacheEntry
      BY <1>1, <2>1, <2>2 DEF CacheEntry
    <3> QED
      BY <1>1, <3>1
  <2> HIDE DEF new, entries
  <2>5. /\ DOMAIN entries = DOMAIN cache.entries /\ entries[h] = new
        /\ \A g \in DOMAIN cache.entries : g # h => entries[g] = cache.entries[g]
        /\ entries = [g \in DOMAIN entries |-> entries[g]]
    BY <1>3, <2>3
  <2> HIDE DEF Good
  <2>6. \A g \in DOMAIN cache.entries \cup {h} : Good(entries[g])
    BY <1>2, <1>3, <2>4, <2>5
  <2>7. entries \in [DOMAIN cache.entries \cup {h} -> CacheEntry]
    BY <1>3, <2>5, <2>6 DEF Good
  <2> QED
    BY <2>6, <2>7 DEF Good, entries, now
<1>4. CASE h \notin DOMAIN cache.entries
  <2> DEFINE new == NewEntry(end, now)
  <2>1. entries = [g \in DOMAIN cache.entries \cup {h} |->
                     IF g = h THEN new ELSE cache.entries[g]]
    BY <1>4 DEF Recorded
  <2> HIDE DEF now
  <2>2. Good(new)
    BY <1>1 DEF CacheEntry, NewEntry
  <2> HIDE DEF new, entries, Good
  <2>3. \A g \in DOMAIN cache.entries \cup {h} : Good(entries[g])
    BY <1>2, <2>1, <2>2
  <2>4. entries \in [DOMAIN cache.entries \cup {h} -> CacheEntry]
    BY <2>1, <2>3 DEF Good
  <2> QED
    BY <2>3, <2>4 DEF Good, entries, now
<1> QED
  BY <1>3, <1>4

LEMMA EndWriteRecords ==
    ASSUME FilesKnown, EndWrite
    PROVE  \E w, entries :
              /\ w \in cache.writes
              /\ w.end \in Ends
              /\ entries = Recorded(cache.entries, w.hash, w.end, cache.now)
              /\ DOMAIN entries = DOMAIN cache.entries \cup {w.hash}
              /\ cache'.entries = entries
              /\ cache'.now = cache.now /\ cache'.steady = cache.steady
<1>1. PICK w \in cache.writes :
        cache' = [cache EXCEPT
                      !.writes = @ \ {w}, !.strays = @ \ {w.hash},
                      !.entries = Recorded(@, w.hash, w.end, cache.now)]
  BY DEF EndWrite
<1>2. /\ cache'.entries = Recorded(cache.entries, w.hash, w.end, cache.now)
      /\ cache'.now = cache.now /\ cache'.steady = cache.steady
  BY <1>1 DEF FilesKnown, Shape
<1>3. w.end \in Ends
  BY DEF FilesKnown, Shape, Writes
<1>4. DOMAIN Recorded(cache.entries, w.hash, w.end, cache.now)
         = DOMAIN cache.entries \cup {w.hash}
  BY RecordedDomain
<1> QED
  BY <1>2, <1>3, <1>4

LEMMA InTimeStep ==
    ASSUME FilesKnown, InTime, [CacheNext]_cache
    PROVE  InTime'
<1> USE DEF FilesKnown, Shape
<1>1. ASSUME cache'.entries = cache.entries, cache'.now = cache.now,
             cache'.steady = cache.steady
      PROVE  InTime'
  BY <1>1 DEF InTime
<1>2. CASE BeginWrite \/ WriteData \/ WriteFails \/ UNCHANGED cache
  BY <1>1, <1>2 DEF BeginWrite, WriteData, WriteFails
<1>3. CASE Tick
  <2>1. PICK t \in Times :
          cache' = [cache EXCEPT !.now = t, !.steady = @ /\ t >= cache.now]
    BY <1>3 DEF Tick
  <2>2. /\ cache'.entries = cache.entries /\ cache'.now = t
        /\ cache'.steady => cache.steady /\ t >= cache.now
    BY <2>1
  <2>3. t \in Nat /\ cache.now \in Nat
    BY TimesAssumption
  <2>4. \A h \in DOMAIN cache.entries : cache.entries[h].used \in Nat
    BY TimesAssumption DEF InTime, CacheEntry
  <2> QED
    BY <2>2, <2>3, <2>4 DEF InTime
<1>4. CASE EndWrite
  <2>1. PICK w, entries :
          /\ w \in cache.writes
          /\ w.end \in Ends
          /\ entries = Recorded(cache.entries, w.hash, w.end, cache.now)
          /\ DOMAIN entries = DOMAIN cache.entries \cup {w.hash}
          /\ cache'.entries = entries
          /\ cache'.now = cache.now /\ cache'.steady = cache.steady
    BY <1>4, EndWriteRecords
  <2>2. /\ entries \in [DOMAIN entries -> CacheEntry]
        /\ \A g \in DOMAIN entries :
              LET e == entries[g] IN
              /\ e.last = e.wrote
              /\ cache.steady => e.wrote <= e.used /\ e.used <= cache.now
    <3>1. cache.now \in Times
      OBVIOUS
    <3>2. LET end == w.end
              h == w.hash
              new == Recorded(cache.entries, h, end, cache.now)
          IN  /\ new \in [DOMAIN cache.entries \cup {h} -> CacheEntry]
              /\ \A g \in DOMAIN cache.entries \cup {h} :
                    LET e == new[g] IN
                    /\ e.last = e.wrote
                    /\ cache.steady => e.wrote <= e.used /\ e.used <= cache.now
      BY <2>1, <3>1, RecordedInTime
    <3> QED
      BY <2>1, <3>2
  <2> QED
    BY <2>1, <2>2 DEF InTime
<1>5. CASE Read
  <2>1. PICK h \in DOMAIN cache.entries :
          cache' = [cache EXCEPT !.entries[h].used = cache.now]
    BY <1>5 DEF Read
  <2> DEFINE old == cache.entries[h]
             new == [old EXCEPT !.used = cache.now]
  <2>2. /\ cache'.entries = [cache.entries EXCEPT ![h] = new]
        /\ cache'.now = cache.now /\ cache'.steady = cache.steady
    BY <2>1
  <2>3. old \in CacheEntry /\ cache.now \in Nat
    BY TimesAssumption DEF InTime
  <2>4. /\ new \in CacheEntry /\ new.last = new.wrote
        /\ cache.steady => new.wrote <= new.used /\ new.used <= cache.now
    <3>1. old.last = old.wrote /\ (cache.steady => old.wrote <= old.used /\ old.used <= cache.now)
      BY DEF InTime
    <3>2. old.wrote \in Nat /\ old.used \in Nat
      BY <2>3, TimesAssumption DEF CacheEntry
    <3> HIDE DEF old
    <3> QED
      BY <2>3, <3>1, <3>2 DEF CacheEntry
  <2> HIDE DEF new, old
  <2>5. /\ DOMAIN cache'.entries = DOMAIN cache.entries
        /\ cache'.entries[h] = new
        /\ \A g \in DOMAIN cache.entries : g # h => cache'.entries[g] = cache.entries[g]
        /\ cache'.entries \in [DOMAIN cache.entries -> CacheEntry]
    BY <2>2, <2>4 DEF InTime
  <2> QED
    BY <2>2, <2>4, <2>5 DEF InTime
<1>6. ASSUME NEW k \in Cleaners, Cleanup(k)
      PROVE  InTime'
  <2>1. PICK gone :
          cache' = [cache EXCEPT !.removing[k] = gone,
                                 !.entries = Restrict(@, DOMAIN @ \ Range(gone))]
    BY <1>6 DEF Cleanup
  <2>2. /\ cache'.entries = Restrict(cache.entries, DOMAIN cache.entries \ Range(gone))
        /\ cache'.now = cache.now /\ cache'.steady = cache.steady
    BY <2>1
  <2> QED
    BY <2>2 DEF InTime, Restrict
<1>7. ASSUME NEW k \in Cleaners, RemoveFile(k)
      PROVE  InTime'
  <2> DEFINE h == Head(cache.removing[k])
  <2>1. PICK c \in Removed(h) : cache' = [c EXCEPT !.removing[k] = Tail(@)]
    BY <1>7 DEF RemoveFile
  <2>2. h \in Hashes
    BY <1>7 DEF RemoveFile
  <2>3. /\ DOMAIN c = DOMAIN cache /\ c.entries = cache.entries
        /\ c.now = cache.now /\ c.steady = cache.steady
    BY <2>2, RemovedParts
  <2> QED
    BY <1>1, <2>1, <2>3
<1>8. ASSUME NEW k \in Cleaners, CleanupDropped(k)
      PROVE  InTime'
  BY <1>1, <1>8 DEF CleanupDropped
<1>9. CASE Delete
  <2>1. PICK h \in Hashes : cache' \in {Unlinked(cache, h), cache}
    BY <1>9 DEF Delete
  <2>2. CASE cache' = Unlinked(cache, h)
    <3>1. cache' \in Removed(h)
      BY <2>2 DEF Removed
    <3>2. /\ cache'.entries = cache.entries
          /\ cache'.now = cache.now /\ cache'.steady = cache.steady
      BY <3>1, RemovedParts
    <3> QED
      BY <1>1, <3>2
  <2> QED
    BY <1>1, <2>1, <2>2
<1>10. CASE Restart
  <2>1. cache'.entries = [h \in {} |-> 0]
    BY <1>10 DEF Restart, Fresh
  <2> QED
    BY <2>1 DEF InTime
<1> QED
  BY <1>2, <1>3, <1>4, <1>5, <1>6, <1>7, <1>8, <1>9, <1>10 DEF CacheNext

\* Of the entries of a clean-up's order, the ones it takes come first.
LEMMA CleanupOldest ==
    ASSUME FilesKnown, NEW k \in Cleaners, Cleanup(k),
           NEW h \in DOMAIN cache.entries, h \notin DOMAIN cache'.entries,
           NEW g \in DOMAIN cache.entries, g \in DOMAIN cache'.entries
    PROVE  cache.entries[h].last <= cache.entries[g].last
<1>1. PICK q \in Sorted(cache.entries) :
        LET gone == Evicted(cache.entries, q) IN
        cache' = [cache EXCEPT !.removing[k] = gone,
                               !.entries = Restrict(@, DOMAIN @ \ Range(gone))]
  BY DEF Cleanup
<1> DEFINE gone == Evicted(cache.entries, q)
<1>2. cache'.entries = Restrict(cache.entries, DOMAIN cache.entries \ Range(gone))
  BY <1>1 DEF FilesKnown, Shape
<1>3. h \in Range(gone) /\ g \notin Range(gone)
  BY <1>2 DEF Restrict
<1>4. /\ q \in Seq(DOMAIN cache.entries) /\ Range(q) = DOMAIN cache.entries
      /\ \E n \in 0 .. Len(q) : gone = SubSeq(q, 1, n)
  BY EvictedFirst DEF FilesKnown, Shape
<1>5. PICK n \in 0 .. Len(q) : gone = SubSeq(q, 1, n)
  BY <1>4
<1> HIDE DEF gone
<1>6. /\ DOMAIN q = 1 .. Len(q) /\ DOMAIN gone = 1 .. n
      /\ \A i \in 1 .. n : gone[i] = q[i]
  BY <1>4, <1>5
<1>7. PICK i \in 1 .. n : h = q[i]
  BY <1>3, <1>6 DEF Range
<1>8. PICK j \in 1 .. Len(q) : g = q[j]
  BY <1>4, <1>6 DEF Range
<1>9. j > n
  <2> SUFFICES ASSUME j \in 1 .. n
               PROVE  FALSE
    OBVIOUS
  <2>1. gone[j] = g
    BY <1>6, <1>8
  <2> QED
    BY <1>3, <1>6, <2>1 DEF Range
<1>10. i \in DOMAIN q /\ j \in DOMAIN q /\ i < j
  BY <1>6, <1>9
<1> QED
  BY <1>1, <1>7, <1>8, <1>10 DEF Sorted

LEMMA EntriesGo ==
    ASSUME FilesKnown, InTime, [CacheNext]_cache
    PROVE  \/ DOMAIN cache.entries \subseteq DOMAIN cache'.entries
           \/ DOMAIN cache'.entries = {}
           \/ \E k \in Cleaners : Cleanup(k)
<1>1. CASE BeginWrite \/ WriteData \/ WriteFails \/ Tick \/ UNCHANGED cache
  BY <1>1 DEF BeginWrite, WriteData, WriteFails, Tick, FilesKnown, Shape
<1>2. CASE EndWrite
  BY <1>2, EndWriteRecords
<1>3. CASE Read
  BY <1>3 DEF Read, FilesKnown, Shape
<1>4. ASSUME NEW k \in Cleaners, RemoveFile(k)
      PROVE  cache'.entries = cache.entries
  <2> DEFINE h == Head(cache.removing[k])
  <2>1. PICK c \in Removed(h) : cache' = [c EXCEPT !.removing[k] = Tail(@)]
    BY <1>4 DEF RemoveFile
  <2>2. h \in Hashes
    BY <1>4 DEF RemoveFile, FilesKnown, Shape
  <2>3. DOMAIN c = DOMAIN cache /\ c.entries = cache.entries
    BY <2>2, RemovedParts
  <2> QED
    BY <2>1, <2>3 DEF FilesKnown, Shape
<1>5. ASSUME NEW k \in Cleaners, CleanupDropped(k)
      PROVE  cache'.entries = cache.entries
  BY <1>5 DEF CleanupDropped, FilesKnown, Shape
<1>6. CASE Delete
  <2>1. PICK h \in Hashes : cache' \in {Unlinked(cache, h), cache}
    BY <1>6 DEF Delete
  <2>2. Unlinked(cache, h) \in Removed(h)
    BY DEF Removed
  <2> QED
    BY <2>1, <2>2, RemovedParts
<1>7. CASE Restart
  BY <1>7, RestartKeeps
<1> QED
  BY <1>1, <1>2, <1>3, <1>4, <1>5, <1>6, <1>7 DEF CacheNext

\* A clean-up takes no entry that was written to after the last use, by a read
\* or by a write, of one that it keeps, unless the clock was set back (write,
\* read, cleanup); for any files, sizes, times, writers, clean-ups and threshold.
THEOREM FreshTheorem == CacheSpec => CleanupKeepsFresh
<1>1. CacheInit => InTime
  <2> SUFFICES ASSUME CacheInit
               PROVE  InTime
    OBVIOUS
  <2>1. cache.entries = [h \in {} |-> 0]
    BY DEF CacheInit, Fresh
  <2> QED
    BY <2>1 DEF InTime
<1>2. FilesKnown /\ InTime /\ [CacheNext]_cache => (FilesKnown /\ InTime)'
  BY FilesStep, InTimeStep
<1>3. FilesKnown /\ InTime /\ [CacheNext]_cache =>
        [LET before == cache.entries
             stays  == DOMAIN cache'.entries
         IN  cache.steady =>
               \A h \in DOMAIN before \ stays, g \in DOMAIN before \cap stays :
                  before[h].wrote <= before[g].used]_cache
  <2> SUFFICES ASSUME FilesKnown, InTime, [CacheNext]_cache, cache.steady,
                      NEW h \in DOMAIN cache.entries \ DOMAIN cache'.entries,
                      NEW g \in DOMAIN cache.entries \cap DOMAIN cache'.entries
               PROVE  cache.entries[h].wrote <= cache.entries[g].used
    OBVIOUS
  <2>1. PICK k \in Cleaners : Cleanup(k)
    BY EntriesGo
  <2>2. cache.entries[h].last <= cache.entries[g].last
    BY <2>1, CleanupOldest
  <2>3. /\ cache.entries[h].last = cache.entries[h].wrote
        /\ cache.entries[g].last = cache.entries[g].wrote
        /\ cache.entries[g].wrote <= cache.entries[g].used
    BY DEF InTime
  <2>4. /\ cache.entries[h].wrote \in Nat /\ cache.entries[g].wrote \in Nat
        /\ cache.entries[g].used \in Nat
    BY TimesAssumption DEF InTime, CacheEntry
  <2> QED
    BY <2>2, <2>3, <2>4
<1> QED
  BY <1>1, <1>2, <1>3, FilesInit, PTL DEF CacheSpec, CleanupKeepsFresh

-----------------------------------------------------------------------------
(* The desktop client (Desktop) *)

DeskFields ==
    {"server", "state", "playing", "stop", "position", "duration", "hash", "pending",
     "decoder", "list", "selected", "menu", "calls", "polls", "errors", "statuses",
     "inputs", "last", "over"}

\* Of the player, with no stop pressed: one that is pressed is taken back in the
\* same call (reset()).
Unstopped(d) == DOMAIN d = DeskFields /\ ~d.stop

\* The selection points into the task list; an open menu may point behind it.
ListHolds(d) ==
    /\ Unstopped(d)
    /\ d.list \in Seq(Media)
    /\ d.selected \in 0 .. Len(d.list) /\ d.menu \in Nat

ListInv == ListHolds(desk) /\ DOMAIN desk.last = {"input", "sent"} /\ ReportsNotEchoed

\* e has the task list of d, and no stop that d has not.
SameList(d, e) ==
    /\ Unstopped(e)
    /\ e.list = d.list /\ e.selected = d.selected /\ e.menu = d.menu

\* Entry i of d is entry j of e, when there is one.
SameEntry(d, i, e, j) == i \in DOMAIN d.list /\ j # 0 => d.list[i] = e.list[j]

LEMMA OrderedKeeps ==
    ASSUME NEW d, Unstopped(d)
    PROVE  SameList(d, Ordered(d))
BY DEF Ordered, SameList, DeskFields, Unstopped

LEMMA ReceivedKeeps ==
    ASSUME NEW d, Unstopped(d)
    PROVE  SameList(d, Received(d))
<1> DEFINE failed == IF d.errors
                  THEN [Shown(d) EXCEPT !.state = "Error", !.playing = FALSE]
                  ELSE Shown(d)
           told   == FoldLeft(Answer, failed, d.statuses)
<1>1. Received(d) = [d EXCEPT !.state = told.state, !.playing = told.playing,
                  !.position = told.position, !.duration = told.duration,
                  !.errors = FALSE, !.statuses = <<>>]
  BY Zenon DEF Received
<1> HIDE DEF told
<1> QED
  BY <1>1 DEF SameList, DeskFields, Unstopped

LEMMA SettledKeeps ==
    ASSUME NEW d, Unstopped(d)
    PROVE  SameList(d, Settled(d))
BY DEF Settled, SameList, DeskFields, Unstopped

LEMMA DecodedKeeps ==
    ASSUME NEW d, Unstopped(d), NEW ends
    PROVE  SameList(d, Decoded(d, ends))
BY DEF Decoded, SameList, DeskFields, Unstopped

LEMMA PlayUriLists ==
    ASSUME NEW d, NEW m, NEW decodes, Unstopped(d)
    PROVE  /\ Unstopped(PlayUri(d, m, decodes))
           /\ PlayUri(d, m, decodes).list = Append(d.list, m)
           /\ PlayUri(d, m, decodes).selected = d.selected
           /\ PlayUri(d, m, decodes).menu = d.menu
<1> DEFINE opened == [d EXCEPT !.decoder = decodes, !.hash = m, !.state = "Buffering",
                            !.list = Append(@, m)]
           asked  == [opened EXCEPT !.playing = TRUE]
           waits(n) == IsLocal(n) = IsLocal(m)
           Ok(e) == /\ Unstopped(e)
                    /\ e.list = Append(d.list, m)
                    /\ e.selected = d.selected /\ e.menu = d.menu
<1>1. Ok(opened)
  BY DEF DeskFields, Unstopped
<1>2. Ok(asked)
  BY <1>1 DEF DeskFields, Unstopped
<1>3. /\ Ok([asked EXCEPT !.state = "Playing"])
      /\ Ok([asked EXCEPT !.state = "Error", !.playing = FALSE])
      /\ Ok([asked EXCEPT !.pending = {n \in @ : ~waits(n)} \cup {m}])
  <2> HIDE DEF asked, waits
  <2> QED
    BY <1>2 DEF DeskFields, Unstopped
<1> DEFINE e == PlayUri(d, m, decodes)
<1>4. \/ e = opened \/ e = [asked EXCEPT !.state = "Playing"]
      \/ e = [asked EXCEPT !.state = "Error", !.playing = FALSE]
      \/ e = [asked EXCEPT !.pending = {n \in @ : ~waits(n)} \cup {m}]
  BY Zenon DEF PlayUri
<1> HIDE DEF opened, asked, waits
<1> QED
  BY <1>1, <1>3, <1>4

\* What moves an entry of the list, by its place before and after.
LEMMA RemovedEntry ==
    ASSUME NEW s \in Seq(Media), NEW i \in 1 .. Len(s)
    PROVE  /\ RemoveAt(s, i) \in Seq(Media)
           /\ Len(RemoveAt(s, i)) = Len(s) - 1
           /\ \A k \in 1 .. i - 1 : RemoveAt(s, i)[k] = s[k]
           /\ \A k \in i + 1 .. Len(s) : RemoveAt(s, i)[k - 1] = s[k]
<1>1. RemoveAt(s, i) = Dropped(s, i)
  BY DEF RemoveAt, Dropped
<1>2. ASSUME NEW k \in i + 1 .. Len(s)
      PROVE  Dropped(s, i)[k - 1] = s[k]
  <2>1. k - 1 \in i .. Len(s) - 1 /\ (k - 1) + 1 = k
    OBVIOUS
  <2> QED
    BY <2>1, DroppedEntries
<1> QED
  BY <1>1, <1>2, DroppedEntries

\* What an input does to the list, the selection and the menu.
Listed(d, u, e) ==
    /\ ListHolds(e)
    /\ u.do \notin {"select", "start"} => SameEntry(d, d.selected, e, e.selected)
    /\ u.do \notin {"menu"} \cup Edits => SameEntry(d, d.menu, e, e.menu)

LEMMA SameListed ==
    ASSUME NEW d, ListHolds(d), NEW e, SameList(d, e), NEW u
    PROVE  Listed(d, u, e)
BY DEF ListHolds, Unstopped, SameList, Listed, SameEntry

LEMMA KeyKeeps ==
    ASSUME NEW d, Unstopped(d),
           NEW key \in {"space", "left", "right", "escape"}
    PROVE  SameList(d, Key(d, key))
BY DEF Key, StopPressed, Reset, SameList, DeskFields, Unstopped

LEMMA ControlsKeep ==
    ASSUME NEW d, NEW u, Unstopped(d), u.do \in {"play", "stop", "seek"}
    PROVE  SameList(d, Controls(d, u))
BY DEF Controls, StopPressed, Reset, SameList, DeskFields, Unstopped

LEMMA PlayUriListed ==
    ASSUME NEW d, ListHolds(d), NEW u, u.do = "open", u.media \in Media
    PROVE  Listed(d, u, PlayUri(d, u.media, u.decodes))
<1> DEFINE e == PlayUri(d, u.media, u.decodes)
<1>1. Unstopped(d)
  BY DEF ListHolds, Unstopped
<1>2. /\ Unstopped(e)
      /\ e.list = Append(d.list, u.media)
      /\ e.selected = d.selected /\ e.menu = d.menu
  BY <1>1, PlayUriLists
<1> HIDE DEF e
<1>3. /\ Append(d.list, u.media) \in Seq(Media)
      /\ Len(Append(d.list, u.media)) = Len(d.list) + 1
      /\ \A k \in 1 .. Len(d.list) : Append(d.list, u.media)[k] = d.list[k]
  BY DEF ListHolds, Unstopped
<1>4. ListHolds(e)
  BY <1>2, <1>3 DEF ListHolds, Unstopped
<1>5. SameEntry(d, d.selected, e, e.selected) /\ SameEntry(d, d.menu, e, e.menu)
  BY <1>2, <1>3 DEF ListHolds, Unstopped, SameEntry
<1> QED
  BY <1>4, <1>5 DEF Listed, e

LEMMA TasksListed ==
    ASSUME NEW d, ListHolds(d), NEW u, u.do \in ListInputs \ Edits, Possible(d, u),
           u.do = "select" => u.entry \in Nat \ {0}
    PROVE  Listed(d, u, Tasks(d, u))
<1>1. CASE u.do = "select"
  <2>1. u.entry \in 1 .. Len(d.list)
    BY <1>1 DEF Possible, ListHolds
  <2>2. Tasks(d, u) = [d EXCEPT !.selected = u.entry, !.menu = 0]
    BY <1>1 DEF Tasks
  <2> QED
    BY <1>1, <2>1, <2>2 DEF Listed, Unstopped, ListHolds, SameEntry, DeskFields
<1>2. CASE u.do = "menu"
  <2>1. Tasks(d, u) = [d EXCEPT !.menu = d.selected]
    BY <1>2 DEF Tasks
  <2> QED
    BY <1>2, <2>1 DEF Listed, Unstopped, ListHolds, SameEntry, DeskFields
<1>3. CASE u.do = "remove"
  <2>1. Tasks(d, u) = [d EXCEPT !.list = RemoveAt(d.list, d.menu), !.menu = 0, !.selected = 0]
    BY <1>3 DEF Tasks
  <2>2. d.menu \in 1 .. Len(d.list)
    BY <1>3 DEF Possible, ListHolds
  <2>3. RemoveAt(d.list, d.menu) \in Seq(Media)
    BY <2>2, RemovedEntry DEF ListHolds, Unstopped
  <2> QED
    BY <2>1, <2>3 DEF Listed, Unstopped, ListHolds, SameEntry, DeskFields
<1>4. CASE u.do = "dismiss"
  <2>1. Tasks(d, u) = [d EXCEPT !.menu = 0]
    BY <1>4 DEF Tasks
  <2> QED
    BY <2>1 DEF Listed, Unstopped, ListHolds, SameEntry, DeskFields
<1> QED
  BY <1>1, <1>2, <1>3, <1>4 DEF ListInputs, Edits

\* Two entries change places and the selection follows.
Moved(d, i, j) ==
    [d EXCEPT !.list = Swapped(d.list, i, j),
              !.selected = CASE d.selected = i -> j [] d.selected = j -> i
                             [] OTHER -> d.selected]

LEMMA MovedListed ==
    ASSUME NEW d, ListHolds(d), NEW u, u.do \in Edits,
           NEW i \in 1 .. Len(d.list), NEW j \in 1 .. Len(d.list), i # j
    PROVE  Listed(d, u, Moved(d, i, j))
<1> DEFINE list == Swapped(d.list, i, j)
           selected == CASE d.selected = i -> j [] d.selected = j -> i
                         [] OTHER -> d.selected
           e == [d EXCEPT !.list = list, !.selected = selected]
<1> d.list \in Seq(Media)
  BY DEF ListHolds, Unstopped
<1>1. /\ list \in Seq(Media) /\ Len(list) = Len(d.list)
      /\ list[i] = d.list[j] /\ list[j] = d.list[i]
      /\ \A k \in 1 .. Len(d.list) \ {i, j} : list[k] = d.list[k]
  BY DEF Swapped
<1>2. /\ selected \in 0 .. Len(d.list)
      /\ d.selected # 0 => selected # 0 /\ list[selected] = d.list[d.selected]
  <2> HIDE DEF list
  <2>1. CASE d.selected = i
    BY <1>1, <2>1
  <2>2. CASE d.selected = j /\ d.selected # i
    BY <1>1, <2>2
  <2>3. CASE d.selected \notin {i, j}
    BY <1>1, <2>3 DEF ListHolds, Unstopped
  <2> QED
    BY <2>1, <2>2, <2>3
<1> HIDE DEF list, selected
<1>3. /\ e.list = list /\ e.selected = selected
      /\ e.menu = d.menu /\ Unstopped(e)
  BY DEF ListHolds, Unstopped, DeskFields
<1> HIDE DEF e
<1>4. Listed(d, u, e)
  BY <1>1, <1>2, <1>3 DEF Listed, Unstopped, ListHolds, SameEntry
<1> QED
  BY <1>4 DEF e, list, selected, Moved

LEMMA EditListed ==
    ASSUME NEW d, ListHolds(d), NEW u, u.do \in Edits, Possible(d, u),
           u.do # "clear" => u.entry \in Nat \ {0}
    PROVE  Listed(d, u, Edit(d, u))
<1>1. u.do \in Edits /\ d.menu \in Nat
  BY DEF ListHolds
<1>2. u.do # "clear" => u.entry \in 1 .. Len(d.list)
  BY DEF Possible, ListHolds, Edits
<1>3. CASE u.do = "start"
  <2>1. Edit(d, u) = [d EXCEPT !.selected = u.entry]
    BY <1>3 DEF Edit
  <2> QED
    BY <1>1, <1>2, <1>3, <2>1 DEF Listed, Unstopped, ListHolds, SameEntry, DeskFields
<1>4. CASE u.do = "take"
  <2> DEFINE list == RemoveAt(d.list, u.entry)
             selected == CASE u.entry < d.selected -> d.selected - 1
                           [] u.entry = d.selected -> 0
                           [] OTHER -> d.selected
  <2>1. Edit(d, u) = [d EXCEPT !.list = list, !.selected = selected]
    BY <1>4 DEF Edit
  <2>2. /\ list \in Seq(Media) /\ Len(list) = Len(d.list) - 1
        /\ \A k \in 1 .. u.entry - 1 : list[k] = d.list[k]
        /\ \A k \in u.entry + 1 .. Len(d.list) : list[k - 1] = d.list[k]
    BY <1>2, <1>4, RemovedEntry DEF ListHolds, Unstopped
  <2> HIDE DEF list
  <2>3. /\ selected \in 0 .. Len(list)
        /\ d.selected # 0 /\ selected # 0 => d.list[d.selected] = list[selected]
    <3>1. CASE u.entry < d.selected
      BY <1>2, <1>4, <2>2, <3>1 DEF ListHolds, Unstopped
    <3>2. CASE u.entry = d.selected
      BY <1>2, <1>4, <2>2, <3>2 DEF ListHolds, Unstopped
    <3>3. CASE d.selected < u.entry
      <4>1. d.selected \in 0 .. Len(d.list) /\ u.entry \in 1 .. Len(d.list) /\ Len(d.list) \in Nat
        BY <1>2, <1>4 DEF ListHolds
      <4>2. selected = d.selected
        BY <3>3, <4>1
      <4> QED
        BY <2>2, <3>3, <4>1, <4>2
    <3> QED
      BY <1>2, <1>4, <3>1, <3>2, <3>3 DEF ListHolds, Unstopped
  <2> HIDE DEF selected
  <2> QED
    BY <1>1, <2>1, <2>2, <2>3 DEF Listed, Unstopped, ListHolds, SameEntry, DeskFields
<1>5. CASE u.do = "up"
  <2>1. CASE u.entry > 1
    <3>1. u.entry - 1 \in 1 .. Len(d.list) /\ u.entry \in 1 .. Len(d.list) /\ u.entry # u.entry - 1
      BY <1>2, <1>5, <2>1 DEF ListHolds, Unstopped
    <3>2. Edit(d, u) = Moved(d, u.entry, u.entry - 1)
      BY <1>5, <2>1 DEF Edit, Moved
    <3> QED
      BY <1>1, <3>1, <3>2, MovedListed
  <2>2. CASE ~(u.entry > 1)
    <3>1. Edit(d, u) = d
      BY <1>5, <2>2 DEF Edit
    <3> QED
      BY <3>1, SameListed DEF SameList, ListHolds
  <2> QED
    BY <2>1, <2>2
<1>6. CASE u.do = "down"
  <2>1. CASE u.entry < Len(d.list)
    <3>1. u.entry + 1 \in 1 .. Len(d.list) /\ u.entry \in 1 .. Len(d.list) /\ u.entry # u.entry + 1
      BY <1>2, <1>6, <2>1 DEF ListHolds, Unstopped
    <3>2. Edit(d, u) = Moved(d, u.entry, u.entry + 1)
      BY <1>6, <2>1 DEF Edit, Moved
    <3> QED
      BY <1>1, <3>1, <3>2, MovedListed
  <2>2. CASE ~(u.entry < Len(d.list))
    <3>1. Edit(d, u) = d
      BY <1>6, <2>2 DEF Edit
    <3> QED
      BY <3>1, SameListed DEF SameList, ListHolds
  <2> QED
    BY <2>1, <2>2
<1>7. CASE u.do = "clear"
  <2>1. Edit(d, u) = [d EXCEPT !.list = <<>>, !.selected = 0]
    BY <1>7 DEF Edit
  <2> QED
    BY <1>1, <2>1 DEF Listed, Unstopped, ListHolds, SameEntry, DeskFields
<1> QED
  BY <1>3, <1>4, <1>5, <1>6, <1>7 DEF Edits

LEMMA HandleListed ==
    ASSUME NEW d, ListHolds(d), NEW u \in Inputs, Possible(d, u)
    PROVE  Listed(d, u, Handle(d, u))
<1>0. Unstopped(d)
  BY DEF ListHolds, Unstopped
<1>1. /\ u.do \in {"none", "open", "space", "left", "right", "escape", "play", "stop",
                   "seek"} \cup ListInputs
      /\ u.do = "open" => u.media \in Media
      /\ u.do \in {"select", "start", "take", "up", "down"} => u.entry \in Nat \ {0}
  BY DEF Inputs, ListInputs, Edits
<1>2. CASE u.do = "none"
  <2>1. Handle(d, u) = d
    BY <1>2 DEF Handle, ListInputs, Edits
  <2> QED
    BY <1>0, <2>1, SameListed DEF SameList
<1>3. CASE u.do = "open"
  <2>1. Handle(d, u) = PlayUri(d, u.media, u.decodes)
    BY <1>3 DEF Handle, ListInputs, Edits
  <2> QED
    BY <1>1, <1>3, <2>1, PlayUriListed
<1>4. CASE u.do \in {"space", "left", "right", "escape"}
  <2>1. Handle(d, u) = Key(d, u.do)
    BY <1>4 DEF Handle, ListInputs, Edits
  <2> QED
    BY <1>0, <1>4, <2>1, KeyKeeps, SameListed
<1>5. CASE u.do \in Edits
  <2>1. Handle(d, u) = Edit(d, u)
    BY <1>5 DEF Handle, ListInputs, Edits
  <2>2. u.do # "clear" => u.entry \in Nat \ {0}
    BY <1>1, <1>5 DEF Edits
  <2> QED
    BY <1>5, <2>1, <2>2, EditListed
<1>6. CASE u.do \in ListInputs \ Edits
  <2>1. Handle(d, u) = Tasks(d, u)
    BY <1>6 DEF Handle, ListInputs, Edits
  <2>2. u.do = "select" => u.entry \in Nat \ {0}
    BY <1>1
  <2> QED
    BY <1>6, <2>1, <2>2, TasksListed
<1>7. CASE u.do \in {"play", "stop", "seek"}
  <2>1. Handle(d, u) = Controls(d, u)
    BY <1>7 DEF Handle, ListInputs, Edits
  <2>2. SameList(d, Controls(d, u))
    BY <1>0, <1>7, ControlsKeep, Zenon
  <2> QED
    BY <2>1, <2>2, SameListed, Zenon
<1> QED
  BY <1>1, <1>2, <1>3, <1>4, <1>5, <1>6, <1>7

LEMMA SameListTransitive ==
    ASSUME NEW c, NEW d, NEW e, SameList(c, d), SameList(d, e)
    PROVE  SameList(c, e)
BY DEF SameList

\* A frame: the list, and what it commands when the user did nothing.
LEMMA FrameListed ==
    ASSUME ListInv, NEW u \in Inputs, Update(u)
    PROVE  /\ Listed(desk, u, desk')
           /\ DOMAIN desk'.last = {"input", "sent"} /\ desk'.last.input = u.do
           /\ ReportsNotEchoed'
<1>1. PICK due \in BOOLEAN, ends \in BOOLEAN :
        Possible(desk, u) /\ desk' = Frame(u, due, ends)
  BY DEF Update
<1> DEFINE d == [desk EXCEPT !.pending = {}]
           input == Handle(d, u)
           ordered == Ordered(input)
           received == Received(ordered)
           settled == Settled(received)
           shown == Decoded(settled, ends)
<1>2. /\ ListHolds(d) /\ Possible(d, u) /\ d.list = desk.list
      /\ d.selected = desk.selected /\ d.menu = desk.menu
      /\ d.hash = desk.hash /\ d.server = desk.server
      /\ d.playing = desk.playing /\ d.position = desk.position
  BY <1>1 DEF ListInv, ListHolds, DeskFields, Unstopped, Possible
<1>3. Listed(d, u, input)
  <2> HIDE DEF d
  <2> QED
    BY <1>2, HandleListed
<1>4. u.do = "none" => input = d
  <2> HIDE DEF d
  <2> QED
    BY DEF Handle, ListInputs, Edits
<1>5. desk' = Sent(shown, u, Plays(desk), Commands(desk, input), due)
  BY <1>1 DEF Frame
<1>6. Commands(desk, d) = {}
  <2> HIDE DEF d
  <2> QED
    BY <1>2 DEF Commands, ListHolds, Unstopped
<1> HIDE DEF d, input
<1>7. Unstopped(input)
  BY <1>3 DEF Listed, Unstopped, ListHolds
<1>8. SameList(input, ordered)
  BY <1>7, OrderedKeeps
<1> HIDE DEF ordered
<1>9. SameList(ordered, received)
  BY <1>8, ReceivedKeeps DEF SameList
<1> HIDE DEF received
<1>10. SameList(received, settled)
  BY <1>9, SettledKeeps DEF SameList
<1> HIDE DEF settled
<1>11. SameList(settled, shown)
  BY <1>10, DecodedKeeps DEF SameList
<1> HIDE DEF shown
<1>12. SameList(shown, desk') /\ desk'.last = [input |-> u.do, sent |-> Commands(desk, input)]
  <2>1. Unstopped(shown)
    BY <1>11 DEF SameList
  <2> QED
    BY <1>5, <2>1 DEF Sent, SameList, Unstopped, DeskFields
<1>13. SameList(input, desk')
  BY <1>8, <1>9, <1>10, <1>11, <1>12, SameListTransitive
<1>14. Listed(desk, u, desk')
  BY <1>2, <1>3, <1>13 DEF Listed, SameList, ListHolds, SameEntry
<1> QED
  BY <1>4, <1>6, <1>12, <1>14 DEF ReportsNotEchoed

LEMMA EndsKeepList ==
    ASSUME ListInv, CallEnds \/ PollEnds \/ RemovePanics
    PROVE  SameList(desk, desk') /\ desk'.last = desk.last
<1> Unstopped(desk)
  BY DEF ListInv, ListHolds
<1>1. CASE CallEnds
  <2>1. PICK more, errors : desk' = [desk EXCEPT !.calls = more, !.errors = errors]
    BY <1>1 DEF CallEnds
  <2> QED
    BY <2>1 DEF SameList, DeskFields, Unstopped
<1>2. CASE PollEnds
  <2>1. \/ \E polls : desk' = [desk EXCEPT !.polls = polls]
        \/ \E polls, statuses : desk' = [desk EXCEPT !.polls = polls, !.statuses = statuses]
    BY <1>2, Zenon DEF PollEnds
  <2> QED
    BY <2>1 DEF SameList, DeskFields, Unstopped
<1>3. CASE RemovePanics
  BY <1>3 DEF RemovePanics, SameList, DeskFields, Unstopped
<1> QED
  BY <1>1, <1>2, <1>3

LEMMA ListStep ==
    ASSUME ListInv, [DeskNext]_desk
    PROVE  /\ ListInv'
           /\ LET input == desk'.last.input
              IN  desk' # desk =>
                  /\ input \notin {"select", "start"} =>
                        SameEntry(desk, desk.selected, desk', desk'.selected)
                  /\ input \notin {"menu"} \cup Edits =>
                        SameEntry(desk, desk.menu, desk', desk'.menu)
<1>1. ASSUME NEW u \in Inputs, Update(u)
      PROVE  /\ ListInv'
             /\ desk'.last.input \notin {"select", "start"} =>
                   SameEntry(desk, desk.selected, desk', desk'.selected)
             /\ desk'.last.input \notin {"menu"} \cup Edits =>
                   SameEntry(desk, desk.menu, desk', desk'.menu)
  BY <1>1, FrameListed DEF ListInv, Listed
<1>2. CASE CallEnds \/ PollEnds \/ RemovePanics
  BY <1>2, EndsKeepList DEF ListInv, ListHolds, SameList, SameEntry, ReportsNotEchoed
<1>3. CASE UNCHANGED desk
  BY <1>3 DEF ListInv, ReportsNotEchoed
<1> QED
  BY <1>1, <1>2, <1>3 DEF DeskNext

LEMMA ListInit == DeskInit => ListInv
BY DEF DeskInit, ListInv, ListHolds, DeskFields, Unstopped, ReportsNotEchoed

\* A frame in which the user touches nothing sends no command to the player: what
\* the player reports, or the worker, is shown and not sent back as if it had been
\* asked for (app.rs update), for any inputs, media, answers and lengths of the list.
THEOREM EchoTheorem == DeskSpec => []ReportsNotEchoed
<1>1. ListInv /\ [DeskNext]_desk => ListInv'
  BY ListStep
<1>2. ListInv => ReportsNotEchoed
  BY DEF ListInv
<1> QED
  BY <1>1, <1>2, ListInit, PTL DEF DeskSpec

\* The selected entry stays the same medium through every removal, move and
\* re-ordering of the task list, and the one an open menu is for through all but
\* the edits of the list's owner, which leave its index behind (playlist.rs);
\* however long the list is.
THEOREM IndicesTheorem == DeskSpec => IndicesHold
<1>1. ListInv /\ [DeskNext]_desk => ListInv'
  BY ListStep
<1>2. ListInv /\ [DeskNext]_desk =>
        [LET input == desk'.last.input
             same(i, j) == i \in DOMAIN desk.list /\ j # 0 => desk.list[i] = desk'.list[j]
         IN  /\ input \notin {"select", "start"} => same(desk.selected, desk'.selected)
             /\ input \notin {"menu"} \cup Edits => same(desk.menu, desk'.menu)]_desk
  BY ListStep DEF SameEntry
<1> QED
  BY <1>1, <1>2, ListInit, PTL DEF DeskSpec, IndicesHold
=============================================================================
