---------------------------- MODULE GatewayProofs ----------------------------
(* Theorems about the handlers of the local server under the engine's       *)
(* mutex, for any viewers and callers, sizes, headers and bounds.           *)
EXTENDS Gateway, SequenceTheorems, FiniteSetTheorems, TLAPS

States == Inside \cup Waiting \cup Outside

\* Who has something to do with the mutex stands in its queue, at one place;
\* who is inside stands at its head.
Placed(q, c) ==
    /\ q \in Seq(Procs)
    /\ c \in [Procs -> States]
    /\ \A i, j \in 1..Len(q) : q[i] = q[j] => i = j
    /\ \A i \in 1..Len(q) : c[q[i]] \notin Outside
    /\ \A p \in Procs : c[p] \notin Outside => \E i \in 1..Len(q) : q[i] = p
    /\ \A p \in Procs : c[p] \in Inside => q # <<>> /\ q[1] = p

LEMMA StatesApart ==
    /\ Inside \cap Outside = {} /\ Waiting \cap Outside = {}
    /\ Waiting \cap Inside = {}
    /\ Commands \subseteq Waiting /\ "play" \in Waiting /\ "poll" \in Waiting
BY ClientsAssumption DEF Inside, Waiting, Outside

-----------------------------------------------------------------------------
(* The queue *)

LEMMA HeadOfQueue ==
    ASSUME Placed(queue, pc), NEW p, Holds(p)
    PROVE  /\ p \in Procs /\ Len(queue) \in Nat /\ Len(queue) >= 1
           /\ queue[1] = p /\ pc[p] \notin Outside
<1>1. queue \in Seq(Procs) /\ queue # <<>> /\ Head(queue) = p
  BY DEF Placed, Holds
<1>2. Len(queue) \in Nat /\ Len(queue) >= 1 /\ queue[1] = p
  BY <1>1
<1>3. 1 \in 1..Len(queue) /\ queue[1] \in Procs
  BY <1>1, <1>2
<1>4. QED  BY <1>2, <1>3 DEF Placed

\* Nobody but the holder is inside.
LEMMA OnlyHolderInside ==
    ASSUME Placed(queue, pc), NEW p \in Procs, Holds(p),
           NEW q \in Procs, pc[q] \in Inside
    PROVE  q = p
BY HeadOfQueue DEF Placed

LEMMA LockPlaced ==
    ASSUME Placed(queue, pc), NEW p \in Procs, pc[p] \in Outside,
           NEW at \in Waiting, Lock(p, at)
    PROVE  Placed(queue', pc')
<1> DEFINE n == Len(queue)
<1>1. /\ queue \in Seq(Procs) /\ n \in Nat
      /\ \A i \in 1..n : queue[i] \in Procs /\ queue[i] # p
  BY DEF Placed
<1>2. /\ queue' \in Seq(Procs) /\ Len(queue') = n + 1
      /\ \A i \in 1..n : queue'[i] = queue[i]
      /\ queue'[n + 1] = p
  BY <1>1, AppendProperties DEF Lock
<1>3. /\ pc' \in [Procs -> States] /\ pc'[p] = at
      /\ \A q \in Procs \ {p} : pc'[q] = pc[q]
  BY DEF Lock, Placed, States
<1>4. at \notin Outside /\ at \notin Inside
  BY StatesApart
<1>5. \A i, j \in 1..n + 1 : queue'[i] = queue'[j] => i = j
  <2> SUFFICES ASSUME NEW i \in 1..n + 1, NEW j \in 1..n + 1, queue'[i] = queue'[j]
               PROVE  i = j
    OBVIOUS
  <2>1. CASE i \in 1..n /\ j \in 1..n
    BY <2>1, <1>2 DEF Placed
  <2>2. CASE ~(i \in 1..n /\ j \in 1..n)
    <3>1. (i = n + 1 \/ i \in 1..n) /\ (j = n + 1 \/ j \in 1..n)
      BY <1>1
    <3>2. QED  BY <2>2, <3>1, <1>1, <1>2
  <2>3. QED  BY <2>1, <2>2
<1>6. \A i \in 1..n + 1 : pc'[queue'[i]] \notin Outside
  <2> TAKE i \in 1..n + 1
  <2>1. CASE i \in 1..n
    BY <2>1, <1>1, <1>2, <1>3 DEF Placed
  <2>2. CASE i = n + 1
    BY <2>2, <1>2, <1>3, <1>4
  <2>3. QED  BY <2>1, <2>2, <1>1
<1>7. \A q \in Procs : pc'[q] \notin Outside => \E i \in 1..n + 1 : queue'[i] = q
  <2> TAKE q \in Procs
  <2>1. CASE q = p
    BY <2>1, <1>1, <1>2
  <2>2. CASE q # p
    <3> HAVE pc'[q] \notin Outside
    <3>1. PICK i \in 1..n : queue[i] = q
      BY <2>2, <1>3 DEF Placed
    <3>2. i \in 1..n + 1 /\ queue'[i] = q
      BY <3>1, <1>1, <1>2
    <3>3. QED  BY <3>2
  <2>3. QED  BY <2>1, <2>2
<1>8. \A q \in Procs : pc'[q] \in Inside => queue' # <<>> /\ queue'[1] = q
  <2> TAKE q \in Procs
  <2> HAVE pc'[q] \in Inside
  <2>1. q # p /\ pc[q] \in Inside
    BY <1>3, <1>4
  <2>2. queue # <<>> /\ queue[1] = q
    BY <2>1 DEF Placed
  <2>3. 1 \in 1..n
    BY <2>2, <1>1
  <2>4. queue'[1] = q /\ Len(queue') # 0
    BY <2>2, <2>3, <1>1, <1>2
  <2>5. QED  BY <2>4
<1>9. QED  BY <1>2, <1>3, <1>5, <1>6, <1>7, <1>8 DEF Placed

\* The holder stays inside, or waits at the head.
LEMMA StayPlaced ==
    ASSUME Placed(queue, pc), NEW p \in Procs, Holds(p),
           NEW at \in Inside \cup Waiting, Stay(p, at)
    PROVE  Placed(queue', pc')
<1>1. /\ queue' = queue
      /\ pc' \in [Procs -> States] /\ pc'[p] = at
      /\ \A q \in Procs \ {p} : pc'[q] = pc[q]
  BY DEF Stay, Placed, States
<1>2. at \notin Outside /\ pc[p] \notin Outside
  BY StatesApart, HeadOfQueue
<1>3. queue # <<>> /\ queue[1] = p
  BY HeadOfQueue DEF Holds
<1>4. \A i \in 1..Len(queue) : queue[i] \in Procs
  BY DEF Placed
<1>5. \A q \in Procs : pc'[q] \in Outside <=> pc[q] \in Outside
  BY <1>1, <1>2
<1>6. QED  BY <1>1, <1>3, <1>4, <1>5 DEF Placed

\* The queue without the process at place i.
LEMMA Removed ==
    ASSUME Placed(queue, pc), NEW i \in 1..Len(queue)
    PROVE  LET n == Len(queue)
               r == RemoveAt(queue, i)
           IN  /\ r \in Seq(Procs) /\ n \in Nat /\ Len(r) = n - 1
               /\ \A j \in 1..n - 1 : r[j] = queue[IF j < i THEN j ELSE j + 1]
<1> DEFINE n == Len(queue)
           a == SubSeq(queue, 1, i - 1)
           b == SubSeq(queue, i + 1, n)
<1>1. queue \in Seq(Procs) /\ n \in Nat
  BY DEF Placed
<1>2. /\ a \in Seq(Procs) /\ Len(a) = i - 1
      /\ \A j \in 1..i - 1 : a[j] = queue[j]
  BY <1>1, SubSeqProperties
<1>3. /\ b \in Seq(Procs) /\ Len(b) = n - i
      /\ \A j \in 1..n - i : b[j] = queue[i + j]
  BY <1>1, SubSeqProperties
<1> HIDE DEF a, b
<1>4. /\ a \o b \in Seq(Procs) /\ Len(a \o b) = n - 1
      /\ \A j \in 1..n - 1 : (a \o b)[j] = IF j <= i - 1 THEN a[j] ELSE b[j - (i - 1)]
  <2>1. /\ a \o b \in Seq(Procs) /\ Len(a \o b) = Len(a) + Len(b)
        /\ \A j \in 1..Len(a) + Len(b) :
              (a \o b)[j] = IF j <= Len(a) THEN a[j] ELSE b[j - Len(a)]
    BY <1>2, <1>3, ConcatProperties
  <2>2. Len(a) = i - 1 /\ Len(a) + Len(b) = n - 1
    BY <1>1, <1>2, <1>3
  <2>3. QED  BY <2>1, <2>2
<1>5. \A j \in 1..n - 1 : (a \o b)[j] = queue[IF j < i THEN j ELSE j + 1]
  BY <1>1, <1>2, <1>3, <1>4
<1>6. RemoveAt(queue, i) = a \o b
  BY DEF RemoveAt, a, b
<1>7. QED  BY <1>1, <1>4, <1>5, <1>6

\* A process leaves its place: the others keep theirs, in the same order.
LEMMA LeftPlaced ==
    ASSUME Placed(queue, pc), NEW i \in 1..Len(queue), NEW p \in Procs,
           queue[i] = p, NEW at \in Outside,
           queue' = RemoveAt(queue, i), pc' = [pc EXCEPT ![p] = at]
    PROVE  Placed(queue', pc')
<1> DEFINE n == Len(queue)
           from(j) == IF j < i THEN j ELSE j + 1
<1>1. /\ queue \in Seq(Procs) /\ n \in Nat
      /\ \A j \in 1..n : queue[j] \in Procs
      /\ \A j \in 1..n : queue[j] = p => j = i
  BY DEF Placed
<1>2. /\ queue' \in Seq(Procs) /\ Len(queue') = n - 1
      /\ \A j \in 1..n - 1 : from(j) \in 1..n /\ from(j) # i /\ queue'[j] = queue[from(j)]
  <2>1. /\ queue' \in Seq(Procs) /\ Len(queue') = n - 1
        /\ \A j \in 1..n - 1 : queue'[j] = queue[from(j)]
    BY Removed
  <2>2. \A j \in 1..n - 1 : from(j) \in 1..n /\ from(j) # i
    BY <1>1
  <2>3. QED  BY <2>1, <2>2
<1>3. /\ pc' \in [Procs -> States] /\ pc'[p] = at
      /\ \A q \in Procs \ {p} : pc'[q] = pc[q]
  BY DEF Placed, States
<1>4. \A j, k \in 1..n - 1 : queue'[j] = queue'[k] => j = k
  <2> SUFFICES ASSUME NEW j \in 1..n - 1, NEW k \in 1..n - 1, queue'[j] = queue'[k]
               PROVE  j = k
    OBVIOUS
  <2>1. \A a, b \in 1..n : queue[a] = queue[b] => a = b
    BY DEF Placed
  <2>2. /\ from(j) \in 1..n /\ from(k) \in 1..n
        /\ queue[from(j)] = queue[from(k)]
    BY <1>2
  <2>3. from(j) = from(k)
    <3> HIDE DEF from
    <3> QED
      BY <2>1, <2>2
  <2>4. QED  BY <2>3, <1>1
<1>5. \A j \in 1..n - 1 : pc'[queue'[j]] \notin Outside
  <2> TAKE j \in 1..n - 1
  <2>1. from(j) \in 1..n /\ from(j) # i /\ queue'[j] = queue[from(j)]
    BY <1>2
  <2> HIDE DEF from
  <2>2. queue[from(j)] \in Procs \ {p} /\ pc[queue[from(j)]] \notin Outside
    BY <1>1, <2>1 DEF Placed
  <2>3. QED  BY <2>1, <2>2, <1>3
<1>6. \A q \in Procs : pc'[q] \notin Outside => \E j \in 1..n - 1 : queue'[j] = q
  <2> TAKE q \in Procs
  <2> HAVE pc'[q] \notin Outside
  <2>1. q # p /\ pc[q] \notin Outside
    BY <1>3
  <2>2. PICK k \in 1..n : queue[k] = q
    BY <2>1 DEF Placed
  <2>3. k # i
    BY <2>1, <2>2
  <2>4. CASE k < i
    BY <2>2, <2>4, <1>1, <1>2
  <2>5. CASE k > i
    <3>1. k - 1 \in 1..n - 1 /\ from(k - 1) = k
      BY <2>5, <1>1
    <3>2. QED  BY <3>1, <2>2, <1>2
  <2>6. QED  BY <2>3, <2>4, <2>5, <1>1
<1>7. \A q \in Procs : pc'[q] \in Inside => queue' # <<>> /\ queue'[1] = q
  <2> TAKE q \in Procs
  <2> HAVE pc'[q] \in Inside
  <2>1. q # p /\ pc[q] \in Inside
    BY <1>3, StatesApart
  <2>2. queue[1] = q /\ n >= 1
    BY <2>1, <1>1 DEF Placed
  <2>3. i # 1
    BY <2>1, <2>2
  <2>4. 1 \in 1..n - 1 /\ from(1) = 1
    BY <2>3, <1>1
  <2>5. queue'[1] = q /\ Len(queue') # 0
    BY <2>2, <2>4, <1>1, <1>2
  <2>6. QED  BY <2>5
<1>8. QED  BY <1>2, <1>3, <1>4, <1>5, <1>6, <1>7 DEF Placed

LEMMA DropPlaced ==
    ASSUME Placed(queue, pc), NEW p \in Procs, NEW at \in Outside, Drop(p, at)
    PROVE  Placed(queue', pc')
BY LeftPlaced DEF Drop

\* To give up the mutex is to leave the first place.
LEMMA TailRemoves ==
    ASSUME Placed(queue, pc), NEW p, Holds(p)
    PROVE  Tail(queue) = RemoveAt(queue, 1) /\ 1 \in 1..Len(queue)
<1> DEFINE n == Len(queue)
<1>1. queue \in Seq(Procs) /\ n \in Nat /\ n >= 1
  BY HeadOfQueue DEF Placed
<1>2. /\ RemoveAt(queue, 1) \in Seq(Procs) /\ Len(RemoveAt(queue, 1)) = n - 1
      /\ \A j \in 1..n - 1 : RemoveAt(queue, 1)[j] = queue[j + 1]
  BY <1>1, Removed
<1>3. /\ Tail(queue) \in Seq(Procs) /\ Len(Tail(queue)) = n - 1
      /\ \A j \in 1..n - 1 : Tail(queue)[j] = queue[j + 1]
  BY <1>1, HeadTailProperties DEF Holds
<1>4. QED  BY <1>1, <1>2, <1>3, SeqEqual

LEMMA UnlockPlaced ==
    ASSUME Placed(queue, pc), NEW p \in Procs, Holds(p), NEW at \in Outside,
           Unlock(p, at)
    PROVE  Placed(queue', pc')
BY TailRemoves, HeadOfQueue, LeftPlaced DEF Unlock

\* The holder goes behind those who wait already.
LEMMA RequeuePlaced ==
    ASSUME Placed(queue, pc), NEW p \in Procs, Holds(p), NEW at \in Waiting,
           queue' = Append(Tail(queue), p), pc' = [pc EXCEPT ![p] = at]
    PROVE  Placed(queue', pc')
<1> DEFINE n == Len(queue)
<1>1. /\ queue \in Seq(Procs) /\ n \in Nat /\ n >= 1 /\ queue[1] = p
      /\ \A j \in 1..n : queue[j] \in Procs
      /\ \A j \in 2..n : queue[j] # p
  BY HeadOfQueue DEF Placed
<1>2. /\ Tail(queue) \in Seq(Procs) /\ Len(Tail(queue)) = n - 1
      /\ \A j \in 1..n - 1 : Tail(queue)[j] = queue[j + 1]
  BY <1>1, HeadTailProperties DEF Holds
<1>3. /\ queue' \in Seq(Procs) /\ Len(queue') = n
      /\ \A j \in 1..n - 1 : queue'[j] = queue[j + 1]
      /\ queue'[n] = p
  BY <1>1, <1>2, AppendProperties
<1>4. /\ pc' \in [Procs -> States] /\ pc'[p] = at
      /\ \A q \in Procs \ {p} : pc'[q] = pc[q]
  BY DEF Placed, States
<1>5. at \notin Outside /\ at \notin Inside
  BY StatesApart
<1>6. \A j, k \in 1..n : queue'[j] = queue'[k] => j = k
  <2> SUFFICES ASSUME NEW j \in 1..n, NEW k \in 1..n, queue'[j] = queue'[k]
               PROVE  j = k
    OBVIOUS
  <2>1. CASE j \in 1..n - 1 /\ k \in 1..n - 1
    <3>1. queue[j + 1] = queue[k + 1] /\ j + 1 \in 1..n /\ k + 1 \in 1..n
      BY <2>1, <1>1, <1>3
    <3>2. j + 1 = k + 1
      BY <3>1 DEF Placed
    <3>3. QED  BY <3>2
  <2>2. CASE ~(j \in 1..n - 1 /\ k \in 1..n - 1)
    <3>1. (j = n \/ j \in 1..n - 1) /\ (k = n \/ k \in 1..n - 1)
      BY <1>1
    <3>2. \A l \in 1..n - 1 : queue'[l] # p
      <4> TAKE l \in 1..n - 1
      <4>1. queue'[l] = queue[l + 1]
        BY <1>3
      <4>2. l + 1 \in 2..n
        BY <1>1
      <4>3. QED  BY <4>1, <4>2, <1>1
    <3>3. QED  BY <2>2, <3>1, <3>2, <1>3
  <2>3. QED  BY <2>1, <2>2
<1>7. \A j \in 1..n : pc'[queue'[j]] \notin Outside
  <2> TAKE j \in 1..n
  <2>1. CASE j \in 1..n - 1
    <3>1. queue'[j] = queue[j + 1] /\ j + 1 \in 2..n /\ j + 1 \in 1..n
      BY <2>1, <1>1, <1>3
    <3>2. QED  BY <3>1, <1>1, <1>4 DEF Placed
  <2>2. CASE j = n
    BY <2>2, <1>3, <1>4, <1>5
  <2>3. QED  BY <2>1, <2>2, <1>1
<1>8. \A q \in Procs : pc'[q] \notin Outside => \E j \in 1..n : queue'[j] = q
  <2> TAKE q \in Procs
  <2> HAVE pc'[q] \notin Outside
  <2>1. CASE q = p
    <3>1. n \in 1..n /\ queue'[n] = q
      BY <2>1, <1>1, <1>3
    <3>2. QED  BY <3>1
  <2>2. CASE q # p
    <3>1. PICK k \in 1..n : queue[k] = q
      BY <2>2, <1>4 DEF Placed
    <3>2. k # 1
      BY <3>1, <2>2, <1>1
    <3>3. k - 1 \in 1..n - 1 /\ k - 1 \in 1..n /\ queue'[k - 1] = q
      BY <3>1, <3>2, <1>1, <1>3
    <3>4. QED  BY <3>3
  <2>3. QED  BY <2>1, <2>2
<1>9. \A q \in Procs : pc'[q] \notin Inside
  <2> TAKE q \in Procs
  <2>1. CASE q = p
    BY <2>1, <1>4, <1>5
  <2>2. CASE q # p
    BY <2>2, <1>1, <1>4 DEF Placed
  <2>3. QED  BY <2>1, <2>2
<1>10. QED  BY <1>3, <1>4, <1>6, <1>7, <1>8, <1>9 DEF Placed

-----------------------------------------------------------------------------
(* Every step leaves the queue in order *)

LEMMA AnsweredOutside == \A p : Answered(p) \in Outside
BY DEF Answered, Outside

LEMMA PlayPlaced ==
    ASSUME Placed(queue, pc), NEW p \in Procs, PlaySteps(p)
    PROVE  Placed(queue', pc')
<1>1. "played" \in Inside /\ "over" \in Outside /\ "idle" \in Outside
  BY DEF Inside, Outside
<1>2. CASE PlayRegister(p)
  BY <1>1, <1>2, StayPlaced DEF PlayRegister
<1>3. CASE PlayCached(p)
  BY <1>3, UnlockPlaced, AnsweredOutside DEF PlayCached
<1>4. CASE PlayFails(p)
  BY <1>1, <1>4, UnlockPlaced DEF PlayFails
<1>5. CASE PlayStart(p)
  BY <1>5, UnlockPlaced, AnsweredOutside DEF PlayStart
<1>6. QED  BY <1>2, <1>3, <1>4, <1>5 DEF PlaySteps

LEMMA StreamingPlaced ==
    ASSUME Placed(queue, pc), NEW v \in Viewers, Streaming(v)
    PROVE  Placed(queue', pc')
<1>1. /\ {"last", "more", "send", "final"} \subseteq Inside
      /\ {"over", "sleep"} \subseteq Outside /\ "poll" \in Waiting
  BY DEF Inside, Outside, Waiting
<1>2. v \in Procs
  BY DEF Procs
<1>3. CASE Wake(v)
  BY <1>1, <1>2, <1>3, LockPlaced DEF Wake
<1>4. CASE PollStatus(v)
  <2>1. CASE Unlock(v, "over")
    BY <2>1, <1>1, <1>2, <1>4, UnlockPlaced DEF PollStatus
  <2>2. CASE Stay(v, "last")
    BY <2>2, <1>1, <1>2, <1>4, StayPlaced DEF PollStatus
  <2>3. CASE Stay(v, "more")
    BY <2>3, <1>1, <1>2, <1>4, StayPlaced DEF PollStatus
  <2>4. QED  BY <2>1, <2>2, <2>3, <1>4 DEF PollStatus
<1>5. CASE ReadMore(v)
  <2>1. CASE Stay(v, "send")
    BY <2>1, <1>1, <1>2, <1>5, StayPlaced DEF ReadMore
  <2>2. CASE Unlock(v, "sleep")
    BY <2>2, <1>1, <1>2, <1>5, UnlockPlaced DEF ReadMore
  <2>3. QED  BY <2>1, <2>2, <1>5 DEF ReadMore
<1>6. CASE ReadLast(v)
  <2>1. CASE Stay(v, "final")
    BY <2>1, <1>1, <1>2, <1>6, StayPlaced DEF ReadLast
  <2>2. CASE Unlock(v, "over")
    BY <2>2, <1>1, <1>2, <1>6, UnlockPlaced DEF ReadLast
  <2>3. QED  BY <2>1, <2>2, <1>6 DEF ReadLast
<1>7. CASE Send(v)
  <2>1. CASE pc[v] = "send"
    BY <2>1, <1>1, <1>2, <1>7, RequeuePlaced DEF Send
  <2>2. CASE pc[v] # "send"
    BY <2>2, <1>1, <1>2, <1>7, UnlockPlaced DEF Send
  <2>3. QED  BY <2>1, <2>2
<1>8. CASE SendFails(v)
  BY <1>1, <1>2, <1>8, UnlockPlaced DEF SendFails
<1>9. QED  BY <1>3, <1>4, <1>5, <1>6, <1>7, <1>8 DEF Streaming

LEMMA ViewerPlaced ==
    ASSUME Placed(queue, pc), NEW v \in Viewers, Request(v) \/ Receive(v) \/ Leave(v)
    PROVE  Placed(queue', pc')
<1>1. "idle" \in Outside /\ "over" \in Outside /\ "play" \in Waiting
  BY DEF Outside, Waiting
<1>2. v \in Procs
  BY DEF Procs
<1>3. CASE Request(v)
  BY <1>1, <1>2, <1>3, LockPlaced DEF Request
<1>4. CASE Receive(v)
  BY <1>4 DEF Receive
<1>5. CASE Leave(v)
  <2>1. CASE Drop(v, "over")
    BY <2>1, <1>1, <1>2, DropPlaced
  <2>2. CASE UNCHANGED <<queue, pc>>
    BY <2>2
  <2>3. QED  BY <2>1, <2>2, <1>5 DEF Leave
<1>6. QED  BY <1>3, <1>4, <1>5

LEMMA CallerPlaced ==
    ASSUME Placed(queue, pc), NEW r \in Callers, Call(r) \/ Serve(r) \/ GiveUp(r)
    PROVE  Placed(queue', pc')
<1>1. "idle" \in Outside
  BY DEF Outside
<1>2. r \in Procs
  BY DEF Procs
<1>3. CASE Call(r)
  <2>1. PICK c \in Commands : Lock(r, c)
    BY <1>3 DEF Call
  <2>2. c \in Waiting /\ pc[r] \in Outside
    BY <1>1, <1>3, StatesApart DEF Call
  <2>3. QED  BY <2>1, <2>2, <1>2, LockPlaced
<1>4. CASE Serve(r)
  BY <1>1, <1>2, <1>4, UnlockPlaced DEF Serve
<1>5. CASE GiveUp(r)
  BY <1>1, <1>2, <1>5, DropPlaced DEF GiveUp
<1>6. QED  BY <1>3, <1>4, <1>5

LEMMA PlacedStep ==
    ASSUME Placed(queue, pc), [Next]_vars
    PROVE  Placed(queue', pc')
<1>1. CASE \E p \in Procs : PlaySteps(p)
  BY <1>1, PlayPlaced
<1>2. CASE \E v \in Viewers : Request(v) \/ Streaming(v) \/ Receive(v) \/ Leave(v)
  BY <1>2, StreamingPlaced, ViewerPlaced
<1>3. CASE \E r \in Callers : Call(r) \/ Serve(r) \/ GiveUp(r)
  BY <1>3, CallerPlaced
<1>4. CASE Fetch \/ EndTask \/ UNCHANGED vars
  BY <1>4 DEF Fetch, EndTask, vars
<1>5. QED  BY <1>1, <1>2, <1>3, <1>4 DEF Next

LEMMA PlacedInit == Init => Placed(queue, pc)
<1> HAVE Init
<1>1. /\ queue = <<>> /\ Len(queue) = 0 /\ queue \in Seq(Procs)
      /\ pc = [p \in Procs |-> "idle"]
  BY DEF Init
<1>2. "idle" \in Outside /\ "idle" \notin Inside
  BY DEF Outside, Inside
<1>3. QED  BY <1>1, <1>2 DEF Placed, States

\* Nobody is inside the engine without its mutex, and nobody who left or gave
\* up keeps a place in its queue (tokio's Mutex, handler.rs), for any clients.
THEOREM MutexTheorem == Spec => []MutexDiscipline
<1>1. Init => Placed(queue, pc)
  BY PlacedInit
<1>2. Placed(queue, pc) /\ [Next]_vars => Placed(queue, pc)'
  BY PlacedStep
<1>3. Placed(queue, pc) => MutexDiscipline
  <2> SUFFICES ASSUME Placed(queue, pc), NEW p \in Procs
               PROVE  LET places == { i \in 1..Len(queue) : queue[i] = p }
                      IN  /\ pc[p] \in Inside => Holds(p)
                          /\ Cardinality(places) = IF pc[p] \in Outside THEN 0 ELSE 1
    BY DEF MutexDiscipline
  <2> DEFINE places == { i \in 1..Len(queue) : queue[i] = p }
  <2>1. pc[p] \in Inside => Holds(p)
    BY DEF Placed, Holds
  <2>2. CASE pc[p] \in Outside
    <3>1. places = {}
      BY <2>2 DEF Placed
    <3>2. QED  BY <2>1, <2>2, <3>1, FS_EmptySet
  <2>3. CASE pc[p] \notin Outside
    <3>1. PICK i \in 1..Len(queue) : queue[i] = p
      BY <2>3 DEF Placed
    <3>2. places = {i}
      BY <3>1 DEF Placed
    <3>3. QED  BY <2>1, <2>3, <3>2, FS_Singleton
  <2>4. QED  BY <2>2, <2>3
<1>4. QED  BY <1>1, <1>2, <1>3, PTL DEF Spec

-----------------------------------------------------------------------------
(* Types *)

StreamTyped ==
    /\ stream \in [reg: BOOLEAN, ms: MediaStreams, avail: 0..Size,
                   over: BOOLEAN, kind: Kinds]
    /\ plays \in Nat

ClientsTyped ==
    /\ asked \in [Viewers -> Nat] /\ pos \in [Viewers -> Nat]
    /\ open \in [Viewers -> BOOLEAN]
    /\ body \in [Viewers -> Seq(Nat)] /\ taken \in [Viewers -> Nat]
    /\ \A v \in Viewers : Len(body[v]) - taken[v] \in 0..ChanCap

LEMMA MediaStreamsKept ==
    ASSUME NEW m \in MediaStreams
    PROVE  /\ NewStream \in MediaStreams /\ PlayStream(m) \in MediaStreams
           /\ PauseStream(m) \in MediaStreams /\ ResumeStream(m) \in MediaStreams
           /\ SeekStream(m) \in MediaStreams /\ EndStream(m) \in MediaStreams
           /\ UpdatePosition(m) \in MediaStreams
BY DEF MediaStreams, StreamState, NewStream, PlayStream, PauseStream, ResumeStream,
       SeekStream, EndStream, UpdatePosition

StreamTypes ==
    [reg: BOOLEAN, ms: MediaStreams, avail: 0..Size, over: BOOLEAN, kind: Kinds]

LEMMA StreamTypesKept ==
    ASSUME NEW s \in StreamTypes
    PROVE  /\ NoStream(s.kind) \in StreamTypes /\ Downloading(s.kind) \in StreamTypes
           /\ FromCache(s.kind) \in StreamTypes
           /\ \A m \in MediaStreams : [s EXCEPT !.ms = m] \in StreamTypes
           /\ \A m \in MediaStreams : [s EXCEPT !.ms = m, !.over = TRUE] \in StreamTypes
           /\ \A m \in MediaStreams, a \in 0..Size :
                 [s EXCEPT !.avail = a, !.ms = m] \in StreamTypes
<1>1. NewStream \in MediaStreams /\ 0 \in 0..Size
  BY SourceAssumption DEF MediaStreams, StreamState, NewStream
<1>2. QED  BY <1>1 DEF StreamTypes, Stream, NoStream, Downloading, FromCache

LEMMA StreamStep ==
    ASSUME StreamTyped, [Next]_vars
    PROVE  StreamTyped'
<1>1. stream \in StreamTypes /\ stream.ms \in MediaStreams /\ plays \in Nat
  BY DEF StreamTyped, StreamTypes
<1>2. SUFFICES stream' \in StreamTypes /\ plays' \in Nat
  BY DEF StreamTyped, StreamTypes
<1>3. ASSUME NEW p \in Procs, PlaySteps(p)
      PROVE  stream' \in StreamTypes /\ plays' \in Nat
  <2>1. CASE PlayRegister(p)
    <3>1. stream' = Downloading(stream.kind) /\ plays' = plays + 1
      BY <2>1 DEF PlayRegister
    <3>2. Downloading(stream.kind) \in StreamTypes
      BY <1>1, StreamTypesKept
    <3>3. plays + 1 \in Nat
      BY <1>1
    <3>4. QED  BY <3>1, <3>2, <3>3
  <2>2. CASE PlayCached(p)
    <3>1. stream' = FromCache(stream.kind) /\ plays' = plays + 1
      BY <2>2 DEF PlayCached
    <3>2. FromCache(stream.kind) \in StreamTypes
      BY <1>1, StreamTypesKept
    <3>3. plays + 1 \in Nat
      BY <1>1
    <3>4. QED  BY <3>1, <3>2, <3>3
  <2>3. CASE PlayFails(p)
    BY <1>1, <2>3 DEF PlayFails
  <2>4. CASE PlayStart(p)
    <3>1. PlayStream(stream.ms) \in MediaStreams
      BY <1>1, MediaStreamsKept
    <3>2. QED  BY <1>1, <2>4, <3>1, StreamTypesKept DEF PlayStart
  <2>5. QED  BY <1>3, <2>1, <2>2, <2>3, <2>4 DEF PlaySteps
<1>4. ASSUME NEW v \in Viewers, Request(v) \/ Streaming(v) \/ Receive(v) \/ Leave(v)
      PROVE  stream' \in StreamTypes /\ plays' \in Nat
  BY <1>1, <1>4 DEF Request, Streaming, Receive, Leave, Wake, PollStatus, ReadMore,
                    ReadLast, Send, SendFails
<1>5. ASSUME NEW r \in Callers, Call(r) \/ Serve(r) \/ GiveUp(r)
      PROVE  stream' \in StreamTypes /\ plays' \in Nat
  <2>1. CASE Serve(r)
    <3>1. pc[r] \in Commands \ {"play"} /\ stream' = Commanded(stream, pc[r])
      BY <2>1 DEF Serve
    <3>2. /\ PauseStream(stream.ms) \in MediaStreams
          /\ ResumeStream(stream.ms) \in MediaStreams
          /\ SeekStream(stream.ms) \in MediaStreams
      BY <1>1, MediaStreamsKept
    <3>3. pc[r] \in {"status", "pause", "resume", "seek", "stop"}
      BY <3>1, ClientsAssumption
    <3>4. \/ stream' = stream \/ stream' = NoStream(stream.kind)
          \/ stream' = [stream EXCEPT !.ms = PauseStream(stream.ms)]
          \/ stream' = [stream EXCEPT !.ms = ResumeStream(stream.ms)]
          \/ stream' = [stream EXCEPT !.ms = SeekStream(stream.ms)]
      BY <1>1, <3>1, <3>3 DEF Commanded, StreamTypes
    <3>5. plays' = plays
      BY <2>1 DEF Serve
    <3>6. QED  BY <1>1, <3>2, <3>4, <3>5, StreamTypesKept
  <2>2. CASE Call(r) \/ GiveUp(r)
    BY <1>1, <2>2 DEF Call, GiveUp
  <2>3. QED  BY <1>5, <2>1, <2>2
<1>6. CASE Fetch
  <2> DEFINE a == IF stream.avail + Piece < Size THEN stream.avail + Piece ELSE Size
             m == IF stream.kind = "file" THEN UpdatePosition(stream.ms) ELSE stream.ms
  <2>1. a \in 0..Size
    BY <1>1, SourceAssumption DEF StreamTypes
  <2>2. m \in MediaStreams
    BY <1>1, MediaStreamsKept
  <2>3. stream' = [stream EXCEPT !.avail = a, !.ms = m] /\ plays' = plays
    BY <1>6 DEF Fetch
  <2> HIDE DEF a, m
  <2>4. QED  BY <1>1, <2>1, <2>2, <2>3, StreamTypesKept
<1>7. CASE EndTask
  <2>1. EndStream(stream.ms) \in MediaStreams
    BY <1>1, MediaStreamsKept
  <2>2. stream' = [stream EXCEPT !.ms = EndStream(stream.ms), !.over = TRUE] /\ plays' = plays
    BY <1>7 DEF EndTask
  <2>3. QED  BY <1>1, <2>1, <2>2, StreamTypesKept
<1>8. CASE UNCHANGED vars
  BY <1>1, <1>8 DEF vars
<1>9. QED  BY <1>3, <1>4, <1>5, <1>6, <1>7, <1>8 DEF Next

LEMMA StartsInFile == \A h \in Headers : RangeStart(h) \in Nat
BY HeadersAssumption, SourceAssumption DEF RangeStart, Absent

LEMMA SendTyped ==
    ASSUME ClientsTyped, NEW v \in Viewers, Send(v),
           pc[v] = "send" => pos[v] - Chunk \in Nat
    PROVE  ClientsTyped'
<1>1. PICK offset \in Nat : body' = [body EXCEPT ![v] = Append(body[v], offset)]
  BY DEF Send, ClientsTyped
<1>2. /\ body[v] \in Seq(Nat) /\ Len(body[v]) \in Nat
      /\ Append(body[v], offset) \in Seq(Nat)
      /\ Len(Append(body[v], offset)) = Len(body[v]) + 1
  BY AppendProperties DEF ClientsTyped
<1>3. /\ body' \in [Viewers -> Seq(Nat)]
      /\ Len(body'[v]) = Len(body[v]) + 1
      /\ \A w \in Viewers \ {v} : body'[w] = body[w]
  BY <1>1, <1>2 DEF ClientsTyped
<1>4. Len(body'[v]) - taken[v] \in 0..ChanCap
  BY <1>2, <1>3, BodyAssumption DEF Send, Full, ClientsTyped
<1>5. QED  BY <1>3, <1>4 DEF Send, ClientsTyped

LEMMA ReceiveTyped ==
    ASSUME ClientsTyped, NEW v \in Viewers, Receive(v)
    PROVE  ClientsTyped'
<1>1. body[v] \in Seq(Nat) /\ Len(body[v]) \in Nat /\ taken[v] \in Nat
  BY DEF ClientsTyped
<1>2. /\ taken' \in [Viewers -> Nat] /\ taken'[v] = taken[v] + 1
      /\ \A w \in Viewers \ {v} : taken'[w] = taken[w]
  BY <1>1 DEF Receive, ClientsTyped
<1>3. Len(body[v]) - taken'[v] \in 0..ChanCap
  BY <1>1, <1>2, BodyAssumption DEF Receive, ClientsTyped
<1>4. QED  BY <1>2, <1>3 DEF Receive, ClientsTyped

LEMMA StreamingTyped ==
    ASSUME ClientsTyped, NEW v \in Viewers, Streaming(v),
           pc[v] = "send" => pos[v] - Chunk \in Nat
    PROVE  ClientsTyped'
<1>1. CASE Send(v)
  BY <1>1, SendTyped
<1>2. CASE ReadMore(v)
  <2>1. pos[v] + Chunk \in Nat
    BY BodyAssumption DEF ClientsTyped
  <2>2. pos' \in [Viewers -> Nat]
    BY <1>2, <2>1 DEF ReadMore, ClientsTyped
  <2>3. QED  BY <1>2, <2>2 DEF ReadMore, ClientsTyped
<1>3. CASE Wake(v) \/ PollStatus(v) \/ ReadLast(v) \/ SendFails(v)
  BY <1>3 DEF Wake, PollStatus, ReadLast, SendFails, ClientsTyped, clients
<1>4. QED  BY <1>1, <1>2, <1>3 DEF Streaming

\* A chunk that is on its way was read behind the start of the body.
SendsWhatWasRead ==
    \A v \in Viewers : pc[v] = "send" => pos[v] - Chunk \in Nat

LEMMA ClientsStep ==
    ASSUME ClientsTyped, SendsWhatWasRead, [Next]_vars
    PROVE  ClientsTyped'
<1>1. CASE \E v \in Viewers : Streaming(v)
  BY <1>1, StreamingTyped DEF SendsWhatWasRead
<1>2. CASE \E v \in Viewers : Receive(v)
  BY <1>2, ReceiveTyped
<1>3. ASSUME NEW v \in Viewers, Request(v)
      PROVE  ClientsTyped'
  <2>1. PICK h \in Headers : /\ asked' = [asked EXCEPT ![v] = RangeStart(h)]
                             /\ pos' = [pos EXCEPT ![v] = RangeStart(h)]
    BY <1>3 DEF Request
  <2>2. RangeStart(h) \in Nat
    BY StartsInFile
  <2>3. asked' \in [Viewers -> Nat] /\ pos' \in [Viewers -> Nat]
    BY <2>1, <2>2 DEF ClientsTyped
  <2>4. QED  BY <1>3, <2>3 DEF Request, ClientsTyped
<1>4. CASE \E v \in Viewers : Leave(v)
  BY <1>4 DEF Leave, ClientsTyped
<1>5. CASE \/ \E p \in Procs : PlaySteps(p)
           \/ \E r \in Callers : Call(r) \/ Serve(r) \/ GiveUp(r)
           \/ Fetch \/ EndTask \/ UNCHANGED vars
  <2>1. UNCHANGED clients
    BY <1>5 DEF PlaySteps, PlayRegister, PlayCached, PlayFails, PlayStart, Call, Serve,
                GiveUp, Fetch, EndTask, vars, clients
  <2>2. QED  BY <2>1 DEF clients, ClientsTyped
<1>6. QED  BY <1>1, <1>2, <1>3, <1>4, <1>5 DEF Next

-----------------------------------------------------------------------------
(* The bodies *)

\* The chunks sent so far follow each other, and the position is where the
\* next one goes on.
Ordered(v) ==
    /\ \A i \in 1..Len(body[v]) : body[v][i] = asked[v] + (i - 1) * Chunk
    /\ pc[v] = "idle" => body[v] = <<>>
    /\ pc[v] \notin {"idle", "over", "send"} => pos[v] = asked[v] + Len(body[v]) * Chunk
    /\ pc[v] = "send" => pos[v] = asked[v] + Len(body[v]) * Chunk + Chunk

BodiesOrdered == \A v \in Viewers : Ordered(v)

\* A step that only moves the process of a viewer on.
LEMMA MoveOrdered ==
    ASSUME NEW v \in Viewers, Ordered(v),
           asked'[v] = asked[v], pos'[v] = pos[v], body'[v] = body[v],
           \/ pc'[v] = pc[v] \/ pc'[v] = "over"
           \/ pc[v] \notin {"idle", "over", "send"} /\ pc'[v] \notin {"idle", "send"}
    PROVE  Ordered(v)'
BY DEF Ordered

\* The step of another process.
LEMMA OthersOrdered ==
    ASSUME NEW v \in Viewers, NEW w \in Viewers \ {v}, Ordered(w),
           asked'[w] = asked[w], pos'[w] = pos[w], body'[w] = body[w],
           pc'[w] = pc[w]
    PROVE  Ordered(w)'
BY MoveOrdered

LEMMA ProductNat == ASSUME NEW m \in Nat, NEW n \in Nat PROVE m * n \in Nat
OBVIOUS

LEMMA SendOrdered ==
    ASSUME ClientsTyped, NEW v \in Viewers, Ordered(v), Send(v), v \in Procs,
           pc \in [Procs -> States]
    PROVE  Ordered(v)'
<1> DEFINE n == Len(body[v])
           next == asked[v] + n * Chunk
<1>1. /\ n \in Nat /\ body[v] \in Seq(Nat) /\ asked[v] \in Nat /\ Chunk \in Nat
      /\ n * Chunk \in Nat /\ next \in Nat
  <2>1. body[v] \in Seq(Nat) /\ n \in Nat /\ asked[v] \in Nat /\ Chunk \in Nat
    BY BodyAssumption DEF ClientsTyped
  <2>2. n * Chunk \in Nat
    BY <2>1, ProductNat
  <2>3. QED  BY <2>1, <2>2
<1>2. (n + 1) * Chunk = n * Chunk + Chunk /\ ((n + 1) - 1) * Chunk = n * Chunk
  BY <1>1
<1>3. /\ body' = [body EXCEPT ![v] = Append(body[v], next)]
      /\ pc'[v] \in {"poll", "over"}
      /\ pc'[v] = "poll" => pos[v] = next + Chunk
      /\ asked' = asked /\ pos' = pos
  <2>1. CASE pc[v] = "send"
    <3>1. pos[v] = next + Chunk
      BY <2>1 DEF Ordered
    <3>2. pos[v] - Chunk = next
      BY <3>1, <1>1
    <3>3. QED  BY <2>1, <3>1, <3>2 DEF Send
  <2>2. CASE pc[v] = "final"
    <3>1. pos[v] = next
      BY <2>2 DEF Ordered
    <3>2. QED  BY <2>2, <3>1 DEF Send, Unlock
  <2>3. QED  BY <2>1, <2>2 DEF Send
<1> HIDE DEF next
<1>4. /\ body'[v] = Append(body[v], next)
      /\ Len(body'[v]) = n + 1
      /\ \A i \in 1..n : body'[v][i] = body[v][i]
      /\ body'[v][n + 1] = next
  BY <1>1, <1>3, AppendProperties DEF ClientsTyped
<1>5. \A i \in 1..n + 1 : body'[v][i] = asked[v] + (i - 1) * Chunk
  <2> TAKE i \in 1..n + 1
  <2>1. CASE i \in 1..n
    BY <2>1, <1>4 DEF Ordered
  <2>2. CASE i = n + 1
    BY <2>2, <1>2, <1>4 DEF next
  <2>3. QED  BY <2>1, <2>2, <1>1
<1>6. pc'[v] = "poll" => pos'[v] = asked'[v] + Len(body'[v]) * Chunk
  BY <1>1, <1>2, <1>3, <1>4 DEF next
<1>7. QED  BY <1>3, <1>4, <1>5, <1>6 DEF Ordered

LEMMA ReadMoreOrdered ==
    ASSUME ClientsTyped, NEW v \in Viewers, Ordered(v), ReadMore(v), v \in Procs,
           pc \in [Procs -> States]
    PROVE  Ordered(v)'
<1>1. pc[v] = "more" /\ asked' = asked /\ body' = body
  BY DEF ReadMore
<1>2. CASE Stay(v, "send") /\ pos' = [pos EXCEPT ![v] = @ + Chunk]
  <2>1. pc'[v] = "send" /\ pos'[v] = pos[v] + Chunk
    BY <1>2 DEF Stay, ClientsTyped
  <2>2. pos[v] = asked[v] + Len(body[v]) * Chunk
    BY <1>1 DEF Ordered
  <2>3. QED  BY <1>1, <2>1, <2>2 DEF Ordered
<1>3. CASE Unlock(v, "sleep") /\ UNCHANGED pos
  <2>1. pc'[v] = "sleep"
    BY <1>3 DEF Unlock
  <2>2. QED  BY <1>1, <1>3, <2>1, MoveOrdered
<1>4. QED  BY <1>2, <1>3 DEF ReadMore

LEMMA RequestOrdered ==
    ASSUME ClientsTyped, NEW v \in Viewers, Ordered(v), Request(v), v \in Procs,
           pc \in [Procs -> States]
    PROVE  Ordered(v)'
<1>1. PICK h \in Headers : /\ asked' = [asked EXCEPT ![v] = RangeStart(h)]
                           /\ pos' = [pos EXCEPT ![v] = RangeStart(h)]
  BY DEF Request
<1>2. /\ asked'[v] = RangeStart(h) /\ pos'[v] = RangeStart(h) /\ RangeStart(h) \in Nat
      /\ body'[v] = <<>> /\ Len(body'[v]) = 0
      /\ pc'[v] = "play"
  BY <1>1, StartsInFile DEF Request, Lock, Ordered, ClientsTyped
<1>3. 0 * Chunk = 0
  BY BodyAssumption
<1>4. QED  BY <1>2, <1>3 DEF Ordered

\* What a step of process p does to the places of the others: nothing.
LEMMA OthersStay ==
    ASSUME pc \in [Procs -> States], NEW p \in Procs,
           \/ PlaySteps(p)
           \/ p \in Viewers /\ (Request(p) \/ Streaming(p) \/ Receive(p) \/ Leave(p))
           \/ p \in Callers /\ (Call(p) \/ Serve(p) \/ GiveUp(p))
    PROVE  \A q \in Procs \ {p} : pc'[q] = pc[q]
BY DEF PlaySteps, PlayRegister, PlayCached, PlayFails, PlayStart, Request, Streaming,
       Receive, Leave, Call, Serve, GiveUp, Wake, PollStatus, ReadMore, ReadLast, Send,
       SendFails, Lock, Unlock, Stay, Drop, States

\* A play moves its viewer on to the streaming task, or ends it.
LEMMA PlayMoves ==
    ASSUME pc \in [Procs -> States], NEW p \in Procs, PlaySteps(p)
    PROVE  /\ pc[p] \in {"play", "played"} /\ UNCHANGED clients
           /\ p \in Viewers => pc'[p] \in {"played", "sleep", "over"}
BY DEF PlaySteps, PlayRegister, PlayCached, PlayFails, PlayStart, Stay, Unlock, Answered,
       States

LEMMA ViewerOrdered ==
    ASSUME ClientsTyped, NEW v \in Viewers, Ordered(v), pc \in [Procs -> States],
           \/ PlaySteps(v) \/ Request(v) \/ Streaming(v) \/ Receive(v) \/ Leave(v)
    PROVE  Ordered(v)'
<1>1. v \in Procs
  BY DEF Procs
<1>2. CASE PlaySteps(v)
  BY <1>1, <1>2, PlayMoves, MoveOrdered DEF clients
<1>3. CASE Request(v)
  BY <1>1, <1>3, RequestOrdered
<1>4. CASE Send(v)
  BY <1>1, <1>4, SendOrdered
<1>5. CASE ReadMore(v)
  BY <1>1, <1>5, ReadMoreOrdered
<1>6. CASE Wake(v) \/ PollStatus(v) \/ ReadLast(v) \/ SendFails(v)
  <2>1. /\ pc[v] \notin {"idle", "over"}
        /\ pc[v] = "send" => pc'[v] = "over"
        /\ pc'[v] \notin {"idle", "send"}
        /\ asked' = asked /\ pos' = pos /\ body' = body
    BY <1>1, <1>6 DEF Wake, PollStatus, ReadLast, SendFails, Lock, Unlock, Stay, clients
  <2>2. QED  BY <2>1, MoveOrdered
<1>7. CASE Receive(v)
  BY <1>7, MoveOrdered DEF Receive
<1>8. CASE Leave(v)
  <2>1. pc'[v] = pc[v] \/ pc'[v] = "over"
    BY <1>1, <1>8 DEF Leave, Drop
  <2>2. QED  BY <2>1, <1>8, MoveOrdered DEF Leave
<1>9. QED
  BY <1>2, <1>3, <1>4, <1>5, <1>6, <1>7, <1>8 DEF Streaming

LEMMA BodiesStep ==
    ASSUME ClientsTyped, Placed(queue, pc), BodiesOrdered, [Next]_vars
    PROVE  BodiesOrdered'
<1>1. /\ pc \in [Procs -> States] /\ Viewers \subseteq Procs
      /\ \A v \in Viewers : v \notin Callers
  BY ClientsAssumption DEF Placed, Procs
<1>2. ASSUME NEW v \in Viewers,
             \/ PlaySteps(v) \/ Request(v) \/ Streaming(v) \/ Receive(v) \/ Leave(v)
      PROVE  BodiesOrdered'
  <2>1. Ordered(v)'
    BY <1>1, <1>2, ViewerOrdered DEF BodiesOrdered
  <2>2. ASSUME NEW w \in Viewers \ {v}
        PROVE  Ordered(w)'
    <3>1. pc'[w] = pc[w]
      BY <1>1, <1>2, OthersStay
    <3>2. asked'[w] = asked[w] /\ pos'[w] = pos[w] /\ body'[w] = body[w]
      BY <1>1, <1>2, PlayMoves DEF Request, Streaming, Receive, Leave, Wake, PollStatus,
         ReadMore, ReadLast, Send, SendFails, clients, ClientsTyped
    <3>3. QED  BY <3>1, <3>2, OthersOrdered DEF BodiesOrdered
  <2>3. QED  BY <2>1, <2>2 DEF BodiesOrdered
<1>3. ASSUME NEW r \in Callers, PlaySteps(r) \/ Call(r) \/ Serve(r) \/ GiveUp(r)
      PROVE  BodiesOrdered'
  <2>1. r \in Procs /\ \A w \in Viewers : w \in Procs \ {r}
    BY <1>1 DEF Procs
  <2>2. UNCHANGED clients
    BY <1>1, <1>3, <2>1, PlayMoves DEF Call, Serve, GiveUp
  <2>3. \A w \in Viewers : pc'[w] = pc[w]
    BY <1>1, <1>3, <2>1, OthersStay
  <2>4. QED  BY <2>2, <2>3, MoveOrdered DEF clients, BodiesOrdered
<1>4. CASE Fetch \/ EndTask \/ UNCHANGED vars
  <2>1. UNCHANGED <<pc, asked, pos, body>>
    BY <1>4 DEF Fetch, EndTask, vars, clients
  <2>2. QED  BY <2>1, MoveOrdered DEF BodiesOrdered
<1>5. QED
  BY <1>2, <1>3, <1>4 DEF Next, Procs

LEMMA OrderedSends ==
    ASSUME ClientsTyped, BodiesOrdered
    PROVE  SendsWhatWasRead
<1> SUFFICES ASSUME NEW v \in Viewers, pc[v] = "send"
             PROVE  pos[v] - Chunk \in Nat
  BY DEF SendsWhatWasRead
<1>1. /\ body[v] \in Seq(Nat) /\ Len(body[v]) \in Nat /\ asked[v] \in Nat
      /\ Chunk \in Nat
  BY BodyAssumption DEF ClientsTyped
<1>2. Len(body[v]) * Chunk \in Nat
  BY <1>1, ProductNat
<1>3. pos[v] = asked[v] + Len(body[v]) * Chunk + Chunk
  BY DEF BodiesOrdered, Ordered
<1>4. \A a, b, c \in Nat : (a + b + c) - c \in Nat
  OBVIOUS
<1>5. (asked[v] + Len(body[v]) * Chunk + Chunk) - Chunk \in Nat
  BY <1>1, <1>2, <1>4
<1>6. QED  BY <1>3, <1>5

\* The inductive invariant of what the viewers get.
Served ==
    /\ Placed(queue, pc)
    /\ StreamTyped
    /\ ClientsTyped
    /\ BodiesOrdered

LEMMA ServedInit == Init => Served
<1> HAVE Init
<1>1. Placed(queue, pc)
  BY PlacedInit
<1>2. StreamTyped
  BY SourceAssumption DEF Init, NoStream, Stream, NewStream, StreamTyped, MediaStreams,
     StreamState
<1>3. ClientsTyped
  <2>1. <<>> \in Seq(Nat) /\ Len(<<>>) = 0
    OBVIOUS
  <2>2. QED  BY <2>1, BodyAssumption DEF Init, ClientsTyped
<1>4. BodiesOrdered
  BY DEF Init, BodiesOrdered, Ordered, Procs
<1>5. QED  BY <1>1, <1>2, <1>3, <1>4 DEF Served

LEMMA ServedStep ==
    ASSUME Served, [Next]_vars
    PROVE  Served'
<1>1. Placed(queue, pc)' /\ StreamTyped' /\ BodiesOrdered'
  BY PlacedStep, StreamStep, BodiesStep DEF Served
<1>2. ClientsTyped'
  BY OrderedSends, ClientsStep DEF Served
<1>3. QED  BY <1>1, <1>2 DEF Served

\* The handlers' state has its types, and no channel holds more than its
\* capacity, for any clients, sizes, headers and bounds.
THEOREM TypeTheorem == Spec => []TypeOK
<1>1. Served /\ [Next]_vars => Served'
  BY ServedStep
<1>2. Served => TypeOK
  BY DEF Served, Placed, StreamTyped, ClientsTyped, TypeOK, States
<1>3. QED  BY ServedInit, <1>1, <1>2, PTL DEF Spec

\* The chunks of a body follow each other with no gap and no repetition, from
\* the start of its range (handler.rs), for any chunk size and any replays.
THEOREM BodyTheorem == Spec => []BodyInOrder
<1>1. Served /\ [Next]_vars => Served'
  BY ServedStep
<1>2. Served => BodyInOrder
  BY DEF Served, BodiesOrdered, Ordered, BodyInOrder
<1>3. QED  BY ServedInit, <1>1, <1>2, PTL DEF Spec

-----------------------------------------------------------------------------
(* What a streaming task has learned *)

Trusting == {"more", "send", "last", "final"}

Trusted(v) ==
    /\ pc[v] \in Trusting => stream.reg
    /\ pc[v] \in {"last", "final"} => Ended
    /\ pc[v] = "send"  => pos[v] <= stream.avail
    /\ pc[v] = "final" => pos[v] + Chunk <= stream.avail

\* It is inside, so every other process that steps is not.
LEMMA TrustedMeanwhile ==
    ASSUME Placed(queue, pc), NEW p \in Procs, Holds(p), NEW v \in Viewers, v # p,
           pc'[v] = pc[v]
    PROVE  Trusted(v)'
<1>1. v \in Procs /\ Trusting \subseteq Inside
  BY DEF Procs, Trusting, Inside
<1>2. pc[v] \notin Trusting
  BY <1>1, OnlyHolderInside
<1>3. QED  BY <1>2 DEF Trusted, Trusting

LEMMA DistrustedTrusted ==
    ASSUME NEW v \in Viewers, pc'[v] \notin Trusting
    PROVE  Trusted(v)'
BY DEF Trusted, Trusting

LEMMA TrustedUnchanged ==
    ASSUME NEW v \in Viewers, Trusted(v),
           pc'[v] = pc[v], pos'[v] = pos[v], stream' = stream
    PROVE  Trusted(v)'
BY DEF Trusted, Ended

LEMMA OwnTrusted ==
    ASSUME Served, NEW v \in Viewers, Trusted(v),
           PlaySteps(v) \/ Streaming(v) \/ Request(v) \/ Receive(v) \/ Leave(v)
    PROVE  Trusted(v)'
<1>1. v \in Procs /\ pc \in [Procs -> States]
  BY DEF Procs, Served, Placed
<1>2. CASE PlaySteps(v)
  <2>1. pc'[v] \notin Trusting
    BY <1>1, <1>2, PlayMoves DEF Trusting
  <2>2. QED  BY <2>1, DistrustedTrusted
<1>3. CASE PollStatus(v)
  BY <1>1, <1>3 DEF PollStatus, Unlock, Stay, Trusted, Trusting, Ended
<1>4. CASE ReadMore(v)
  <2>1. CASE Readable(v) /\ Stay(v, "send") /\ pos' = [pos EXCEPT ![v] = @ + Chunk]
    <3>1. pc'[v] = "send" /\ pos'[v] = pos[v] + Chunk /\ stream' = stream
      BY <1>1, <1>4, <2>1 DEF Stay, ReadMore, Served, ClientsTyped
    <3>2. stream.reg /\ pos[v] + Chunk <= stream.avail
      BY <1>4, <2>1 DEF ReadMore, Readable, Trusted, Trusting
    <3>3. QED  BY <3>1, <3>2 DEF Trusted, Trusting
  <2>2. CASE Unlock(v, "sleep")
    <3>1. pc'[v] = "sleep"
      BY <1>1, <2>2 DEF Unlock
    <3>2. QED  BY <3>1, DistrustedTrusted DEF Trusting
  <2>3. QED  BY <1>4, <2>1, <2>2 DEF ReadMore
<1>5. CASE ReadLast(v)
  BY <1>1, <1>5 DEF ReadLast, Unlock, Stay, Readable, Trusted, Trusting, Ended, clients
<1>6. CASE Wake(v) \/ Send(v) \/ SendFails(v) \/ Request(v)
  <2>1. pc'[v] \in {"poll", "over", "play"}
    BY <1>1, <1>6 DEF Wake, Send, SendFails, Request, Lock, Unlock
  <2>2. QED  BY <2>1, DistrustedTrusted DEF Trusting
<1>7. CASE Receive(v)
  BY <1>7, TrustedUnchanged DEF Receive
<1>8. CASE Leave(v)
  <2>1. CASE Drop(v, "over")
    <3>1. pc'[v] = "over"
      BY <1>1, <2>1 DEF Drop
    <3>2. QED  BY <3>1, DistrustedTrusted DEF Trusting
  <2>2. CASE UNCHANGED <<queue, pc>>
    BY <1>8, <2>2, TrustedUnchanged DEF Leave
  <2>3. QED  BY <1>8, <2>1, <2>2 DEF Leave
<1>9. QED
  BY <1>2, <1>3, <1>4, <1>5, <1>6, <1>7, <1>8 DEF Streaming

\* The stream changes under the mutex, or by its own task.
LEMMA HeldOrUntouched ==
    ASSUME NEW p \in Procs,
           \/ PlaySteps(p)
           \/ p \in Viewers /\ (Request(p) \/ Streaming(p) \/ Receive(p) \/ Leave(p))
           \/ p \in Callers /\ (Call(p) \/ Serve(p) \/ GiveUp(p))
    PROVE  Holds(p) \/ stream' = stream
BY DEF PlaySteps, PlayRegister, PlayCached, PlayFails, PlayStart, Request, Streaming,
       Receive, Leave, Call, Serve, GiveUp, Wake, PollStatus, ReadMore, ReadLast, Send,
       SendFails

\* The download task only adds to what is there.
LEMMA FetchTrusted ==
    ASSUME Served, NEW v \in Viewers, Trusted(v), Fetch \/ EndTask
    PROVE  Trusted(v)'
<1>1. /\ stream \in StreamTypes /\ stream.ms \in MediaStreams
      /\ pos[v] \in Nat /\ Chunk \in Nat
  BY BodyAssumption DEF Served, StreamTyped, StreamTypes, ClientsTyped
<1>2. CASE Fetch
  <2> DEFINE a == IF stream.avail + Piece < Size THEN stream.avail + Piece ELSE Size
             m == IF stream.kind = "file" THEN UpdatePosition(stream.ms) ELSE stream.ms
  <2>1. stream.avail \in 0..Size /\ a \in Nat /\ stream.avail <= a
    BY <1>1, SourceAssumption DEF StreamTypes
  <2>2. stream.ms.state = "Ended" => m.state = "Ended"
    BY <1>1 DEF UpdatePosition
  <2>3. /\ stream' = [stream EXCEPT !.avail = a, !.ms = m]
        /\ pc' = pc /\ pos' = pos
    BY <1>2 DEF Fetch, clients
  <2> HIDE DEF a, m
  <2>4. stream'.reg = stream.reg /\ stream'.avail = a /\ stream'.ms = m
    BY <1>1, <2>3 DEF StreamTypes
  <2>5. QED  BY <1>1, <2>1, <2>2, <2>3, <2>4 DEF Trusted, Ended
<1>3. CASE EndTask
  <2>1. /\ stream' = [stream EXCEPT !.ms = EndStream(stream.ms), !.over = TRUE]
        /\ pc' = pc /\ pos' = pos
    BY <1>3 DEF EndTask, clients
  <2>2. EndStream(stream.ms).state = "Ended"
    BY <1>1 DEF EndStream, MediaStreams
  <2>3. /\ stream'.reg = stream.reg /\ stream'.avail = stream.avail
        /\ stream'.ms.state = "Ended"
    BY <1>1, <2>1, <2>2 DEF StreamTypes
  <2>4. QED  BY <2>1, <2>3 DEF Trusted, Ended
<1>4. QED  BY <1>2, <1>3

LEMMA TrustedStep ==
    ASSUME Served, \A v \in Viewers : Trusted(v), [Next]_vars, NEW v \in Viewers
    PROVE  Trusted(v)'
<1>1. /\ Placed(queue, pc) /\ pc \in [Procs -> States] /\ v \in Procs
      /\ v \notin Callers
  BY ClientsAssumption DEF Served, Placed, Procs
<1>2. ASSUME NEW p \in Procs, p # v,
             \/ PlaySteps(p)
             \/ p \in Viewers /\ (Request(p) \/ Streaming(p) \/ Receive(p) \/ Leave(p))
             \/ p \in Callers /\ (Call(p) \/ Serve(p) \/ GiveUp(p))
      PROVE  Trusted(v)'
  <2>1. pc'[v] = pc[v]
    BY <1>1, <1>2, OthersStay
  <2>2. CASE Holds(p)
    BY <1>1, <1>2, <2>1, <2>2, TrustedMeanwhile
  <2>3. CASE stream' = stream
    <3>1. pos'[v] = pos[v]
      BY <1>1, <1>2, PlayMoves DEF Request, Streaming, Receive, Leave, Wake, PollStatus,
         ReadMore, ReadLast, Send, SendFails, Call, Serve, GiveUp, clients, Served,
         ClientsTyped
    <3>2. QED  BY <2>1, <2>3, <3>1, TrustedUnchanged
  <2>4. QED  BY <1>2, <2>2, <2>3, HeldOrUntouched
<1>3. CASE PlaySteps(v) \/ Streaming(v) \/ Request(v) \/ Receive(v) \/ Leave(v)
  BY <1>3, OwnTrusted
<1>4. CASE Fetch \/ EndTask
  BY <1>4, FetchTrusted
<1>5. CASE UNCHANGED vars
  BY <1>5, TrustedUnchanged DEF vars, clients
<1>6. QED
  BY <1>1, <1>2, <1>3, <1>4, <1>5 DEF Next, Procs

\* What a streaming task has learned of the stream still holds when it uses it,
\* some awaits later (handler.rs), for any clients and commands.
THEOREM AnswerTheorem == Spec => []AnswerStillTrue
<1> DEFINE Inv == Served /\ \A v \in Viewers : Trusted(v)
<1>1. Init => Inv
  <2>1. Init => \A v \in Viewers : Trusted(v)
    BY DEF Init, Trusted, Trusting, Procs
  <2>2. QED  BY <2>1, ServedInit
<1>2. Inv /\ [Next]_vars => Inv'
  BY ServedStep, TrustedStep
<1>3. Inv => AnswerStillTrue
  BY DEF Trusted, Trusting, AnswerStillTrue
<1> HIDE DEF Inv
<1>4. QED  BY <1>1, <1>2, <1>3, PTL DEF Spec
=============================================================================
