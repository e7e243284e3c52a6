--------------------------- MODULE DiscoveryProofs ---------------------------
(* Theorems about the discovery of peers. First the nodes of the DHT, for   *)
(* any nodes, ids, tables, hashes, bounds, and any behaviour of the network *)
(* and of the nodes' owners.                                                *)
EXTENDS Discovery, RoutingTableProofs

Codes == {"Ping", "FindNode", "FindPeers", "Announce"}

\* What a node may have sent: it has one of the types, and an announcement
\* carries a token of its sender for its receiver.
Genuine(d) ==
    /\ d.msg.code \in Codes
    /\ d.msg.code = "Announce" =>
          d.msg.kind \in {"Announce", "AnnounceResponse", "PingResponse"}
    /\ d.msg.kind = "Announce" => d.msg.token = Token(d.from, d.to)

\* The message the receive loop of n is busy with comes of such a datagram.
Heard(l, n) ==
    /\ l.at \in {"handle", "announced"} =>
        /\ DOMAIN l = {"at", "from", "sent", "msg"}
        /\ l.msg.kind # "Unreadable" => l.msg.code \in Codes
        /\ l.msg.kind = "Announce" => l.msg.token = Token(l.from, n)
        /\ l.at = "announced" => l.msg.kind = "Announce"
    /\ l.at \in {"refresh", "refreshing"} => DOMAIN l = {"at", "todo"}

TokensOwn ==
    /\ \A d \in dgrams : Genuine(d)
    /\ DOMAIN loop = Nodes
    /\ \A n \in Nodes : Heard(loop[n], n)
    /\ DOMAIN peers = Nodes
    /\ \A n \in Nodes : peers[n] \in [Hashes -> Seq({n} \cup GarbagePeers)]

-----------------------------------------------------------------------------
(* Datagrams *)

\* What goes out is genuine if it was, and if what is added to it is.
LEMMA SendingGenuine ==
    ASSUME TokensOwn, NEW ds, \A d \in ds : Genuine(d)
    PROVE  \A d \in Sending(ds) : Genuine(d)
  BY DEF TokensOwn, Sending

\* Whatever decode makes of a genuine datagram, an announcement has a token of
\* its sender, and peers are garbage.
LEMMA DecodedGenuine ==
    ASSUME NEW d, Genuine(d), NEW m \in Decode(d.msg)
    PROVE  /\ m.kind # "Unreadable" => m.code \in Codes
           /\ m.kind = "Announce" => m.token = Token(d.from, d.to)
           /\ m.kind = "PeersFound" => m.peers \in Seq(GarbagePeers)
<1>1. CASE d.msg.code = "Ping"
  BY <1>1 DEF Decode, Ping, Codes
<1>2. CASE d.msg.code = "FindNode"
  BY <1>2 DEF Decode, FindNode, FindNodeResponse, Codes
<1>3. CASE d.msg.code = "FindPeers"
  <2> DEFINE left == Length(d.msg) - 43
  <2>1. \/ m = FindPeers(d.msg.hash) \/ m = Unreadable
        \/ \E N \in AtMost(GarbageNodes, left \div 26) : m = NodesFound(N)
        \/ \E P \in SeqOf(GarbagePeers, left \div 6) : m = PeersFound(P)
    BY <1>3 DEF Decode, Misread
  <2>2. \A P \in SeqOf(GarbagePeers, left \div 6) : P \in Seq(GarbagePeers)
    <3> HIDE DEF left
    <3> TAKE P \in SeqOf(GarbagePeers, left \div 6)
    <3>1. PICK k \in 0..left \div 6 : P \in [1..k -> GarbagePeers]
      BY DEF SeqOf
    <3> QED
      BY <3>1
  <2> HIDE DEF left
  <2> QED
    BY <2>1, <2>2 DEF FindPeers, Unreadable, NodesFound, PeersFound, Codes
<1>4. CASE d.msg.code = "Announce"
  <2>1. CASE d.msg.kind = "PingResponse"
    <3>1. Length(d.msg) = 20
      BY <2>1 DEF Length
    <3> QED
      BY <1>4, <3>1 DEF Decode, Unreadable
  <2>2. CASE d.msg.kind = "AnnounceResponse"
    <3>1. Length(d.msg) = 21
      BY <2>2 DEF Length
    <3> QED
      BY <1>4, <3>1 DEF Decode, AnnounceResponse, Codes
  <2>3. CASE d.msg.kind = "Announce"
    <3>1. Length(d.msg) = 46
      BY <2>3 DEF Length
    <3>2. m = Announce(d.msg.hash, d.msg.token)
      BY <1>4, <3>1 DEF Decode
    <3> QED
      BY <2>3, <3>2 DEF Announce, Codes, Genuine
  <2> QED
    BY <1>4, <2>1, <2>2, <2>3 DEF Genuine
<1> QED
  BY <1>1, <1>2, <1>3, <1>4 DEF Genuine, Codes

\* Pings and requests of lookups, refreshes and bootstraps are no announcements.
LEMMA RequestsGenuine ==
    ASSUME NEW from, NEW to, NEW x
    PROVE  /\ Genuine(Datagram(from, to, Ping))
           /\ Genuine(Datagram(from, to, FindNode(x)))
           /\ Genuine(Datagram(from, to, FindPeers(x)))
  BY DEF Genuine, Datagram, Ping, FindNode, FindPeers, Codes

\* Nor are answers.
LEMMA AnswersGenuine ==
    ASSUME NEW n \in Nodes, NEW from, NEW to, NEW m, m.code \in Codes,
           m.kind \in {"Ping", "FindNode", "FindPeers", "Announce"}
    PROVE  Genuine(Datagram(from, to, Answer(n, m)))
<1> DEFINE near(id) == Infos(FindClosest(table[n], IdOf[n], id, K))
<1>1. Answer(n, m) \in {PingResponse(m.code), FindNodeResponse(near(m.target)),
                        PeersFound(peers[n][m.hash]), NodesFound(near(m.hash)),
                        AnnounceResponse}
  BY DEF Answer
<1> HIDE DEF near
<1> QED
  BY <1>1 DEF Genuine, Datagram, PingResponse, FindNodeResponse, PeersFound, NodesFound,
              AnnounceResponse, Codes

-----------------------------------------------------------------------------
(* Steps *)

\* A step that stores no peer and leaves the receive loops alone.
LEMMA OthersKeep ==
    ASSUME TokensOwn, UNCHANGED <<peers, loop>>, \A d \in dgrams' : Genuine(d)
    PROVE  TokensOwn'
  BY DEF TokensOwn

\* A step of the receive loop of n that stores no peer.
LEMMA LoopKeeps ==
    ASSUME TokensOwn, NEW n \in Nodes, NEW l, loop' = [loop EXCEPT ![n] = l],
           Heard(l, n), UNCHANGED peers, \A d \in dgrams' : Genuine(d)
    PROVE  TokensOwn'
  BY DEF TokensOwn

\* Loops that are not busy with a message.
LEMMA NotHeard ==
    ASSUME NEW n \in Nodes
    PROVE  /\ Heard(LoopHead(n), n)
           /\ Heard(Over, n)
           /\ \A l : l.at \in {"refresh", "refreshing"} /\ DOMAIN l = {"at", "todo"}
                       => Heard(l, n)
  BY DEF Heard, LoopHead, Idle, Over

\* The loop takes a datagram.
LEMMA ReceiveKeeps ==
    ASSUME TokensOwn, NEW n \in Nodes, Receive(n)
    PROVE  TokensOwn'
<1>1. PICK d \in dgrams :
          /\ d.to = n
          /\ dgrams' = dgrams \ {d}
          /\ \E m \in Decode(d.msg) :
               loop' = [loop EXCEPT ![n] =
                  [at |-> "handle", from |-> d.from, sent |-> d.msg, msg |-> m]]
  BY DEF Receive
<1>2. PICK m \in Decode(d.msg) :
          loop' = [loop EXCEPT ![n] =
             [at |-> "handle", from |-> d.from, sent |-> d.msg, msg |-> m]]
  BY <1>1
<1> DEFINE l == [at |-> "handle", from |-> d.from, sent |-> d.msg, msg |-> m]
<1>3. Genuine(d)
  BY DEF TokensOwn
<1>4. Heard(l, n)
  BY <1>1, <1>3, DecodedGenuine DEF Heard
<1> HIDE DEF l
<1> QED
  BY <1>1, <1>2, <1>4, LoopKeeps DEF Receive, TokensOwn, l

\* An answer, or an accepted announcement's end.
LEMMA HandleRequestKeeps ==
    ASSUME TokensOwn, NEW n \in Nodes, HandleRequest(n)
    PROVE  TokensOwn'
<1> DEFINE m == loop[n].msg
           d == Datagram(n, loop[n].from, Answer(n, m))
<1>1. m.code \in Codes /\ m.kind \in {"Ping", "FindNode", "FindPeers", "Announce"}
  BY DEF HandleRequest, TokensOwn, Heard
<1>2. Genuine(d)
  BY <1>1, AnswersGenuine
<1>3. /\ dgrams' = Sending({d})
      /\ loop' = [loop EXCEPT ![n] = LoopHead(n)]
      /\ UNCHANGED peers
  BY DEF HandleRequest, Reply
<1> HIDE DEF d
<1> QED
  BY <1>2, <1>3, SendingGenuine, NotHeard, LoopKeeps

\* What is stored has a token of this node that its sender made: it is this node.
LEMMA HandleAnnounceKeeps ==
    ASSUME TokensOwn, NEW n \in Nodes, HandleAnnounce(n)
    PROVE  TokensOwn'
<1> DEFINE m == loop[n].msg
           l == [loop[n] EXCEPT !.at = "announced"]
           Own == {n} \cup GarbagePeers
<1>1. loop[n].at = "handle" /\ m.kind = "Announce" /\ m.token = Token(n, loop[n].from)
  BY DEF HandleAnnounce, VerifyToken
<1>2. loop[n].from = n
  <2>1. Token(loop[n].from, n) = Token(n, loop[n].from)
    BY <1>1 DEF TokensOwn, Heard
  <2> QED
    BY <2>1 DEF Token
<1>3. \A list \in Seq(Own) : Stored(list, n) \in Seq(Own)
  BY DEF Stored
<1>4. /\ DOMAIN peers' = Nodes
      /\ \A p \in Nodes : peers'[p] \in [Hashes -> Seq({p} \cup GarbagePeers)]
  <2>1. peers' = [peers EXCEPT ![n][m.hash] = Stored(@, n)]
    BY <1>2 DEF HandleAnnounce
  <2> HIDE DEF m
  <2>2. peers'[n] \in [Hashes -> Seq(Own)]
    BY <1>3, <2>1 DEF TokensOwn
  <2> QED
    BY <2>1, <2>2 DEF TokensOwn
<1>5. Heard(l, n)
  BY <1>1 DEF TokensOwn, Heard
<1>6. loop' = [loop EXCEPT ![n] = l] /\ dgrams' = dgrams
  BY DEF HandleAnnounce
<1> HIDE DEF l
<1> QED
  BY <1>4, <1>5, <1>6 DEF TokensOwn

\* An announcement with a wrong token is reported.
LEMMA RejectKeeps ==
    ASSUME TokensOwn, NEW n \in Nodes, Reject(n)
    PROVE  TokensOwn'
<1> DEFINE m == loop[n].msg
           ds == {Datagram(n, loop[n].from, r) : r \in ErrorResponse(m)}
<1>1. \A d \in ds : Genuine(d)
  <2> SUFFICES ASSUME NEW r \in ErrorResponse(m)
               PROVE  Genuine(Datagram(n, loop[n].from, r))
    OBVIOUS
  <2>1. r = PingResponse(m.code) /\ ~IsResponse(m)
    BY DEF ErrorResponse
  <2>2. m.code \in Codes
    BY <2>1 DEF Reject, TokensOwn, Heard
  <2> QED
    BY <2>1, <2>2 DEF Genuine, Datagram, PingResponse
<1>2. /\ dgrams' = Sending(ds)
      /\ loop' = [loop EXCEPT ![n] = LoopHead(n)]
      /\ UNCHANGED peers
  BY DEF Reject
<1> HIDE DEF ds
<1> QED
  BY <1>1, <1>2, SendingGenuine, NotHeard, LoopKeeps

LEMMA DiscardKeeps ==
    ASSUME TokensOwn, NEW n \in Nodes, Discard(n)
    PROVE  TokensOwn'
<1>1. loop' = [loop EXCEPT ![n] = LoopHead(n)] /\ UNCHANGED <<peers, dgrams>>
  BY DEF Discard
<1> QED
  BY <1>1, NotHeard, LoopKeeps DEF TokensOwn

\* The refresh of the buckets.
LEMMA RefreshKeeps ==
    ASSUME TokensOwn, NEW n \in Nodes,
           BeginRefresh(n) \/ AskRefresh(n) \/ RefreshAnswered(n) \/ EndRefresh(n)
    PROVE  TokensOwn'
<1>1. CASE BeginRefresh(n)
  <2> DEFINE l == [at |-> "refresh", todo |-> IdBits]
  <2>1. Heard(l, n)
    BY NotHeard
  <2>2. loop' = [loop EXCEPT ![n] = l] /\ UNCHANGED <<peers, dgrams>>
    BY <1>1 DEF BeginRefresh
  <2> HIDE DEF l
  <2> QED
    BY <2>1, <2>2, LoopKeeps DEF TokensOwn
<1>2. CASE AskRefresh(n)
  <2>1. CASE loop' = [loop EXCEPT ![n].todo = @ - 1] /\ UNCHANGED dgrams
    <3> DEFINE l == [loop[n] EXCEPT !.todo = loop[n].todo - 1]
    <3>1. l.at = "refresh" /\ DOMAIN l = {"at", "todo"}
      BY <1>2 DEF AskRefresh, TokensOwn, Heard
    <3>2. Heard(l, n)
      BY <3>1, NotHeard
    <3>3. loop' = [loop EXCEPT ![n] = l]
      BY <2>1
    <3> HIDE DEF l
    <3> QED
      BY <1>2, <2>1, <3>2, <3>3, LoopKeeps DEF AskRefresh, TokensOwn
  <2>2. CASE \E target, to :
               /\ dgrams' = Sending({Datagram(n, to, FindNode(target))})
               /\ loop' = [loop EXCEPT ![n].at = "refreshing"]
    <3> DEFINE l == [loop[n] EXCEPT !.at = "refreshing"]
    <3>1. loop[n].at = "refresh" /\ UNCHANGED peers
      BY <1>2 DEF AskRefresh
    <3>2. Heard(l, n)
      BY <3>1, NotHeard DEF TokensOwn, Heard
    <3>3. \A d \in dgrams' : Genuine(d)
      <4>1. PICK target, to :
               dgrams' = Sending({Datagram(n, to, FindNode(target))})
        BY <2>2
      <4> DEFINE d == Datagram(n, to, FindNode(target))
      <4>2. Genuine(d)
        BY RequestsGenuine
      <4> HIDE DEF d
      <4> QED
        BY <4>1, <4>2, SendingGenuine DEF d
    <3>4. loop' = [loop EXCEPT ![n] = l]
      BY <2>2
    <3> HIDE DEF l
    <3> QED
      BY <3>1, <3>2, <3>3, <3>4, LoopKeeps
  <2> QED
    BY <1>2, <2>1, <2>2 DEF AskRefresh
<1>3. CASE RefreshAnswered(n)
  <2> DEFINE l == [at |-> "refresh", todo |-> loop[n].todo - 1]
  <2>1. Heard(l, n)
    BY NotHeard
  <2>2. loop' = [loop EXCEPT ![n] = l] /\ UNCHANGED peers /\ dgrams' \subseteq dgrams
    BY <1>3 DEF RefreshAnswered
  <2> HIDE DEF l
  <2> QED
    BY <2>1, <2>2, LoopKeeps DEF TokensOwn
<1>4. CASE EndRefresh(n)
  <2>1. /\ loop' = [loop EXCEPT ![n] = LoopHead(n)]
        /\ UNCHANGED <<peers, dgrams>>
    BY <1>4 DEF EndRefresh
  <2> QED
    BY <2>1, NotHeard, LoopKeeps DEF TokensOwn
<1> QED
  BY <1>1, <1>2, <1>3, <1>4

LEMMA LoopStepKeeps ==
    ASSUME TokensOwn, NEW n \in Nodes, LoopStep(n)
    PROVE  TokensOwn'
  BY HandleRequestKeeps, HandleAnnounceKeeps, RejectKeeps, DiscardKeeps, RefreshKeeps
     DEF LoopStep

\* The socket fails.
LEMMA LoopFailsKeeps ==
    ASSUME TokensOwn, NEW n \in Nodes, LoopFails(n)
    PROVE  TokensOwn'
<1>1. loop' = [loop EXCEPT ![n] = Over] /\ UNCHANGED <<peers, dgrams>>
  BY DEF LoopFails
<1> QED
  BY <1>1, NotHeard, LoopKeeps DEF TokensOwn

\* An announcement is sent with a token of its sender for its receiver.
LEMMA SendAnnounceKeeps ==
    ASSUME TokensOwn, NEW n \in Nodes, SendAnnounce(n)
    PROVE  TokensOwn'
<1>1. PICK h, e :
         dgrams' = Sending({Datagram(n, e.addr, Announce(h, Token(n, e.addr)))})
  BY DEF SendAnnounce
<1> DEFINE d == Datagram(n, e.addr, Announce(h, Token(n, e.addr)))
<1>2. Genuine(d)
  BY DEF Genuine, Datagram, Announce, Codes
<1> HIDE DEF d
<1>3. \A x \in dgrams' : Genuine(x)
  BY <1>1, <1>2, SendingGenuine DEF d
<1> QED
  BY <1>3, OthersKeep DEF SendAnnounce

-----------------------------------------------------------------------------
(* The lookup *)

LEMMA AskKeeps ==
    ASSUME TokensOwn, NEW n \in Nodes, Ask(n)
    PROVE  TokensOwn'
<1>1. \/ UNCHANGED dgrams
      \/ \E to, x : dgrams' = Sending({Datagram(n, to, FindPeers(x))})
  BY DEF Ask
<1>2. \A d \in dgrams' : Genuine(d)
  <2>1. CASE UNCHANGED dgrams
    BY <2>1 DEF TokensOwn
  <2>2. ASSUME NEW to, NEW x, dgrams' = Sending({Datagram(n, to, FindPeers(x))})
        PROVE  \A d \in dgrams' : Genuine(d)
    <3> DEFINE d == Datagram(n, to, FindPeers(x))
    <3>1. Genuine(d)
      BY RequestsGenuine
    <3> HIDE DEF d
    <3> QED
      BY <2>2, <3>1, SendingGenuine DEF d
  <2> QED
    BY <1>1, <2>1, <2>2
<1> QED
  BY <1>2, OthersKeep DEF Ask

\* Two numbers have a least one.
LEMMA MinOfTwo ==
    ASSUME NEW a \in Int, NEW b \in Int
    PROVE  Min({a, b}) \in {a, b} /\ Min({a, b}) <= a /\ Min({a, b}) <= b
<1>1. \E x \in {a, b} : \A y \in {a, b} : x <= y
  OBVIOUS
<1> QED
  BY <1>1 DEF Min

\* The peers of an answer are stored as far as there is room.
LEMMA FilledWith ==
    ASSUME NEW S, NEW list \in Seq(S), NEW more \in Seq(S)
    PROVE  Filled(list, more) \in Seq(S)
<1> DEFINE room == MaxPeersPerHash - Len(list)
           k == Min({Len(more), room})
<1>1. k \in Int /\ k <= Len(more)
  <2>1. Len(more) \in Int /\ room \in Int
    BY LimitsAssumption
  <2> HIDE DEF room
  <2> QED
    BY <2>1, MinOfTwo
<1> HIDE DEF k
<1>2. \A i \in 1..k : more[i] \in S
  BY <1>1
<1>3. SubSeq(more, 1, k) \in Seq(S)
  BY <1>1, <1>2, SubSeqProperties
<1> QED
  BY <1>3, ConcatProperties DEF Filled, k

LEMMA HearKeeps ==
    ASSUME TokensOwn, NEW n \in Nodes, Hear(n)
    PROVE  TokensOwn'
<1> DEFINE h == lookup[n].hash
           Own == {n} \cup GarbagePeers
<1>1. PICK d \in dgrams :
         \E m \in Decode(d.msg) :
            /\ dgrams' = dgrams \ {d}
            /\ \/ UNCHANGED peers
               \/ /\ m.kind = "PeersFound"
                  /\ peers' = [peers EXCEPT ![n][h] = Filled(@, m.peers)]
  BY DEF Hear
<1> PICK m \in Decode(d.msg) :
         \/ UNCHANGED peers
         \/ /\ m.kind = "PeersFound"
            /\ peers' = [peers EXCEPT ![n][h] = Filled(@, m.peers)]
  BY <1>1
<1>2. CASE UNCHANGED peers
  BY <1>1, <1>2, OthersKeep DEF Hear, TokensOwn
<1>3. CASE /\ m.kind = "PeersFound"
           /\ peers' = [peers EXCEPT ![n][h] = Filled(@, m.peers)]
  <2>1. m.peers \in Seq(GarbagePeers)
    BY <1>3, DecodedGenuine DEF TokensOwn
  <2>2. m.peers \in Seq(Own)
    BY <2>1
  <2>3. \A list \in Seq(Own) : Filled(list, m.peers) \in Seq(Own)
    <3> HIDE DEF Own
    <3> QED
      BY <2>2, FilledWith
  <2> HIDE DEF h
  <2>4. peers'[n] \in [Hashes -> Seq(Own)]
    BY <1>3, <2>3 DEF TokensOwn
  <2>5. /\ DOMAIN peers' = Nodes
        /\ \A p \in Nodes : peers'[p] \in [Hashes -> Seq({p} \cup GarbagePeers)]
    BY <1>3, <2>4 DEF TokensOwn
  <2>6. loop' = loop
    BY DEF Hear
  <2> QED
    BY <1>1, <2>5, <2>6 DEF TokensOwn
<1> QED
  BY <1>1, <1>2, <1>3

LEMMA LookupStepKeeps ==
    ASSUME TokensOwn, NEW n \in Nodes, LookupStep(n)
    PROVE  TokensOwn'
<1>1. CASE BeginLookup(n) \/ ShortList(n) \/ BeginRound(n) \/ HearNothing(n) \/ EndRound(n)
           \/ FinishLookup(n)
  <2>1. UNCHANGED <<peers, loop, dgrams>>
    BY <1>1 DEF BeginLookup, ShortList, BeginRound, HearNothing, EndRound, FinishLookup
  <2> QED
    BY <2>1, OthersKeep DEF TokensOwn
<1> QED
  BY <1>1, AskKeeps, HearKeeps DEF LookupStep

-----------------------------------------------------------------------------
(* The bootstrap *)

LEMMA BootAsksGenuine ==
    ASSUME TokensOwn, NEW n, NEW to, NEW m, Genuine(Datagram(Boot(n), to, m)),
           BootAsks(n, to, m)
    PROVE  \A d \in dgrams' : Genuine(d)
<1> DEFINE d == Datagram(Boot(n), to, m)
<1>1. Genuine(d) /\ dgrams' = Sending({d})
  BY DEF BootAsks
<1> HIDE DEF d
<1> QED
  BY <1>1, SendingGenuine

LEMMA BootStepKeeps ==
    ASSUME TokensOwn, NEW n \in Nodes, BootStep(n)
    PROVE  TokensOwn'
<1>1. UNCHANGED <<peers, loop>>
  BY DEF BootStep, PingSeed, SeedAnswers, EndPings, BootRound, BootAsk, NodeAnswers,
         BootTimesOut
<1>2. \/ dgrams' \subseteq dgrams
      \/ \E to : BootAsks(n, to, Ping)
      \/ \E to, x : BootAsks(n, to, FindNode(x))
  <2>1. CASE PingSeed(n)
    BY <2>1 DEF PingSeed
  <2>2. CASE BootAsk(n)
    BY <2>2 DEF BootAsk
  <2>3. CASE SeedAnswers(n) \/ EndPings(n) \/ BootRound(n) \/ NodeAnswers(n)
             \/ BootTimesOut(n)
    BY <2>3 DEF SeedAnswers, EndPings, BootRound, NodeAnswers, BootTimesOut
  <2> QED
    BY <2>1, <2>2, <2>3 DEF BootStep
<1>3. \A d \in dgrams' : Genuine(d)
  BY <1>2, BootAsksGenuine, RequestsGenuine DEF TokensOwn
<1> QED
  BY <1>1, <1>3, OthersKeep

-----------------------------------------------------------------------------

LEMMA TokensStep == TokensOwn /\ [Next]_vars => TokensOwn'
<1> SUFFICES ASSUME TokensOwn, [Next]_vars
             PROVE  TokensOwn'
  OBVIOUS
<1>1. ASSUME NEW n \in Nodes, NodeTask(n) \/ Serve(n) \/ BeginBoot(n)
      PROVE  TokensOwn'
  <2>1. CASE BeginBoot(n)
    BY <2>1, OthersKeep DEF BeginBoot, TokensOwn
  <2>2. CASE Serve(n)
    BY <2>2, ReceiveKeeps, LoopFailsKeeps, RefreshKeeps DEF Serve
  <2>3. CASE NodeTask(n)
    BY <2>3, LoopStepKeeps, LookupStepKeeps, BootStepKeeps DEF NodeTask
  <2> QED
    BY <1>1, <2>1, <2>2, <2>3
<1>2. ASSUME NEW n, \/ \E m : Introduce(n, m)
                    \/ Elapse(n) \/ Stop(n) \/ AnnounceSelf(n) \/ SearchStep(n)
      PROVE  TokensOwn'
  <2>1. UNCHANGED <<peers, loop, dgrams>>
    BY <1>2 DEF Introduce, Elapse, Stop, AnnounceSelf, SearchStep, BeginSearch, EndSearch,
                dhtVars
  <2> QED
    BY <2>1, OthersKeep DEF TokensOwn
<1>3. ASSUME NEW n \in Announcers, SendAnnounce(n)
      PROVE  TokensOwn'
  BY <1>3, SendAnnounceKeeps, NodesAssumption
<1>4. CASE Lose
  BY <1>4, OthersKeep DEF Lose, TokensOwn
<1>5. CASE UNCHANGED dhtVars
  BY <1>5, OthersKeep DEF dhtVars, TokensOwn
<1>6. \/ \E n \in Nodes : NodeTask(n) \/ Serve(n) \/ BeginBoot(n)
      \/ \E n : \/ \E m : Introduce(n, m)
               \/ Elapse(n) \/ Stop(n) \/ AnnounceSelf(n) \/ SearchStep(n)
      \/ \E n \in Announcers : SendAnnounce(n)
      \/ Lose
      \/ UNCHANGED dhtVars
  <2>1. CASE \E n \in Nodes : DhtOnly(NodeTask(n) \/ Serve(n) \/ BeginBoot(n))
    BY <2>1 DEF DhtOnly
  <2>2. CASE \/ \E n \in Nodes : \E m \in Known[n] : DhtOnly(Introduce(n, m))
             \/ \E n \in Agers : DhtOnly(Elapse(n))
             \/ \E n \in Stoppers : DhtOnly(Stop(n))
             \/ \E n \in Seekers : SearchStep(n)
    BY <2>2 DEF DhtOnly
  <2>3. CASE (\E n \in Announcers : DhtOnly(AnnounceSelf(n) \/ SendAnnounce(n))) \/ DhtOnly(Lose)
    BY <2>3 DEF DhtOnly
  <2>4. CASE \E n \in Seekers : TrackerOnly(TrackerStep(n))
    BY <2>4 DEF TrackerOnly
  <2>5. CASE UNCHANGED vars
    BY <2>5 DEF vars
  <2> QED
    BY <2>1, <2>2, <2>3, <2>4, <2>5 DEF Next
<1> QED
  BY <1>1, <1>2, <1>3, <1>4, <1>5, <1>6

LEMMA TokensAtFirst == Init => TokensOwn
  BY DEF Init, DhtInit, TokensOwn, Heard, Idle

-----------------------------------------------------------------------------
(* The end of a node *)

\* A loop that is busy goes on with it, or comes to its head.
LEMMA BusyGoesOn ==
    ASSUME TokensOwn, NEW n \in Nodes, loop[n].at # "idle",
           NEW p \in Nodes, LoopStep(p) \/ Receive(p) \/ LoopFails(p) \/ BeginRefresh(p)
    PROVE  \/ loop'[n] = loop[n]
           \/ loop'[n] = LoopHead(n)
           \/ loop'[n].at # "idle"
<1>1. CASE p # n
  <2>1. loop'[n] = loop[n]
    BY <1>1 DEF LoopStep, Receive, LoopFails, BeginRefresh, HandleRequest, HandleAnnounce,
                Reject,
                Discard, AskRefresh, RefreshAnswered, EndRefresh, TokensOwn
  <2> QED
    BY <2>1
<1>2. CASE p = n
  <2>1. CASE HandleRequest(n) \/ Reject(n) \/ Discard(n) \/ EndRefresh(n)
    BY <2>1 DEF HandleRequest, Reject, Discard, EndRefresh, TokensOwn
  <2>2. CASE RefreshAnswered(n)
    BY <2>2 DEF RefreshAnswered, TokensOwn
  <2>3. CASE HandleAnnounce(n) \/ AskRefresh(n)
    <3>1. "at" \in DOMAIN loop[n]
      BY <2>3 DEF HandleAnnounce, AskRefresh, TokensOwn, Heard
    <3>2. \/ loop' = [loop EXCEPT ![n].at = "announced"]
          \/ loop' = [loop EXCEPT ![n].todo = @ - 1]
          \/ loop' = [loop EXCEPT ![n].at = "refreshing"]
      BY <2>3 DEF HandleAnnounce, AskRefresh
    <3> QED
      BY <3>1, <3>2 DEF TokensOwn
  <2>4. ~Receive(n) /\ ~LoopFails(n) /\ ~BeginRefresh(n)
    BY DEF Receive, LoopFails, BeginRefresh
  <2> QED
    BY <1>2, <2>1, <2>2, <2>3, <2>4 DEF LoopStep
<1> QED
  BY <1>1, <1>2

\* A node that was stopped while it was busy waits for no other datagram, for
\* any nodes and bounds.
THEOREM StopTheorem == Spec => StopEndsLoop
<1> DEFINE Ends == \A n \in Nodes :
              stopped[n] /\ loop[n].at # "idle" => loop[n].at' # "idle"
<1>1. TokensOwn /\ [Next]_vars => [Ends]_vars
  <2> SUFFICES ASSUME TokensOwn, Next
               PROVE  Ends
    OBVIOUS
  <2> SUFFICES ASSUME NEW n \in Nodes, stopped[n], loop[n].at # "idle"
               PROVE  loop'[n].at # "idle"
    OBVIOUS
  <2>1. ASSUME NEW p \in Nodes, LoopStep(p) \/ Receive(p) \/ LoopFails(p) \/ BeginRefresh(p)
        PROVE  loop'[n].at # "idle"
    <3>1. LoopHead(n).at # "idle"
      BY DEF LoopHead, Over
    <3> QED
      BY <2>1, <3>1, BusyGoesOn
  <2>2. CASE UNCHANGED loop
    BY <2>2
  <2>3. \/ \E p \in Nodes : LoopStep(p) \/ Receive(p) \/ LoopFails(p) \/ BeginRefresh(p)
        \/ UNCHANGED loop
    <3>1. ASSUME NEW p \in Nodes, NodeTask(p) \/ Serve(p) \/ BeginBoot(p)
          PROVE  LoopStep(p) \/ Receive(p) \/ LoopFails(p) \/ BeginRefresh(p) \/ UNCHANGED loop
      <4>1. CASE LookupStep(p)
        BY <4>1 DEF LookupStep, BeginLookup, ShortList, BeginRound, Ask, Hear, HearNothing,
                    EndRound, FinishLookup
      <4>2. CASE BootStep(p)
        BY <4>2 DEF BootStep, PingSeed, SeedAnswers, EndPings, BootRound, BootAsk,
                    NodeAnswers, BootTimesOut
      <4>3. CASE BeginBoot(p)
        BY <4>3 DEF BeginBoot
      <4> QED
        BY <3>1, <4>1, <4>2, <4>3 DEF NodeTask, Serve
    <3>2. CASE \E p \in Nodes : DhtOnly(NodeTask(p) \/ Serve(p) \/ BeginBoot(p))
      BY <3>1, <3>2 DEF DhtOnly
    <3>3. CASE \/ \E p \in Nodes : \E m \in Known[p] : DhtOnly(Introduce(p, m))
               \/ \E p \in Agers : DhtOnly(Elapse(p))
               \/ \E p \in Stoppers : DhtOnly(Stop(p))
               \/ \E p \in Announcers : DhtOnly(AnnounceSelf(p) \/ SendAnnounce(p))
               \/ DhtOnly(Lose)
      BY <3>3 DEF DhtOnly, Introduce, Elapse, Stop, AnnounceSelf, SendAnnounce, Lose
    <3>4. CASE \/ \E p \in Seekers : SearchStep(p)
               \/ \E p \in Seekers : TrackerOnly(TrackerStep(p))
      BY <3>4 DEF SearchStep, BeginSearch, EndSearch, TrackerOnly, dhtVars
    <3> QED
      BY <3>2, <3>3, <3>4 DEF Next
  <2> QED
    BY <2>1, <2>2, <2>3
<1> QED
  BY TokensAtFirst, TokensStep, <1>1, PTL DEF Spec, StopEndsLoop

-----------------------------------------------------------------------------
(* What is on the wire: its shape, and what decode makes of it *)

\* Addresses a node may come to know, and sets of nodes as the wire names them.
Addresses == Nodes \cup {g.addr : g \in GarbageNodes}

NodeSet(S) == IsFiniteSet(S) /\ \A e \in S : e.id \in Ids /\ e.addr \in Addresses

AnswerKinds == {"PingResponse", "FindNodeResponse", "PeersFound", "NodesFound",
            "AnnounceResponse"}

\* A message as the code writes it: the code goes with the kind, but for the
\* answer to a ping, which may report an announcement that was refused.
Shaped(m) ==
    /\ m.kind \in {"Ping", "FindNode", "FindPeers", "Announce"} \cup AnswerKinds
    /\ m.kind = "Ping" => m.code = "Ping"
    /\ m.kind = "PingResponse" => m.code \in {"Ping", "Announce"}
    /\ m.kind \in {"FindNode", "FindNodeResponse"} => m.code = "FindNode"
    /\ m.kind \in {"FindPeers", "PeersFound", "NodesFound"} => m.code = "FindPeers"
    /\ m.kind \in {"Announce", "AnnounceResponse"} => m.code = "Announce"
    /\ m.kind = "FindPeers" => m.hash \in Hashes
    /\ m.kind = "PeersFound" => Len(m.peers) \in Nat
    /\ m.kind \in {"FindNodeResponse", "NodesFound"} => NodeSet(m.nodes)

\* Only a bootstrap pings, so only its socket gets the answer to a ping.
Routed(d) ==
    /\ d.msg.kind = "Ping" => d.from \notin Nodes
    /\ d.msg.kind = "PingResponse" /\ d.msg.code = "Ping" => d.to \notin Nodes

\* No answer has the length of a request.
LEMMA AnswerLengths ==
    ASSUME NEW m, Shaped(m), m.kind \in AnswerKinds
    PROVE  /\ m.kind = "PingResponse" => Length(m) = 20
           /\ m.kind = "AnnounceResponse" => Length(m) = 21
           /\ m.kind \in {"FindNodeResponse", "PeersFound", "NodesFound"} => Length(m) # 40
<1>1. CASE m.kind \in {"PingResponse", "AnnounceResponse"}
  BY <1>1 DEF Length
<1>2. CASE m.kind = "FindNodeResponse"
  <2> DEFINE c == Cardinality(m.nodes)
  <2>1. c \in Nat
    BY <1>2, FS_CardinalityType DEF Shaped, NodeSet
  <2>2. Length(m) = 20 + 26 * c
    BY <1>2 DEF Length
  <2> HIDE DEF c
  <2> QED
    BY <1>2, <2>1, <2>2
<1>3. CASE m.kind = "PeersFound"
  <2> DEFINE c == Len(m.peers)
  <2>1. c \in Nat
    BY <1>3 DEF Shaped
  <2>2. Length(m) = 23 + 6 * c
    BY <1>3 DEF Length
  <2> HIDE DEF c
  <2> QED
    BY <1>3, <2>1, <2>2
<1>4. CASE m.kind = "NodesFound"
  <2> DEFINE c == Cardinality(m.nodes)
  <2>1. c \in Nat
    BY <1>4, FS_CardinalityType DEF Shaped, NodeSet
  <2>2. Length(m) = 23 + 26 * c
    BY <1>4 DEF Length
  <2> HIDE DEF c
  <2> QED
    BY <1>4, <2>1, <2>2
<1> QED
  BY <1>1, <1>2, <1>3, <1>4 DEF AnswerKinds

\* Nodes read where there are none.
LEMMA MisreadShaped ==
    ASSUME NEW d, NEW m \in Misread(d)
    PROVE  Shaped(m) /\ m.kind \in {"PeersFound", "NodesFound"}
<1> DEFINE left == Length(d) - 43
<1>1. \/ \E N \in AtMost(GarbageNodes, left \div 26) : m = NodesFound(N)
      \/ \E P \in SeqOf(GarbagePeers, left \div 6) : m = PeersFound(P)
  BY DEF Misread
<1> HIDE DEF left
<1>2. CASE \E N \in AtMost(GarbageNodes, left \div 26) : m = NodesFound(N)
  <2>1. PICK N \in SUBSET GarbageNodes : m = NodesFound(N)
    BY <1>2 DEF AtMost
  <2>2. NodeSet(N)
    BY NodesAssumption, FS_Subset DEF NodeSet, Addresses
  <2> QED
    BY <2>1, <2>2 DEF NodesFound, Shaped, AnswerKinds
<1>3. CASE \E P \in SeqOf(GarbagePeers, left \div 6) : m = PeersFound(P)
  <2>1. PICK P \in SeqOf(GarbagePeers, left \div 6) : m = PeersFound(P)
    BY <1>3
  <2>2. PICK k \in 0..left \div 6 : P \in [1..k -> GarbagePeers]
    BY DEF SeqOf
  <2>3. Len(P) \in Nat
    BY <2>2
  <2> QED
    BY <2>1, <2>3 DEF PeersFound, Shaped, AnswerKinds
<1> QED
  BY <1>1, <1>2, <1>3

\* What decode makes of a message: never the answer to a ping; a ping only of
\* what has its code; and of an answer an answer, or nothing it can read, but
\* for the answer to a ping.
LEMMA DecodedShaped ==
    ASSUME NEW d, Shaped(d), NEW m \in Decode(d)
    PROVE  /\ m.kind = "Unreadable" \/ Shaped(m)
           /\ m.kind # "PingResponse"
           /\ m.kind = "Ping" => d.code = "Ping"
           /\ d.kind \in AnswerKinds /\ d.code # "Ping" =>
                 m.kind \in AnswerKinds \cup {"Unreadable"}
<1>1. CASE d.code = "Ping"
  <2>1. m = Ping
    BY <1>1 DEF Decode
  <2> QED
    BY <1>1, <2>1 DEF Ping, Shaped, AnswerKinds
<1>2. CASE d.code = "FindNode"
  <2>1. d.kind \in {"FindNode", "FindNodeResponse"}
    BY <1>2 DEF Shaped, AnswerKinds
  <2>2. CASE d.kind = "FindNode"
    <3>1. Length(d) = 40
      BY <2>2 DEF Length
    <3>2. m = FindNode(d.target)
      BY <1>2, <3>1 DEF Decode
    <3> QED
      BY <2>2, <3>2 DEF FindNode, Shaped, AnswerKinds
  <2>3. CASE d.kind = "FindNodeResponse"
    <3>1. Length(d) # 40
      BY <2>3, AnswerLengths DEF AnswerKinds
    <3>2. m = FindNodeResponse(d.nodes)
      BY <1>2, <2>3, <3>1 DEF Decode
    <3>3. NodeSet(d.nodes)
      BY <2>3 DEF Shaped
    <3> QED
      BY <3>2, <3>3 DEF FindNodeResponse, Shaped, AnswerKinds
  <2> QED
    BY <2>1, <2>2, <2>3
<1>3. CASE d.code = "FindPeers"
  <2>1. d.kind \in {"FindPeers", "PeersFound", "NodesFound"}
    BY <1>3 DEF Shaped, AnswerKinds
  <2>2. CASE d.kind = "FindPeers"
    <3>1. Length(d) = 40
      BY <2>2 DEF Length
    <3>2. m = FindPeers(d.hash) /\ d.hash \in Hashes
      BY <1>3, <2>2, <3>1 DEF Decode, Shaped
    <3> QED
      BY <2>2, <3>2 DEF FindPeers, Shaped, AnswerKinds
  <2>3. CASE d.kind # "FindPeers"
    <3>1. Length(d) # 40
      BY <2>1, <2>3, AnswerLengths DEF AnswerKinds
    <3>2. m = Unreadable \/ m \in Misread(d)
      BY <1>3, <3>1 DEF Decode
    <3> QED
      BY <3>2, MisreadShaped DEF Unreadable, AnswerKinds
  <2> QED
    BY <2>2, <2>3
<1>4. CASE d.code = "Announce"
  <2>1. d.kind \in {"Announce", "PingResponse", "AnnounceResponse"}
    BY <1>4 DEF Shaped, AnswerKinds
  <2>2. CASE d.kind = "Announce"
    <3>1. Length(d) = 46
      BY <2>2 DEF Length
    <3>2. m = Announce(d.hash, d.token)
      BY <1>4, <3>1 DEF Decode
    <3> QED
      BY <2>2, <3>2 DEF Announce, Shaped, AnswerKinds
  <2>3. CASE d.kind = "PingResponse"
    <3>1. Length(d) = 20
      BY <2>3 DEF Length
    <3>2. m = Unreadable
      BY <1>4, <3>1 DEF Decode
    <3> QED
      BY <3>2 DEF Unreadable, AnswerKinds
  <2>4. CASE d.kind = "AnnounceResponse"
    <3>1. Length(d) = 21
      BY <2>4 DEF Length
    <3>2. m = AnnounceResponse
      BY <1>4, <3>1 DEF Decode
    <3> QED
      BY <3>2 DEF AnnounceResponse, Shaped, AnswerKinds
  <2> QED
    BY <2>1, <2>2, <2>3, <2>4
<1> QED
  BY <1>1, <1>2, <1>3, <1>4 DEF Shaped, AnswerKinds

\* A list of nodes is inserted one after the other.
LEMMA InsertAllKeeps ==
    ASSUME NEW A, NEW t \in Tables(A), NEW local \in Ids, NEW S, NEW list \in Seq(S),
           \A e \in S : e.id \in Ids /\ e.addr \in A
    PROVE  InsertAll(t, local, list) \in Tables(A)
<1> DEFINE n == Len(list)
           entry(i) == Entry(list[i].id, list[i].addr)
           P == [i \in 0..n |-> Tables(A)]
           G == [i \in 0..n - 1 |-> [u \in Tables(A) |-> Insert(u, local, entry(i + 1))]]
           with == CHOOSE f : f = [i \in 0..n |->
                      IF i = 0 THEN t
                      ELSE Insert(f[i - 1], local, Entry(list[i].id, list[i].addr))]
<1>1. n \in Nat /\ \A i \in 1..n : entry(i) \in Places(A)
  BY DEF Entry, Places
<1> HIDE DEF entry
<1>2. t \in P[0]
  BY <1>1
<1>3. \A i \in 0..n - 1 : \A u \in P[i] : G[i][u] \in P[i + 1]
  <2> TAKE i \in 0..n - 1
  <2> TAKE u \in P[i]
  <2>1. i + 1 \in 1..n /\ i \in 0..n /\ i + 1 \in 0..n
    BY <1>1
  <2>2. u \in Tables(A) /\ entry(i + 1) \in Places(A)
    BY <1>1, <2>1
  <2>3. Insert(u, local, entry(i + 1)) \in Tables(A)
    BY <2>2, InsertKeeps
  <2> QED
    BY <2>1, <2>2, <2>3
<1>4. \A i \in 0..n - 1 : \A u \in P[i] : G[i][u] = Insert(u, local, entry(i + 1))
  BY <1>1
<1>5. PICK f : /\ f = [i \in 0..n |-> IF i = 0 THEN t ELSE G[i - 1][f[i - 1]]]
               /\ \A i \in 0..n : f[i] \in P[i]
  <2> HIDE DEF n, P, G
  <2>1. Leads(P, G, n)
    BY <1>3 DEF Leads
  <2>2. \E f : Repeats(P, G, n, t, f)
    BY <1>1, <1>2, <2>1, Iterates
  <2> QED
    BY <2>2 DEF Repeats
<1> DEFINE h == [i \in 0..n |-> IF i = 0 THEN t ELSE Insert(f[i - 1], local, entry(i))]
<1> HIDE DEF n, P, G
<1>6. \A i \in 0..n : f[i] = h[i]
  <2> TAKE i \in 0..n
  <2>1. CASE i = 0
    BY <1>5, <2>1
  <2>2. CASE i # 0
    <3>1. i - 1 \in 0..n - 1 /\ i - 1 \in 0..n /\ (i - 1) + 1 = i
      BY <1>1, <2>2
    <3>2. f[i] = G[i - 1][f[i - 1]] /\ f[i - 1] \in P[i - 1]
      BY <1>5, <2>2, <3>1
    <3> QED
      BY <1>4, <2>2, <3>1, <3>2
  <2> QED
    BY <2>1, <2>2
<1>7. f = h
  <2>1. h = [i \in 0..n |-> h[i]] /\ f = [i \in 0..n |-> f[i]]
    BY <1>5
  <2> HIDE DEF h
  <2> QED
    BY <1>6, <2>1
<1>8. with = [i \in 0..n |->
                IF i = 0 THEN t
                ELSE Insert(with[i - 1], local, Entry(list[i].id, list[i].addr))]
  BY <1>7 DEF entry
<1>9. with[n] \in P[n]
  <2> SUFFICES ASSUME NEW k, k = [i \in 0..n |->
                        IF i = 0 THEN t ELSE Insert(k[i - 1], local, entry(i))]
               PROVE  k[n] \in P[n]
    BY <1>8 DEF entry
  <2> DEFINE Same == {i \in 0..n : k[i] \in P[i]}
  <2>1. 0 \in Same
    BY <1>1, <1>2
  <2>2. ASSUME NEW i \in 0..n - 1, i \in Same
        PROVE  i + 1 \in Same
    <3>1. i + 1 \in 0..n /\ i + 1 # 0 /\ (i + 1) - 1 = i
      BY <1>1
    <3>2. k[i + 1] = Insert(k[i], local, entry(i + 1))
      BY <3>1
    <3>3. k[i + 1] = G[i][k[i]]
      BY <1>4, <2>2, <3>2
    <3> QED
      BY <1>3, <2>2, <3>1, <3>3
  <2> HIDE DEF Same
  <2>3. \A i \in 0..n : i \in Same
    BY <1>1, <2>1, <2>2, Climb
  <2> QED
    BY <1>1, <2>3 DEF Same
<1>10. with[n] = InsertAll(t, local, list)
  BY DEF InsertAll, n
<1> QED
  BY <1>1, <1>9, <1>10 DEF P

-----------------------------------------------------------------------------
(* The bounds, and what goes with them *)

TablesHold == table \in [Nodes -> Tables(Addresses)]

PeersHold == \A n \in Nodes : \A h \in Hashes : Len(peers[n][h]) <= MaxPeersPerHash

\* The loop is busy with what decode made of the datagram; an answer was not
\* taken for a request.
Busy(l) ==
    /\ l.at \in {"idle", "handle", "announced", "refresh", "refreshing", "over"}
    /\ l.at \in {"handle", "announced"} =>
         /\ l.msg.kind = "Unreadable" \/ Shaped(l.msg)
         /\ l.msg.kind = "Ping" => l.from \notin Nodes
         /\ l.msg.kind # "PingResponse"
    /\ l.at = "handle" /\ IsResponse(l.sent) => l.msg.kind \in AnswerKinds \cup {"Unreadable"}

LoopsHold == \A n \in Nodes : Busy(loop[n])

BootFields == {"at", "todo", "peer", "queried", "round", "news"}

Booting(b) ==
    /\ b.at \in {"idle", "ping", "find", "over"}
    /\ b.at \in {"ping", "find"} => DOMAIN b = BootFields /\ b.round \in 0..BootRounds

BootsHold == DOMAIN boot = Nodes /\ \A n \in Nodes : Booting(boot[n])

LookupFields ==
    {"at", "hash", "short", "queried", "todo", "round", "closest", "news", "heard"}

Looking(l) ==
    /\ l.at \in {"idle", "start", "table", "round", "ask", "wait", "finish", "done"}
    /\ l.at \in {"start", "table"} => l.hash \in Hashes
    /\ l.at \in {"round", "ask", "wait", "finish"} =>
         /\ DOMAIN l = LookupFields
         /\ l.hash \in Hashes
         /\ NodeSet(l.short)
         /\ l.round \in 0..MaxRounds
    /\ l.at \in {"ask", "wait"} =>
         /\ l.round \in 1..MaxRounds
         /\ IsFiniteSet(l.todo) /\ Cardinality(l.todo) <= Alpha

LookupsHold == DOMAIN lookup = Nodes /\ \A n \in Nodes : Looking(lookup[n])

AnnouncesHold ==
    /\ DOMAIN announcing = Nodes
    /\ \A n \in Nodes : /\ "at" \in DOMAIN announcing[n]
                        /\ announcing[n].at \in {"idle", "announce"}

DgramsHold ==
    /\ IsFiniteSet(dgrams) /\ Cardinality(dgrams) <= MaxDgrams
    /\ \A d \in dgrams : Shaped(d.msg) /\ Routed(d)

Bounded ==
    /\ TablesHold /\ PeersHold /\ LoopsHold /\ BootsHold /\ LookupsHold /\ DgramsHold
    /\ AnnouncesHold
    /\ stopped \in [Nodes -> BOOLEAN] /\ due \in [Nodes -> BOOLEAN]

\* The steps of the nodes, without what they leave alone.
LEMMA Steps ==
    ASSUME [Next]_vars
    PROVE  \/ \E n \in Nodes :
                \/ LoopStep(n) \/ Receive(n) \/ LoopFails(n) \/ BeginRefresh(n)
                \/ LookupStep(n) \/ BootStep(n) \/ BeginBoot(n)
                \/ Elapse(n) \/ Stop(n) \/ AnnounceSelf(n) \/ SendAnnounce(n) \/ SearchStep(n)
                \/ \E m \in Nodes : Introduce(n, m)
           \/ Lose
           \/ UNCHANGED dhtVars
<1>0. /\ Agers \subseteq Nodes /\ Stoppers \subseteq Nodes
      /\ Announcers \subseteq Nodes /\ Seekers \subseteq Nodes
      /\ \A n \in Nodes : Known[n] \subseteq Nodes
  BY NodesAssumption
<1>1. CASE \E n \in Nodes : DhtOnly(NodeTask(n) \/ Serve(n) \/ BeginBoot(n))
  BY <1>1 DEF DhtOnly, NodeTask, Serve
<1>2. CASE \E n \in Nodes : \E m \in Known[n] : DhtOnly(Introduce(n, m))
  BY <1>0, <1>2 DEF DhtOnly
<1>3. CASE \/ \E n \in Agers : DhtOnly(Elapse(n))
           \/ \E n \in Stoppers : DhtOnly(Stop(n))
           \/ \E n \in Announcers : DhtOnly(AnnounceSelf(n) \/ SendAnnounce(n))
           \/ \E n \in Seekers : SearchStep(n)
  BY <1>0, <1>3 DEF DhtOnly
<1>4. CASE DhtOnly(Lose) \/ (\E n \in Seekers : TrackerOnly(TrackerStep(n)))
  BY <1>4 DEF DhtOnly, TrackerOnly
<1>5. CASE UNCHANGED vars
  BY <1>5 DEF vars
<1> QED
  BY <1>1, <1>2, <1>3, <1>4, <1>5 DEF Next

-----------------------------------------------------------------------------
(* Tables *)

\* Nodes of a set, in any order, go into a table.
LEMMA SortedGoIn ==
    ASSUME NEW t \in Tables(Addresses), NEW n \in Nodes, NEW S, NodeSet(S), NEW target,
           NEW list \in Sorted(S, target)
    PROVE  InsertAll(t, IdOf[n], list) \in Tables(Addresses)
<1>1. Cardinality(S) \in Nat
  BY FS_CardinalityType DEF NodeSet
<1>2. list \in Seq(S)
  BY <1>1 DEF Sorted
<1>3. IdOf[n] \in Ids
  BY NodesAssumption
<1> QED
  BY <1>2, <1>3, InsertAllKeeps DEF NodeSet

\* What a node names of its table.
LEMMA NamedNodes ==
    ASSUME NEW t \in Tables(Addresses), NEW local, NEW target, NEW count
    PROVE  NodeSet(Infos(FindClosest(t, local, target, count)))
<1> DEFINE S == FindClosest(t, local, target, count)
           f == [e \in S |-> Info(e)]
<1>1. IsFiniteSet(S) /\ S \subseteq Places(Addresses)
  BY EntriesAre, FoundIn, FS_Subset
<1> HIDE DEF S
<1>2. Infos(S) = {f[e] : e \in DOMAIN f} /\ DOMAIN f = S /\ f = [e \in DOMAIN f |-> f[e]]
  BY DEF Infos
<1>3. IsFiniteSet(Infos(S))
  <2> HIDE DEF f
  <2> QED
    BY <1>1, <1>2, FiniteValues
<1>4. \A e \in Infos(S) : e.id \in Ids /\ e.addr \in Addresses
  BY <1>1 DEF Infos, Info, Places
<1> QED
  BY <1>3, <1>4 DEF NodeSet, S

\* A quarter of an hour ages the entries.
LEMMA ElapseTables ==
    ASSUME TablesHold, NEW n \in Nodes, Elapse(n)
    PROVE  TablesHold'
<1> DEFINE t == table[n]
           age == [e \in Places(Addresses) |-> [e EXCEPT !.stale = TRUE]]
           older(b) == [j \in DOMAIN b |-> age[b[j]]]
           u == [i \in DOMAIN t |-> older(t[i])]
           v == [b \in DOMAIN t |-> [i \in DOMAIN t[b] |-> [t[b][i] EXCEPT !.stale = TRUE]]]
<1>1. /\ age \in [Places(Addresses) -> Places(Addresses)]
      /\ \A e \in Places(Addresses) : age[e].id = e.id
  BY DEF Places
<1>2. t \in Tables(Addresses)
  BY DEF TablesHold
<1>3. \A i \in DOMAIN t : \A j \in DOMAIN t[i] : t[i][j] \in Places(Addresses)
  <2>1. \A i \in DOMAIN t : t[i] \in Seq(Places(Addresses))
    BY <1>2 DEF Tables, Buckets
  <2> QED
    BY <2>1
<1>4. v = u
  <2>1. \A i \in DOMAIN t : \A j \in DOMAIN t[i] : age[t[i][j]] = [t[i][j] EXCEPT !.stale = TRUE]
    BY <1>3
  <2> HIDE DEF age, t
  <2> QED
    BY <2>1
<1>5. table' = [table EXCEPT ![n] = v]
  BY DEF Elapse
<1> HIDE DEF t, age
<1>6. u \in Tables(Addresses)
  BY <1>1, <1>2, AgedTable
<1> HIDE DEF u, v
<1> QED
  BY <1>4, <1>5, <1>6 DEF TablesHold

LEMMA TablesStep ==
    ASSUME Bounded, TokensOwn, [Next]_vars
    PROVE  TablesHold'
<1>0. table \in [Nodes -> Tables(Addresses)] /\ \A n \in Nodes : IdOf[n] \in Ids
  BY NodesAssumption DEF Bounded, TablesHold
<1>1. ASSUME NEW n \in Nodes, NEW m \in Nodes, Introduce(n, m)
      PROVE  TablesHold'
  <2> DEFINE e == Entry(IdOf[m], m)
  <2>1. e \in Places(Addresses)
    BY <1>0 DEF Entry, Places, Addresses
  <2>2. table' = [table EXCEPT ![n] = Insert(table[n], IdOf[n], e)]
    BY <1>1 DEF Introduce
  <2> HIDE DEF e
  <2>3. Insert(table[n], IdOf[n], e) \in Tables(Addresses)
    BY <1>0, <2>1, InsertKeeps
  <2> QED
    BY <1>0, <2>2, <2>3 DEF TablesHold
<1>2. ASSUME NEW n \in Nodes, Elapse(n)
      PROVE  TablesHold'
  BY <1>2, ElapseTables DEF Bounded
<1>3. ASSUME NEW n \in Nodes, FinishLookup(n)
      PROVE  TablesHold'
  <2>1. lookup[n].at = "finish"
    BY <1>3 DEF FinishLookup
  <2>2. NodeSet(lookup[n].short)
    BY <2>1 DEF Bounded, LookupsHold, Looking
  <2>3. PICK list \in Sorted(lookup[n].short, lookup[n].hash) :
          table' = [table EXCEPT ![n] = InsertAll(table[n], IdOf[n], list)]
    BY <1>3 DEF FinishLookup
  <2>4. InsertAll(table[n], IdOf[n], list) \in Tables(Addresses)
    BY <1>0, <2>2, SortedGoIn
  <2> QED
    BY <1>0, <2>3, <2>4 DEF TablesHold
<1>4. ASSUME NEW n \in Nodes, SeedAnswers(n)
      PROVE  TablesHold'
  <2>1. PICK d \in dgrams :
          \E m \in Decode(d.msg), s \in boot[n].peer :
             table' = [table EXCEPT ![n] =
                IF m.kind = "PingResponse"
                THEN Insert(@, IdOf[n], Entry(IdOf[d.from], s)) ELSE @]
    BY <1>4 DEF SeedAnswers
  <2>2. \A m \in Decode(d.msg) : m.kind # "PingResponse"
    BY DecodedShaped DEF Bounded, DgramsHold
  <2>3. table' = [table EXCEPT ![n] = table[n]]
    BY <2>1, <2>2
  <2> QED
    BY <1>0, <2>3 DEF TablesHold
<1>5. ASSUME NEW n \in Nodes, NodeAnswers(n)
      PROVE  TablesHold'
  <2>1. PICK d \in dgrams : \E m \in Decode(d.msg) :
          \E list \in Sorted(IF m.kind = "FindNodeResponse" THEN m.nodes ELSE {}, IdOf[n]) :
             table' = [table EXCEPT ![n] = InsertAll(@, IdOf[n], list)]
    BY <1>5, Zenon DEF NodeAnswers
  <2>2. PICK m \in Decode(d.msg) :
          \E list \in Sorted(IF m.kind = "FindNodeResponse" THEN m.nodes ELSE {}, IdOf[n]) :
             table' = [table EXCEPT ![n] = InsertAll(@, IdOf[n], list)]
    BY <2>1
  <2> DEFINE S == IF m.kind = "FindNodeResponse" THEN m.nodes ELSE {}
  <2>3. NodeSet(S)
    <3>1. CASE m.kind = "FindNodeResponse"
      BY <3>1, DecodedShaped DEF Bounded, DgramsHold, Shaped
    <3>2. CASE m.kind # "FindNodeResponse"
      BY <3>2, FS_EmptySet DEF NodeSet
    <3> QED
      BY <3>1, <3>2
  <2> HIDE DEF S
  <2>4. PICK list \in Sorted(S, IdOf[n]) :
          table' = [table EXCEPT ![n] = InsertAll(@, IdOf[n], list)]
    BY <2>2 DEF S
  <2>5. InsertAll(table[n], IdOf[n], list) \in Tables(Addresses)
    BY <1>0, <2>3, SortedGoIn
  <2> QED
    BY <1>0, <2>4, <2>5 DEF TablesHold
<1>6. ASSUME NEW n \in Nodes,
             \/ LoopStep(n) \/ Receive(n) \/ LoopFails(n) \/ BeginRefresh(n) \/ BeginBoot(n)
             \/ Stop(n) \/ AnnounceSelf(n) \/ SendAnnounce(n) \/ SearchStep(n)
      PROVE  UNCHANGED table
  BY <1>6 DEF LoopStep, HandleRequest, HandleAnnounce, Reject, Discard, AskRefresh,
              RefreshAnswered, EndRefresh, Receive, LoopFails, BeginRefresh, BeginBoot, Stop,
              AnnounceSelf, SendAnnounce, SearchStep, BeginSearch, EndSearch, dhtVars
<1>7. ASSUME NEW n \in Nodes,
             \/ BeginLookup(n) \/ ShortList(n) \/ BeginRound(n) \/ Ask(n) \/ Hear(n)
             \/ HearNothing(n)
             \/ EndRound(n) \/ PingSeed(n) \/ EndPings(n) \/ BootRound(n) \/ BootAsk(n)
             \/ BootTimesOut(n)
      PROVE  UNCHANGED table
  BY <1>7 DEF BeginLookup, ShortList, BeginRound, Ask, Hear, HearNothing, EndRound, PingSeed,
              EndPings, BootRound, BootAsk, BootTimesOut
<1>8. CASE UNCHANGED table
  BY <1>8 DEF Bounded, TablesHold
<1>9. CASE Lose \/ UNCHANGED dhtVars
  BY <1>8, <1>9 DEF Lose, dhtVars
<1> QED
  BY <1>1, <1>2, <1>3, <1>4, <1>5, <1>6, <1>7, <1>8, <1>9, Steps DEF LookupStep, BootStep

-----------------------------------------------------------------------------
(* Datagrams *)

\* A message is well made, and goes where it should.
Proper(d) == Shaped(d.msg) /\ Routed(d)

LEMMA SendingHolds ==
    ASSUME DgramsHold, NEW ds, IsFiniteSet(ds), \A d \in ds : Proper(d),
           dgrams' = Sending(ds)
    PROVE  DgramsHold'
<1> DEFINE all == dgrams \cup {d \in ds : d.to \in Sockets}
<1>1. IsFiniteSet(all)
  <2>1. IsFiniteSet({d \in ds : d.to \in Sockets})
    BY FS_Subset
  <2> QED
    BY <2>1, FS_Union DEF DgramsHold
<1>2. \A d \in all : Proper(d)
  BY DEF DgramsHold, Proper
<1>3. dgrams' = IF Cardinality(all) <= MaxDgrams THEN all ELSE dgrams
  BY DEF Sending
<1> HIDE DEF all
<1> QED
  BY <1>1, <1>2, <1>3 DEF DgramsHold, Proper

LEMMA SendingOne ==
    ASSUME DgramsHold, NEW d, Proper(d), dgrams' = Sending({d})
    PROVE  DgramsHold'
<1>1. IsFiniteSet({d}) /\ \A x \in {d} : Proper(x)
  BY FS_Singleton
<1> DEFINE ds == {d}
<1> HIDE DEF ds
<1> QED
  BY <1>1, SendingHolds DEF ds

LEMMA FewerDgrams ==
    ASSUME DgramsHold, dgrams' \subseteq dgrams
    PROVE  DgramsHold'
<1>1. IsFiniteSet(dgrams') /\ Cardinality(dgrams') <= Cardinality(dgrams)
  BY FS_Subset DEF DgramsHold
<1>2. Cardinality(dgrams') \in Nat /\ Cardinality(dgrams) \in Nat /\ MaxDgrams \in Nat
  BY <1>1, FS_CardinalityType, LimitsAssumption DEF DgramsHold
<1> QED
  BY <1>1, <1>2 DEF DgramsHold

\* Requests of nodes; pings are the bootstrap's.
LEMMA RequestsProper ==
    ASSUME NEW n \in Nodes, NEW from, NEW to, NEW x
    PROVE  /\ Proper(Datagram(Boot(n), to, Ping))
           /\ Proper(Datagram(from, to, FindNode(x)))
           /\ x \in Hashes => Proper(Datagram(from, to, FindPeers(x)))
           /\ \A t : Proper(Datagram(from, to, Announce(x, t)))
<1>1. Boot(n) \notin Nodes
  BY SocketsAssumption
<1> QED
  BY <1>1 DEF Proper, Shaped, Routed, Datagram, Ping, FindNode, FindPeers, Announce,
              AnswerKinds

\* AnswerKinds of a node to what its loop is busy with.
LEMMA AnswersProper ==
    ASSUME Bounded, TokensOwn, NEW n \in Nodes, HandleRequest(n)
    PROVE  Proper(Datagram(n, loop[n].from, Answer(n, loop[n].msg)))
<1> DEFINE m == loop[n].msg
           near(id) == Infos(FindClosest(table[n], IdOf[n], id, K))
<1>1. Busy(loop[n]) /\ Heard(loop[n], n)
  BY DEF Bounded, LoopsHold, TokensOwn
<1>2. /\ Shaped(m) /\ m.kind \in {"Ping", "FindNode", "FindPeers", "Announce"}
      /\ m.kind = "Ping" => loop[n].from \notin Nodes
  BY <1>1 DEF HandleRequest, Busy, Heard
<1>3. \A id : NodeSet(near(id))
  BY NamedNodes DEF Bounded, TablesHold
<1>4. Answer(n, m) = CASE m.kind = "Ping" -> PingResponse(m.code)
          [] m.kind = "FindNode" -> FindNodeResponse(near(m.target))
          [] m.kind = "FindPeers" ->
               IF peers[n][m.hash] # <<>> THEN PeersFound(peers[n][m.hash])
               ELSE NodesFound(near(m.hash))
          [] m.kind = "Announce" -> AnnounceResponse
  BY Zenon DEF Answer
<1> HIDE DEF m, near
<1>5. CASE m.kind = "Ping"
  BY <1>2, <1>4, <1>5 DEF PingResponse, Proper, Shaped, Routed, Datagram, AnswerKinds, m
<1>6. CASE m.kind = "FindNode"
  <2>1. Answer(n, m) = FindNodeResponse(near(m.target))
    BY <1>4, <1>6
  <2>2. NodeSet(near(m.target))
    BY <1>3
  <2> QED
    BY <2>1, <2>2 DEF FindNodeResponse, Proper, Shaped, Routed, Datagram, AnswerKinds, m
<1>7. CASE m.kind = "FindPeers"
  <2>1. m.hash \in Hashes
    BY <1>2, <1>7 DEF Shaped
  <2>2. Len(peers[n][m.hash]) \in Nat
    BY <2>1 DEF TokensOwn
  <2>3. NodeSet(near(m.hash))
    BY <1>3
  <2>4. Answer(n, m) \in {PeersFound(peers[n][m.hash]), NodesFound(near(m.hash))}
    BY <1>4, <1>7
  <2> QED
    BY <2>2, <2>3, <2>4 DEF PeersFound, NodesFound, Proper, Shaped, Routed, Datagram,
                            AnswerKinds, m
<1>8. CASE m.kind = "Announce"
  BY <1>4, <1>8 DEF AnnounceResponse, Proper, Shaped, Routed, Datagram, AnswerKinds, m
<1> QED
  BY <1>2, <1>5, <1>6, <1>7, <1>8

LEMMA DgramsStep ==
    ASSUME Bounded, TokensOwn, [Next]_vars
    PROVE  DgramsHold'
<1>0. DgramsHold
  BY DEF Bounded
<1>1. ASSUME NEW n \in Nodes, HandleRequest(n)
      PROVE  DgramsHold'
  <2> DEFINE d == Datagram(n, loop[n].from, Answer(n, loop[n].msg))
  <2>1. Proper(d)
    BY <1>1, AnswersProper
  <2>2. dgrams' = Sending({d})
    BY <1>1 DEF HandleRequest, Reply
  <2> HIDE DEF d
  <2> QED
    BY <1>0, <2>1, <2>2, SendingOne
<1>2. ASSUME NEW n \in Nodes, Reject(n)
      PROVE  DgramsHold'
  <2> DEFINE m == loop[n].msg
             ds == {Datagram(n, loop[n].from, r) : r \in ErrorResponse(m)}
  <2>1. dgrams' = Sending(ds)
    BY <1>2 DEF Reject
  <2>2. CASE IsResponse(m)
    <3>1. ds = {}
      BY <2>2 DEF ErrorResponse
    <3> HIDE DEF ds
    <3> QED
      BY <1>0, <2>1, <3>1, FS_EmptySet, SendingHolds
  <2>3. CASE ~IsResponse(m)
    <3>1. m.kind = "Announce"
      BY <1>2, <2>3 DEF Reject
    <3>2. Shaped(m)
      BY <1>2, <3>1 DEF Reject, Bounded, LoopsHold, Busy
    <3> DEFINE d == Datagram(n, loop[n].from, PingResponse(m.code))
    <3>3. ds = {d}
      BY <2>3 DEF ErrorResponse
    <3>4. Proper(d)
      BY <3>1, <3>2 DEF PingResponse, Proper, Shaped, Routed, Datagram, AnswerKinds
    <3> HIDE DEF ds, d
    <3> QED
      BY <1>0, <2>1, <3>3, <3>4, SendingOne
  <2> QED
    BY <2>2, <2>3
<1>3. ASSUME NEW n \in Nodes,
             AskRefresh(n) \/ SendAnnounce(n) \/ Ask(n) \/ PingSeed(n) \/ BootAsk(n)
      PROVE  DgramsHold'
  <2>1. \/ dgrams' = dgrams
        \/ \E d : Proper(d) /\ dgrams' = Sending({d})
    <3>1. CASE AskRefresh(n)
      BY <3>1, RequestsProper DEF AskRefresh
    <3>2. CASE SendAnnounce(n)
      BY <3>2, RequestsProper DEF SendAnnounce
    <3>3. CASE Ask(n)
      <4>1. lookup[n].hash \in Hashes
        BY <3>3 DEF Ask, Bounded, LookupsHold, Looking
      <4> QED
        BY <3>3, <4>1, RequestsProper DEF Ask
    <3>4. CASE PingSeed(n)
      BY <3>4, RequestsProper DEF PingSeed, BootAsks
    <3>5. CASE BootAsk(n)
      BY <3>5, RequestsProper DEF BootAsk, BootAsks
    <3> QED
      BY <1>3, <3>1, <3>2, <3>3, <3>4, <3>5
  <2> QED
    BY <1>0, <2>1, SendingOne, FewerDgrams
<1>4. ASSUME NEW n \in Nodes,
             \/ HandleAnnounce(n) \/ Discard(n) \/ RefreshAnswered(n) \/ EndRefresh(n)
             \/ Receive(n) \/ LoopFails(n) \/ BeginRefresh(n) \/ BeginBoot(n) \/ Elapse(n)
             \/ Stop(n)
             \/ AnnounceSelf(n) \/ SearchStep(n) \/ (\E m \in Nodes : Introduce(n, m))
      PROVE  dgrams' \subseteq dgrams
  BY <1>4 DEF HandleAnnounce, Discard, RefreshAnswered, EndRefresh, Receive, LoopFails,
              BeginRefresh,
              BeginBoot, Elapse, Stop, AnnounceSelf, SearchStep, BeginSearch, EndSearch,
              Introduce, dhtVars
<1>5. ASSUME NEW n \in Nodes,
             \/ BeginLookup(n) \/ ShortList(n) \/ BeginRound(n) \/ Hear(n)
             \/ HearNothing(n) \/ EndRound(n)
             \/ FinishLookup(n) \/ SeedAnswers(n) \/ EndPings(n) \/ BootRound(n)
             \/ NodeAnswers(n) \/ BootTimesOut(n)
      PROVE  dgrams' \subseteq dgrams
  BY <1>5 DEF BeginLookup, ShortList, BeginRound, Hear, HearNothing, EndRound, FinishLookup,
              SeedAnswers, EndPings, BootRound, NodeAnswers, BootTimesOut
<1>6. CASE dgrams' \subseteq dgrams
  BY <1>0, <1>6, FewerDgrams
<1>7. CASE Lose \/ UNCHANGED dhtVars
  BY <1>6, <1>7 DEF Lose, dhtVars
<1> QED
  BY <1>1, <1>2, <1>3, <1>4, <1>5, <1>6, <1>7, Steps DEF LoopStep, LookupStep, BootStep

-----------------------------------------------------------------------------
(* Loops *)

\* A loop that is not busy with a message.
LEMMA NotBusy ==
    ASSUME NEW n
    PROVE  /\ Busy(LoopHead(n)) /\ Busy(Over)
           /\ \A l : l.at \in {"refresh", "refreshing"} => Busy(l)
BY DEF Busy, LoopHead, Idle, Over

LEMMA LoopsStep ==
    ASSUME Bounded, TokensOwn, [Next]_vars
    PROVE  LoopsHold'
<1>0. LoopsHold /\ DOMAIN loop = Nodes
  BY DEF Bounded, TokensOwn
<1>1. ASSUME NEW n \in Nodes, NEW l, Busy(l), loop' = [loop EXCEPT ![n] = l]
      PROVE  LoopsHold'
  BY <1>0, <1>1 DEF LoopsHold
<1>2. ASSUME NEW n \in Nodes, Receive(n)
      PROVE  LoopsHold'
  <2>1. PICK d \in dgrams : d.to = n /\ \E m \in Decode(d.msg) :
          loop' = [loop EXCEPT ![n] =
                     [at |-> "handle", from |-> d.from, sent |-> d.msg, msg |-> m]]
    BY <1>2 DEF Receive
  <2>2. PICK m \in Decode(d.msg) :
          loop' = [loop EXCEPT ![n] =
                     [at |-> "handle", from |-> d.from, sent |-> d.msg, msg |-> m]]
    BY <2>1
  <2> DEFINE l == [at |-> "handle", from |-> d.from, sent |-> d.msg, msg |-> m]
  <2>3. Shaped(d.msg) /\ Routed(d)
    BY DEF Bounded, DgramsHold
  <2>4. /\ m.kind = "Unreadable" \/ Shaped(m)
        /\ m.kind # "PingResponse"
        /\ m.kind = "Ping" => d.msg.code = "Ping"
        /\ d.msg.kind \in AnswerKinds /\ d.msg.code # "Ping" =>
              m.kind \in AnswerKinds \cup {"Unreadable"}
    BY <2>3, DecodedShaped
  <2>5. d.msg.code = "Ping" => d.msg.kind = "Ping" /\ d.from \notin Nodes
    BY <2>1, <2>3 DEF Shaped, Routed, AnswerKinds
  <2>6. IsResponse(d.msg) => d.msg.kind \in AnswerKinds /\ d.msg.code # "Ping"
    BY <2>5 DEF IsResponse, AnswerKinds
  <2>7. Busy(l)
    BY <2>4, <2>5, <2>6 DEF Busy
  <2> HIDE DEF l
  <2> QED
    BY <1>1, <2>2, <2>7 DEF l
<1>3. ASSUME NEW n \in Nodes, HandleAnnounce(n)
      PROVE  LoopsHold'
  <2> DEFINE l == [loop[n] EXCEPT !.at = "announced"]
  <2>1. Busy(loop[n]) /\ Heard(loop[n], n) /\ loop[n].at = "handle"
    BY <1>0, <1>3 DEF LoopsHold, TokensOwn, HandleAnnounce
  <2>2. Busy(l)
    BY <2>1 DEF Busy, Heard
  <2>3. loop' = [loop EXCEPT ![n] = l]
    BY <1>3 DEF HandleAnnounce
  <2> HIDE DEF l
  <2> QED
    BY <1>1, <2>2, <2>3
<1>4. ASSUME NEW n \in Nodes,
             HandleRequest(n) \/ Reject(n) \/ Discard(n) \/ EndRefresh(n)
      PROVE  LoopsHold'
  <2>1. loop' = [loop EXCEPT ![n] = LoopHead(n)]
    BY <1>4 DEF HandleRequest, Reject, Discard, EndRefresh
  <2> QED
    BY <1>1, <2>1, NotBusy
<1>10. ASSUME NEW n \in Nodes, LoopFails(n)
      PROVE  LoopsHold'
  <2>1. loop' = [loop EXCEPT ![n] = Over]
    BY <1>10 DEF LoopFails
  <2> QED
    BY <1>1, <2>1, NotBusy
<1>5. ASSUME NEW n \in Nodes, BeginRefresh(n) \/ RefreshAnswered(n)
      PROVE  LoopsHold'
  <2>1. PICK todo : loop' = [loop EXCEPT ![n] = [at |-> "refresh", todo |-> todo]]
    BY <1>5 DEF BeginRefresh, RefreshAnswered
  <2> DEFINE l == [at |-> "refresh", todo |-> todo]
  <2>2. Busy(l)
    BY NotBusy
  <2> HIDE DEF l
  <2> QED
    BY <1>1, <2>1, <2>2 DEF l
<1>9. ASSUME NEW n \in Nodes, AskRefresh(n)
      PROVE  LoopsHold'
  <2> DEFINE l == [loop[n] EXCEPT !.todo = loop[n].todo - 1]
             k == [loop[n] EXCEPT !.at = "refreshing"]
  <2>1. loop[n].at = "refresh" /\ DOMAIN loop[n] = {"at", "todo"}
    BY <1>9 DEF AskRefresh, TokensOwn, Heard
  <2>2. loop' = [loop EXCEPT ![n] = l] \/ loop' = [loop EXCEPT ![n] = k]
    BY <1>9 DEF AskRefresh
  <2>3. l.at = "refresh" /\ k.at = "refreshing"
    BY <2>1
  <2> HIDE DEF l, k
  <2>4. Busy(l) /\ Busy(k)
    BY <2>3, NotBusy
  <2> QED
    BY <1>1, <2>2, <2>4
<1>6. ASSUME NEW n \in Nodes,
             \/ BeginBoot(n) \/ Elapse(n) \/ Stop(n) \/ AnnounceSelf(n) \/ SendAnnounce(n)
             \/ SearchStep(n)
             \/ LookupStep(n) \/ BootStep(n) \/ (\E m \in Nodes : Introduce(n, m))
      PROVE  UNCHANGED loop
  <2>1. CASE LookupStep(n)
    BY <2>1 DEF LookupStep, BeginLookup, ShortList, BeginRound, Ask, Hear, HearNothing,
                EndRound, FinishLookup
  <2>2. CASE BootStep(n)
    BY <2>2 DEF BootStep, PingSeed, SeedAnswers, EndPings, BootRound, BootAsk, NodeAnswers,
                BootTimesOut
  <2> QED
    BY <1>6, <2>1, <2>2 DEF BeginBoot, Elapse, Stop, AnnounceSelf, SendAnnounce, SearchStep,
                            BeginSearch,
                            EndSearch, Introduce, dhtVars
<1>7. CASE UNCHANGED loop
  BY <1>0, <1>7 DEF LoopsHold
<1>8. CASE Lose \/ UNCHANGED dhtVars
  BY <1>7, <1>8 DEF Lose, dhtVars
<1> QED
  BY <1>2, <1>3, <1>4, <1>5, <1>6, <1>7, <1>8, <1>9, <1>10, Steps DEF LoopStep

-----------------------------------------------------------------------------
(* Peers *)

\* A list that is filled up has as many peers as it may.
LEMMA FilledLength ==
    ASSUME NEW S, NEW list \in Seq(S), Len(list) <= MaxPeersPerHash, NEW more \in Seq(S)
    PROVE  Len(Filled(list, more)) <= MaxPeersPerHash
<1> DEFINE room == MaxPeersPerHash - Len(list)
           k == Min({Len(more), room})
<1>1. Len(list) \in Nat /\ Len(more) \in Nat /\ room \in Nat /\ MaxPeersPerHash \in Nat
  BY LimitsAssumption
<1>2. k \in Nat /\ k <= Len(more) /\ k <= room
  <2> DEFINE n == Len(more)
  <2>1. n \in Int /\ room \in Int /\ n \in Nat /\ room \in Nat
    BY <1>1
  <2> HIDE DEF room, n
  <2>2. Min({n, room}) \in {n, room} /\ Min({n, room}) <= n /\ Min({n, room}) <= room
    BY <2>1, MinOfTwo
  <2> QED
    BY <2>1, <2>2 DEF n
<1> DEFINE added == SubSeq(more, 1, k)
<1>3. added \in Seq(S) /\ Len(added) = k
  <2> HIDE DEF k
  <2> QED
    BY <1>1, <1>2, SubSeqProperties
<1>4. Filled(list, more) = list \o added
  BY DEF Filled
<1> HIDE DEF added, k
<1>5. Len(list \o added) = Len(list) + k
  BY <1>3, ConcatProperties
<1> QED
  BY <1>1, <1>2, <1>4, <1>5

LEMMA PeersStep ==
    ASSUME Bounded, TokensOwn, [Next]_vars
    PROVE  PeersHold'
<1>0. /\ PeersHold /\ DOMAIN peers = Nodes
      /\ \A p \in Nodes : peers[p] \in [Hashes -> Seq({p} \cup GarbagePeers)]
      /\ MaxPeersPerHash \in Nat
  BY LimitsAssumption DEF Bounded, TokensOwn
<1>1. ASSUME NEW n \in Nodes, NEW h, NEW list,
             peers' = [peers EXCEPT ![n][h] = list],
             h \in Hashes => Len(list) <= MaxPeersPerHash
      PROVE  PeersHold'
  BY <1>0, <1>1 DEF PeersHold
<1>2. ASSUME NEW n \in Nodes, HandleAnnounce(n)
      PROVE  PeersHold'
  <2> DEFINE h == loop[n].msg.hash
             peer == loop[n].from
             list == Stored(peers[n][h], peer)
  <2>1. peers' = [peers EXCEPT ![n][h] = list]
    BY <1>2 DEF HandleAnnounce
  <2>2. h \in Hashes => Len(list) <= MaxPeersPerHash
    <3> HIDE DEF h, peer
    <3> HAVE h \in Hashes
    <3> DEFINE old == peers[n][h]
    <3>1. old \in Seq({n} \cup GarbagePeers) /\ Len(old) <= MaxPeersPerHash
      BY <1>0 DEF PeersHold
    <3>2. list = IF Len(old) < MaxPeersPerHash THEN Append(old, peer) ELSE old
      BY DEF Stored
    <3> HIDE DEF old, list
    <3>3. Len(Append(old, peer)) = Len(old) + 1 /\ Len(old) \in Nat
      BY <3>1
    <3> QED
      BY <1>0, <3>1, <3>2, <3>3
  <2> HIDE DEF h, list
  <2> QED
    BY <1>1, <2>1, <2>2
<1>3. ASSUME NEW n \in Nodes, Hear(n)
      PROVE  PeersHold'
  <2> DEFINE h == lookup[n].hash
             Own == {n} \cup GarbagePeers
  <2>1. PICK d \in dgrams : \E m \in Decode(d.msg) :
           \/ UNCHANGED peers
           \/ /\ m.kind = "PeersFound"
              /\ peers' = [peers EXCEPT ![n][h] = Filled(@, m.peers)]
    BY <1>3 DEF Hear
  <2>2. PICK m \in Decode(d.msg) :
           \/ UNCHANGED peers
           \/ /\ m.kind = "PeersFound"
              /\ peers' = [peers EXCEPT ![n][h] = Filled(@, m.peers)]
    BY <2>1
  <2>3. CASE UNCHANGED peers
    BY <1>0, <2>3 DEF PeersHold
  <2>4. CASE /\ m.kind = "PeersFound"
             /\ peers' = [peers EXCEPT ![n][h] = Filled(@, m.peers)]
    <3>1. m.peers \in Seq(GarbagePeers)
      BY <2>4, DecodedGenuine DEF TokensOwn
    <3>2. m.peers \in Seq(Own)
      BY <3>1
    <3> DEFINE list == Filled(peers[n][h], m.peers)
    <3>3. peers' = [peers EXCEPT ![n][h] = list]
      BY <2>4
    <3> HIDE DEF h
    <3>4. h \in Hashes => Len(list) <= MaxPeersPerHash
      <4> HAVE h \in Hashes
      <4>1. peers[n][h] \in Seq(Own) /\ Len(peers[n][h]) <= MaxPeersPerHash
        BY <1>0 DEF PeersHold
      <4> HIDE DEF Own
      <4> QED
        BY <3>2, <4>1, FilledLength
    <3> HIDE DEF list
    <3> QED
      BY <1>1, <3>3, <3>4
  <2> QED
    BY <2>2, <2>3, <2>4
<1>4. ASSUME NEW n \in Nodes,
             \/ HandleRequest(n) \/ Reject(n) \/ Discard(n) \/ AskRefresh(n)
             \/ RefreshAnswered(n) \/ EndRefresh(n) \/ Receive(n) \/ LoopFails(n)
             \/ BeginRefresh(n)
             \/ BeginBoot(n) \/ Elapse(n) \/ Stop(n) \/ AnnounceSelf(n) \/ SendAnnounce(n)
             \/ SearchStep(n)
             \/ (\E m \in Nodes : Introduce(n, m))
      PROVE  UNCHANGED peers
  BY <1>4 DEF HandleRequest, Reject, Discard, AskRefresh, RefreshAnswered, EndRefresh,
              Receive, LoopFails, BeginRefresh, BeginBoot, Elapse, Stop, AnnounceSelf,
              SendAnnounce, SearchStep,
              BeginSearch, EndSearch, Introduce, dhtVars
<1>5. ASSUME NEW n \in Nodes,
             \/ BeginLookup(n) \/ ShortList(n) \/ BeginRound(n) \/ Ask(n) \/ HearNothing(n)
             \/ EndRound(n)
             \/ FinishLookup(n) \/ BootStep(n)
      PROVE  UNCHANGED peers
  BY <1>5 DEF BeginLookup, ShortList, BeginRound, Ask, HearNothing, EndRound, FinishLookup,
              BootStep,
              PingSeed, SeedAnswers, EndPings, BootRound, BootAsk, NodeAnswers, BootTimesOut
<1>6. CASE UNCHANGED peers
  BY <1>0, <1>6 DEF PeersHold
<1>7. CASE Lose \/ UNCHANGED dhtVars
  BY <1>6, <1>7 DEF Lose, dhtVars
<1> QED
  BY <1>2, <1>3, <1>4, <1>5, <1>6, <1>7, Steps DEF LoopStep, LookupStep

-----------------------------------------------------------------------------
(* Bootstraps *)

LEMMA BootsStep ==
    ASSUME Bounded, TokensOwn, [Next]_vars
    PROVE  BootsHold'
<1>0. BootsHold /\ BootRounds \in Nat
  BY LimitsAssumption DEF Bounded
<1>1. ASSUME NEW n \in Nodes, NEW b, Booting(b), boot' = [boot EXCEPT ![n] = b]
      PROVE  BootsHold'
  BY <1>0, <1>1 DEF BootsHold
<1>2. ASSUME NEW n \in Nodes, BeginBoot(n)
      PROVE  BootsHold'
  <2> DEFINE b == [at |-> "ping", todo |-> Seeds[n], peer |-> {}, queried |-> {},
                   round |-> 0, news |-> FALSE]
  <2>1. Booting(b)
    BY <1>0 DEF Booting, BootFields
  <2>2. boot' = [boot EXCEPT ![n] = b]
    BY <1>2 DEF BeginBoot
  <2> HIDE DEF b
  <2> QED
    BY <1>1, <2>1, <2>2
<1>4. ASSUME NEW b, Booting(b), b.at = "find", b.round # BootRounds, NEW todo
      PROVE  Booting([b EXCEPT !.todo = todo, !.round = b.round + 1, !.news = FALSE])
  BY <1>0, <1>4 DEF Booting, BootFields
<1>5. Booting(Over)
  BY DEF Booting, Over
<1>7. ASSUME NEW n \in Nodes,
             \/ PingSeed(n) \/ SeedAnswers(n) \/ BootAsk(n) \/ NodeAnswers(n)
             \/ BootTimesOut(n)
      PROVE  BootsHold'
  <2> DEFINE b == boot[n]
  <2>1. Booting(b) /\ b.at \in {"ping", "find"}
    <3>1. b.at \in {"ping", "find"}
      BY <1>7 DEF PingSeed, SeedAnswers, BootAsk, NodeAnswers, BootTimesOut
    <3> QED
      BY <1>0, <3>1 DEF BootsHold
  <2>2. ASSUME NEW c, DOMAIN c = BootFields, c.at = b.at, c.round = b.round
        PROVE  Booting(c)
    BY <2>1, <2>2 DEF Booting
  <2>3. PICK c : /\ boot' = [boot EXCEPT ![n] = c]
                 /\ DOMAIN c = BootFields /\ c.at = b.at /\ c.round = b.round
    <3>1. DOMAIN b = BootFields
      BY <2>1 DEF Booting
    <3>2. CASE PingSeed(n)
      <4>1. PICK s : \/ boot' = [boot EXCEPT ![n] = [b EXCEPT !.todo = @ \ {s}, !.peer = {s}]]
                     \/ boot' = [boot EXCEPT ![n] = [b EXCEPT !.todo = @ \ {s}]]
        BY <3>2 DEF PingSeed
      <4> DEFINE c == [b EXCEPT !.todo = @ \ {s}, !.peer = {s}]
                 e == [b EXCEPT !.todo = @ \ {s}]
      <4>2. /\ DOMAIN c = BootFields /\ c.at = b.at /\ c.round = b.round
            /\ DOMAIN e = BootFields /\ e.at = b.at /\ e.round = b.round
        BY <3>1 DEF BootFields
      <4> HIDE DEF b
      <4> QED
        BY <4>1, <4>2
    <3>3. CASE SeedAnswers(n) \/ BootTimesOut(n)
      <4> DEFINE c == [b EXCEPT !.peer = {}]
      <4>1. boot' = [boot EXCEPT ![n] = c]
        BY <3>3 DEF SeedAnswers, BootTimesOut
      <4>2. DOMAIN c = BootFields /\ c.at = b.at /\ c.round = b.round
        BY <3>1 DEF BootFields
      <4> QED
        BY <4>1, <4>2
    <3>4. CASE BootAsk(n)
      <4>1. PICK e :
               LET asked == [b EXCEPT !.todo = @ \ {e}, !.queried = @ \cup {e.addr}]
               IN  \/ boot' = [boot EXCEPT ![n] = [asked EXCEPT !.peer = {e.addr}]]
                   \/ boot' = [boot EXCEPT ![n] = asked]
        BY <3>4, Zenon DEF BootAsk
      <4> DEFINE c == [b EXCEPT !.todo = @ \ {e}, !.queried = @ \cup {e.addr}]
                 f == [c EXCEPT !.peer = {e.addr}]
      <4>2. /\ DOMAIN c = BootFields /\ c.at = b.at /\ c.round = b.round
            /\ DOMAIN f = BootFields /\ f.at = b.at /\ f.round = b.round
        BY <3>1 DEF BootFields
      <4>3. boot' = [boot EXCEPT ![n] = f] \/ boot' = [boot EXCEPT ![n] = c]
        BY <4>1
      <4> HIDE DEF b, c, f
      <4> QED
        BY <4>2, <4>3
    <3>5. CASE NodeAnswers(n)
      <4>1. PICK nodes :
               boot' = [boot EXCEPT ![n] = [b EXCEPT !.peer = {}, !.news = @ \/ nodes # {}]]
        BY <3>5, Zenon DEF NodeAnswers
      <4> DEFINE c == [b EXCEPT !.peer = {}, !.news = @ \/ nodes # {}]
      <4>2. DOMAIN c = BootFields /\ c.at = b.at /\ c.round = b.round
        BY <3>1 DEF BootFields
      <4> HIDE DEF b
      <4> QED
        BY <4>1, <4>2
    <3> QED
      BY <1>7, <3>2, <3>3, <3>4, <3>5
  <2> QED
    BY <1>1, <2>2, <2>3
<1>8. ASSUME NEW n \in Nodes, EndPings(n)
      PROVE  BootsHold'
  <2> DEFINE c == [boot[n] EXCEPT !.at = "find"]
  <2>1. Booting(boot[n]) /\ boot[n].at = "ping"
    BY <1>0, <1>8 DEF BootsHold, EndPings
  <2>2. Booting(c)
    BY <2>1 DEF Booting, BootFields
  <2>3. boot' = [boot EXCEPT ![n] = c] \/ boot' = [boot EXCEPT ![n] = Over]
    BY <1>8 DEF EndPings
  <2> HIDE DEF c
  <2> QED
    BY <1>1, <1>5, <2>2, <2>3
<1>9. ASSUME NEW n \in Nodes, BootRound(n)
      PROVE  BootsHold'
  <2>1. Booting(boot[n]) /\ boot[n].at = "find"
    BY <1>0, <1>9 DEF BootsHold, BootRound
  <2>2. \/ boot' = [boot EXCEPT ![n] = Over]
        \/ /\ boot[n].round # BootRounds
           /\ \E todo : boot' = [boot EXCEPT ![n] =
                [boot[n] EXCEPT !.todo = todo, !.round = boot[n].round + 1, !.news = FALSE]]
    BY <1>9 DEF BootRound
  <2>3. ASSUME boot[n].round # BootRounds, NEW todo,
               boot' = [boot EXCEPT ![n] =
                [boot[n] EXCEPT !.todo = todo, !.round = boot[n].round + 1, !.news = FALSE]]
        PROVE  BootsHold'
    <3> DEFINE c == [boot[n] EXCEPT !.todo = todo, !.round = boot[n].round + 1, !.news = FALSE]
    <3>1. Booting(c)
      BY <1>4, <2>1, <2>3
    <3>2. boot' = [boot EXCEPT ![n] = c]
      BY <2>3
    <3> HIDE DEF c
    <3> QED
      BY <1>1, <3>1, <3>2
  <2> QED
    BY <1>1, <1>5, <2>2, <2>3
<1>10. ASSUME NEW n \in Nodes,
             \/ LoopStep(n) \/ Receive(n) \/ LoopFails(n) \/ BeginRefresh(n) \/ LookupStep(n)
             \/ Elapse(n) \/ Stop(n) \/ AnnounceSelf(n) \/ SendAnnounce(n) \/ SearchStep(n)
             \/ (\E m \in Nodes : Introduce(n, m))
      PROVE  UNCHANGED boot
  <2>1. CASE LookupStep(n)
    BY <2>1 DEF LookupStep, BeginLookup, ShortList, BeginRound, Ask, Hear, HearNothing,
                EndRound, FinishLookup
  <2>2. CASE LoopStep(n)
    BY <2>2 DEF LoopStep, HandleRequest, HandleAnnounce, Reject, Discard, AskRefresh,
                RefreshAnswered, EndRefresh
  <2> QED
    BY <1>10, <2>1, <2>2 DEF Receive, LoopFails, BeginRefresh, Elapse, Stop, AnnounceSelf,
                             SendAnnounce, SearchStep,
                             BeginSearch, EndSearch, Introduce, dhtVars
<1>11. CASE UNCHANGED boot
  BY <1>0, <1>11 DEF BootsHold
<1>12. CASE Lose \/ UNCHANGED dhtVars
  BY <1>11, <1>12 DEF Lose, dhtVars
<1> QED
  BY <1>2, <1>7, <1>8, <1>9, <1>10, <1>11, <1>12, Steps DEF BootStep

-----------------------------------------------------------------------------
(* Lookups *)

\* What a lookup does not change it keeps within its bounds.
LEMMA LookingOn ==
    ASSUME NEW l, Looking(l), l.at \in {"round", "ask", "wait", "finish"},
           NEW k, DOMAIN k = LookupFields, k.at \in {"round", "ask", "wait", "finish"},
           k.hash = l.hash, NodeSet(k.short), k.round \in 0..MaxRounds,
           k.at \in {"ask", "wait"} =>
              k.round # 0 /\ IsFiniteSet(k.todo) /\ Cardinality(k.todo) <= Alpha
    PROVE  Looking(k)
<1>1. k.hash \in Hashes
  BY DEF Looking
<1>2. k.round # 0 => k.round \in 1..MaxRounds
  BY LimitsAssumption
<1> QED
  BY <1>1, <1>2 DEF Looking

\* Nodes asked in a round are no more than Alpha.
LEMMA RoundOfAlpha ==
    ASSUME NEW S, IsFiniteSet(S), NEW target, NEW T \in Nearest(S, target, Alpha)
    PROVE  IsFiniteSet(T) /\ Cardinality(T) <= Alpha
<1>1. T \in SUBSET S /\ Cardinality(T) = Min({Alpha, Cardinality(S)})
  BY DEF Nearest
<1>2. Cardinality(S) \in Int /\ Alpha \in Int
  BY FS_CardinalityType, LimitsAssumption
<1> DEFINE c == Cardinality(S)
<1> HIDE DEF c
<1>3. Min({Alpha, c}) <= Alpha
  BY <1>2, MinOfTwo DEF c
<1> QED
  BY <1>1, <1>3, FS_Subset DEF c

LEMMA BeginLookupLooks ==
    ASSUME Bounded, NEW n \in Nodes, BeginLookup(n)
    PROVE  \E k : Looking(k) /\ lookup' = [lookup EXCEPT ![n] = k]
<1> DEFINE h == lookup[n].hash
           k == [at |-> "table", hash |-> h]
<1>1. h \in Hashes
  BY DEF BeginLookup, Bounded, LookupsHold, Looking
<1>2. \/ \E found : lookup' = [lookup EXCEPT ![n] = Found(found, {})]
      \/ lookup' = [lookup EXCEPT ![n] = k]
  BY DEF BeginLookup
<1> HIDE DEF h
<1>3. Looking(k)
  BY <1>1 DEF Looking
<1>4. \A found : Looking(Found(found, {}))
  BY DEF Looking, Found
<1> HIDE DEF k
<1> QED
  BY <1>2, <1>3, <1>4

LEMMA ShortListLooks ==
    ASSUME Bounded, NEW n \in Nodes, ShortList(n)
    PROVE  \E k : Looking(k) /\ lookup' = [lookup EXCEPT ![n] = k]
<1> DEFINE h == lookup[n].hash
           short == Infos(FindClosest(table[n], IdOf[n], h, K))
           k == [at |-> "round", hash |-> h, short |-> short,
                 queried |-> {}, todo |-> {}, round |-> 0,
                 closest |-> {}, news |-> FALSE, heard |-> {}]
<1>1. lookup[n].at = "table" /\ h \in Hashes
  BY DEF ShortList, Bounded, LookupsHold, Looking
<1>2. NodeSet(short)
  BY NamedNodes DEF Bounded, TablesHold
<1>3. \/ lookup' = [lookup EXCEPT ![n] = Found({}, {})]
      \/ lookup' = [lookup EXCEPT ![n] = k]
  BY DEF ShortList
<1> HIDE DEF h, short
<1>4. Looking(k)
  BY <1>1, <1>2, LimitsAssumption DEF Looking, LookupFields
<1>5. Looking(Found({}, {}))
  BY DEF Looking, Found
<1> HIDE DEF k
<1> QED
  BY <1>3, <1>4, <1>5

LEMMA BeginRoundLooks ==
    ASSUME Bounded, NEW n \in Nodes, BeginRound(n)
    PROVE  \E k : Looking(k) /\ lookup' = [lookup EXCEPT ![n] = k]
<1> DEFINE l == lookup[n]
           unasked == {e \in l.short : e.addr \notin l.queried}
<1>1. Looking(l) /\ l.at = "round"
  BY DEF BeginRound, Bounded, LookupsHold
<1>2. DOMAIN l = LookupFields /\ NodeSet(l.short) /\ l.round \in 0..MaxRounds
  BY <1>1 DEF Looking
<1>3. IsFiniteSet(unasked)
  BY <1>2, FS_Subset DEF NodeSet
<1>4. PICK todo \in Nearest(unasked, l.hash, Alpha) :
         lookup' = [lookup EXCEPT ![n] =
            IF l.round = MaxRounds \/ todo = {} THEN [l EXCEPT !.at = "finish"]
            ELSE [l EXCEPT !.at = "ask", !.todo = todo, !.news = FALSE,
                           !.round = @ + 1]]
  BY DEF BeginRound
<1>5. IsFiniteSet(todo) /\ Cardinality(todo) <= Alpha
  BY <1>3, RoundOfAlpha
<1> DEFINE k == [l EXCEPT !.at = "finish"]
           j == [l EXCEPT !.at = "ask", !.todo = todo, !.news = FALSE, !.round = l.round + 1]
<1> HIDE DEF l, unasked
<1>6. Looking(k)
  <2>1. /\ DOMAIN k = LookupFields /\ k.at = "finish" /\ k.hash = l.hash
        /\ k.short = l.short /\ k.round = l.round
    BY <1>2 DEF LookupFields
  <2> HIDE DEF k
  <2> QED
    BY <1>1, <1>2, <2>1, LookingOn
<1>7. l.round # MaxRounds => Looking(j)
  <2> HAVE l.round # MaxRounds
  <2>1. /\ DOMAIN j = LookupFields /\ j.at = "ask" /\ j.hash = l.hash /\ j.todo = todo
        /\ j.short = l.short /\ j.round = l.round + 1
    BY <1>2 DEF LookupFields
  <2>2. l.round + 1 \in 0..MaxRounds /\ l.round + 1 # 0
    BY <1>2, LimitsAssumption
  <2> HIDE DEF j
  <2> QED
    BY <1>1, <1>2, <1>5, <2>1, <2>2, LookingOn
<1>8. \/ lookup' = [lookup EXCEPT ![n] = k]
      \/ l.round # MaxRounds /\ lookup' = [lookup EXCEPT ![n] = j]
  BY <1>4
<1> HIDE DEF k, j
<1> QED
  BY <1>6, <1>7, <1>8

LEMMA AskLooks ==
    ASSUME Bounded, NEW n \in Nodes, Ask(n)
    PROVE  \E k : Looking(k) /\ lookup' = [lookup EXCEPT ![n] = k]
<1> DEFINE l == lookup[n]
<1>1. Looking(l) /\ l.at = "ask"
  BY DEF Ask, Bounded, LookupsHold
<1>2. /\ DOMAIN l = LookupFields /\ NodeSet(l.short)
      /\ l.round \in 0..MaxRounds /\ l.round \in 1..MaxRounds
      /\ IsFiniteSet(l.todo) /\ Cardinality(l.todo) <= Alpha
  BY <1>1 DEF Looking
<1>3. PICK e :
         LET asked == [l EXCEPT !.todo = @ \ {e}, !.queried = @ \cup {e.addr}]
         IN  \/ lookup' = [lookup EXCEPT ![n] = [asked EXCEPT !.at = "wait"]]
             \/ lookup' = [lookup EXCEPT ![n] = asked]
  BY Zenon DEF Ask
<1> DEFINE k == [l EXCEPT !.todo = @ \ {e}, !.queried = @ \cup {e.addr}]
           j == [k EXCEPT !.at = "wait"]
           T == l.todo
<1> HIDE DEF l
<1>4. IsFiniteSet(T \ {e}) /\ Cardinality(T \ {e}) <= Alpha
  <2>1. IsFiniteSet(T) /\ Cardinality(T) <= Alpha
    BY <1>2
  <2> HIDE DEF T
  <2>2. IsFiniteSet(T \ {e}) /\ Cardinality(T \ {e}) <= Cardinality(T)
    BY <2>1, FS_Subset
  <2>3. Cardinality(T \ {e}) \in Int /\ Cardinality(T) \in Int /\ Alpha \in Int
    BY <2>1, <2>2, FS_CardinalityType, LimitsAssumption
  <2> QED
    BY <2>1, <2>2, <2>3
<1>5. /\ DOMAIN k = LookupFields /\ k.at = "ask" /\ k.hash = l.hash /\ k.todo = T \ {e}
      /\ k.short = l.short /\ k.round = l.round
      /\ DOMAIN j = LookupFields /\ j.at = "wait" /\ j.hash = l.hash /\ j.todo = T \ {e}
      /\ j.short = l.short /\ j.round = l.round
  BY <1>1, <1>2 DEF LookupFields
<1>6. lookup' = [lookup EXCEPT ![n] = j] \/ lookup' = [lookup EXCEPT ![n] = k]
  BY <1>3 DEF l
<1> HIDE DEF k, j, T
<1>7. Looking(k) /\ Looking(j)
  BY <1>1, <1>2, <1>4, <1>5, LookingOn
<1> QED
  BY <1>6, <1>7

LEMMA HearLooks ==
    ASSUME Bounded, TokensOwn, NEW n \in Nodes, Hear(n)
    PROVE  \E k : Looking(k) /\ lookup' = [lookup EXCEPT ![n] = k]
<1> DEFINE l == lookup[n]
<1>1. Looking(l) /\ l.at = "wait"
  BY DEF Hear, Bounded, LookupsHold
<1>2. /\ DOMAIN l = LookupFields /\ NodeSet(l.short)
      /\ l.round \in 0..MaxRounds /\ l.round \in 1..MaxRounds
      /\ IsFiniteSet(l.todo) /\ Cardinality(l.todo) <= Alpha
  BY <1>1 DEF Looking
<1> DEFINE Heeds(m, heard) ==
         \/ \E found : lookup' = [lookup EXCEPT ![n] = Found(found, heard)]
         \/ /\ m.kind \in {"NodesFound", "FindNodeResponse"}
            /\ lookup' = [lookup EXCEPT ![n] =
                 [l EXCEPT !.at = "ask", !.heard = heard,
                           !.short = @ \cup New(l, m.nodes),
                           !.news = @ \/ New(l, m.nodes) # {}]]
         \/ lookup' = [lookup EXCEPT ![n] = [l EXCEPT !.at = "ask", !.heard = heard]]
<1>3. PICK d \in dgrams : \E m \in Decode(d.msg) : \E heard : Heeds(m, heard)
  BY Zenon DEF Hear
<1>4. PICK m \in Decode(d.msg) : \E heard : Heeds(m, heard)
  BY <1>3
<1>5. PICK heard : Heeds(m, heard)
  BY <1>4
<1> HIDE DEF l
<1>6. \A found : Looking(Found(found, heard))
  BY DEF Looking, Found
<1>7. m.kind \in {"NodesFound", "FindNodeResponse"} => NodeSet(m.nodes)
  BY DecodedShaped DEF Bounded, DgramsHold, Shaped
<1> DEFINE j == [l EXCEPT !.at = "ask", !.heard = heard]
           k == [l EXCEPT !.at = "ask", !.heard = heard,
                          !.short = @ \cup New(l, m.nodes),
                          !.news = @ \/ New(l, m.nodes) # {}]
<1>8. /\ DOMAIN k = LookupFields /\ k.at = "ask" /\ k.hash = l.hash /\ k.todo = l.todo
      /\ k.short = l.short \cup New(l, m.nodes) /\ k.round = l.round
      /\ DOMAIN j = LookupFields /\ j.at = "ask" /\ j.hash = l.hash /\ j.todo = l.todo
      /\ j.short = l.short /\ j.round = l.round
  BY <1>2 DEF LookupFields
<1>9. m.kind \in {"NodesFound", "FindNodeResponse"} => NodeSet(l.short \cup New(l, m.nodes))
  <2> DEFINE S == l.short
             T == New(l, m.nodes)
  <2> HAVE m.kind \in {"NodesFound", "FindNodeResponse"}
  <2>1. NodeSet(T)
    BY <1>7, FS_Subset DEF New, NodeSet
  <2>2. NodeSet(S)
    BY <1>2
  <2> HIDE DEF S, T
  <2>3. NodeSet(S \cup T)
    BY <2>1, <2>2, FS_Union DEF NodeSet
  <2> QED
    BY <2>3 DEF S, T
<1>10. \/ \E found : lookup' = [lookup EXCEPT ![n] = Found(found, heard)]
       \/ /\ m.kind \in {"NodesFound", "FindNodeResponse"}
          /\ lookup' = [lookup EXCEPT ![n] = k]
       \/ lookup' = [lookup EXCEPT ![n] = j]
  BY <1>5
<1> HIDE DEF k, j
<1>11. Looking(j)
  BY <1>1, <1>2, <1>8, LookingOn
<1>12. m.kind \in {"NodesFound", "FindNodeResponse"} => Looking(k)
  <2> HAVE m.kind \in {"NodesFound", "FindNodeResponse"}
  <2>1. NodeSet(k.short)
    BY <1>8, <1>9
  <2>2. DOMAIN k = LookupFields /\ k.at = "ask" /\ k.hash = l.hash /\ k.todo = l.todo
        /\ k.round = l.round
    BY <1>8
  <2> QED
    BY <1>1, <1>2, <2>1, <2>2, LookingOn
<1> QED
  BY <1>6, <1>10, <1>11, <1>12

LEMMA EndRoundLooks ==
    ASSUME Bounded, NEW n \in Nodes, EndRound(n) \/ HearNothing(n)
    PROVE  \E k : Looking(k) /\ lookup' = [lookup EXCEPT ![n] = k]
<1> DEFINE l == lookup[n]
<1>1. Looking(l) /\ l.at \in {"ask", "wait"}
  BY DEF EndRound, HearNothing, Bounded, LookupsHold
<1>2. /\ DOMAIN l = LookupFields /\ NodeSet(l.short)
      /\ l.round \in 0..MaxRounds /\ l.round \in 1..MaxRounds
      /\ IsFiniteSet(l.todo) /\ Cardinality(l.todo) <= Alpha
  BY <1>1 DEF Looking
<1>3. PICK at \in {"finish", "round", "ask"} : \E closest :
         lookup' = [lookup EXCEPT ![n] = [l EXCEPT !.closest = closest, !.at = at]]
  <2>1. CASE EndRound(n)
    <3> DEFINE c == {(CHOOSE e \in Closest(l.short, l.hash, 1) : TRUE).id}
               at == IF l.closest = c \/ ~l.news THEN "finish" ELSE "round"
    <3>1. lookup' = [lookup EXCEPT ![n] = [l EXCEPT !.closest = c, !.at = at]]
      BY <2>1, Zenon DEF EndRound
    <3> HIDE DEF c
    <3>2. at \in {"finish", "round", "ask"}
      OBVIOUS
    <3> HIDE DEF at
    <3> QED
      BY <3>1, <3>2
  <2>2. CASE HearNothing(n)
    <3>1. lookup' = [lookup EXCEPT ![n] = [l EXCEPT !.at = "ask"]]
      BY <2>2 DEF HearNothing
    <3>2. [l EXCEPT !.at = "ask"] = [l EXCEPT !.closest = l.closest, !.at = "ask"]
      BY <1>2 DEF LookupFields
    <3> QED
      BY <3>1, <3>2
  <2> QED
    BY <2>1, <2>2
<1>4. PICK closest :
         lookup' = [lookup EXCEPT ![n] = [l EXCEPT !.closest = closest, !.at = at]]
  BY <1>3
<1> DEFINE k == [l EXCEPT !.closest = closest, !.at = at]
<1> HIDE DEF l
<1>5. /\ DOMAIN k = LookupFields /\ k.at = at /\ k.hash = l.hash /\ k.todo = l.todo
      /\ k.short = l.short /\ k.round = l.round
  BY <1>2 DEF LookupFields
<1>6. lookup' = [lookup EXCEPT ![n] = k]
  BY <1>4 DEF l
<1> HIDE DEF k
<1>7. Looking(k)
  BY <1>1, <1>2, <1>5, LookingOn
<1> QED
  BY <1>6, <1>7

LEMMA LookupsStep ==
    ASSUME Bounded, TokensOwn, [Next]_vars
    PROVE  LookupsHold'
<1>0. LookupsHold
  BY DEF Bounded
<1>1. ASSUME NEW n \in Nodes, \E k : Looking(k) /\ lookup' = [lookup EXCEPT ![n] = k]
      PROVE  LookupsHold'
  BY <1>0, <1>1 DEF LookupsHold
<1>2. ASSUME NEW n \in Nodes, LookupStep(n)
      PROVE  LookupsHold'
  <2>1. CASE FinishLookup(n)
    <3>1. lookup' = [lookup EXCEPT ![n] = Found({}, lookup[n].heard)]
      BY <2>1 DEF FinishLookup
    <3>2. Looking(Found({}, lookup[n].heard))
      BY DEF Looking, Found
    <3> QED
      BY <1>1, <3>1, <3>2
  <2>2. CASE ~FinishLookup(n)
    BY <1>1, <1>2, <2>2, BeginLookupLooks, ShortListLooks, BeginRoundLooks, AskLooks,
       HearLooks, EndRoundLooks DEF LookupStep
  <2> QED
    BY <2>1, <2>2
<1>3. ASSUME NEW n \in Nodes, SearchStep(n)
      PROVE  LookupsHold'
  <2>1. CASE BeginSearch(n)
    <3>1. PICK h \in Hashes : lookup' = [lookup EXCEPT ![n] = [at |-> "start", hash |-> h]]
      BY <2>1 DEF BeginSearch
    <3>2. Looking([at |-> "start", hash |-> h])
      BY DEF Looking
    <3> QED
      BY <1>1, <3>1, <3>2
  <2>2. CASE EndSearch(n)
    BY <1>0, <2>2 DEF EndSearch, dhtVars, LookupsHold
  <2> QED
    BY <1>3, <2>1, <2>2 DEF SearchStep
<1>4. ASSUME NEW n \in Nodes,
             \/ LoopStep(n) \/ Receive(n) \/ LoopFails(n) \/ BeginRefresh(n) \/ BootStep(n)
             \/ BeginBoot(n)
             \/ Elapse(n) \/ Stop(n) \/ AnnounceSelf(n) \/ SendAnnounce(n)
             \/ (\E m \in Nodes : Introduce(n, m))
      PROVE  UNCHANGED lookup
  <2>1. CASE BootStep(n)
    BY <2>1 DEF BootStep, PingSeed, SeedAnswers, EndPings, BootRound, BootAsk, NodeAnswers,
                BootTimesOut
  <2>2. CASE LoopStep(n)
    BY <2>2 DEF LoopStep, HandleRequest, HandleAnnounce, Reject, Discard, AskRefresh,
                RefreshAnswered, EndRefresh
  <2> QED
    BY <1>4, <2>1, <2>2 DEF Receive, LoopFails, BeginRefresh, BeginBoot, Elapse, Stop,
                            AnnounceSelf, SendAnnounce,
                            Introduce
<1>5. CASE UNCHANGED lookup
  BY <1>0, <1>5 DEF LookupsHold
<1>6. CASE Lose \/ UNCHANGED dhtVars
  BY <1>5, <1>6 DEF Lose, dhtVars
<1> QED
  BY <1>2, <1>3, <1>4, <1>5, <1>6, Steps

-----------------------------------------------------------------------------
(* All of it *)

\* Only a stop, the clock and the end of a refresh change the flags.
LEMMA FlagsStep ==
    ASSUME Bounded, TokensOwn, [Next]_vars
    PROVE  stopped' \in [Nodes -> BOOLEAN] /\ due' \in [Nodes -> BOOLEAN]
<1>0. stopped \in [Nodes -> BOOLEAN] /\ due \in [Nodes -> BOOLEAN]
  BY DEF Bounded
<1>1. ASSUME NEW n \in Nodes, LoopStep(n) \/ Receive(n) \/ LoopFails(n) \/ BeginRefresh(n)
      PROVE  UNCHANGED stopped /\ (UNCHANGED due \/ due' = [due EXCEPT ![n] = FALSE])
  BY <1>1 DEF LoopStep, HandleRequest, HandleAnnounce, Reject, Discard, AskRefresh,
              RefreshAnswered, EndRefresh, Receive, LoopFails, BeginRefresh
<1>2. ASSUME NEW n \in Nodes, LookupStep(n)
      PROVE  UNCHANGED <<stopped, due>>
  BY <1>2 DEF LookupStep, BeginLookup, ShortList, BeginRound, Ask, Hear, HearNothing, EndRound,
              FinishLookup
<1>3. ASSUME NEW n \in Nodes, BootStep(n) \/ BeginBoot(n)
      PROVE  UNCHANGED <<stopped, due>>
  BY <1>3 DEF BootStep, PingSeed, SeedAnswers, EndPings, BootRound, BootAsk, NodeAnswers,
              BootTimesOut, BeginBoot
<1>4. ASSUME NEW n \in Nodes,
             AnnounceSelf(n) \/ SendAnnounce(n) \/ SearchStep(n)
             \/ \E m \in Nodes : Introduce(n, m)
      PROVE  UNCHANGED <<stopped, due>>
  BY <1>4 DEF AnnounceSelf, SendAnnounce, SearchStep, BeginSearch, EndSearch, Introduce,
              dhtVars
<1>5. ASSUME NEW n \in Nodes, Elapse(n) \/ Stop(n)
      PROVE  \/ UNCHANGED stopped /\ due' = [due EXCEPT ![n] = TRUE]
             \/ UNCHANGED due /\ stopped' = [stopped EXCEPT ![n] = TRUE]
  BY <1>5 DEF Elapse, Stop
<1>6. CASE Lose \/ UNCHANGED dhtVars
  BY <1>0, <1>6 DEF Lose, dhtVars
<1>7. ASSUME NEW n \in Nodes, UNCHANGED <<stopped, due>>
      PROVE  stopped' \in [Nodes -> BOOLEAN] /\ due' \in [Nodes -> BOOLEAN]
  BY <1>0, <1>7
<1>8. ASSUME NEW n \in Nodes, LoopStep(n) \/ Receive(n) \/ LoopFails(n) \/ BeginRefresh(n)
      PROVE  stopped' \in [Nodes -> BOOLEAN] /\ due' \in [Nodes -> BOOLEAN]
  BY <1>0, <1>1, <1>8
<1>9. ASSUME NEW n \in Nodes, Elapse(n) \/ Stop(n)
      PROVE  stopped' \in [Nodes -> BOOLEAN] /\ due' \in [Nodes -> BOOLEAN]
  BY <1>0, <1>5, <1>9
<1> QED
  BY <1>2, <1>3, <1>4, <1>6, <1>7, <1>8, <1>9, Steps

\* Only the announcement itself changes what it has left.
LEMMA AnnouncesStep ==
    ASSUME Bounded, [Next]_vars
    PROVE  AnnouncesHold'
<1>0. AnnouncesHold
  BY DEF Bounded
<1>1. ASSUME NEW n \in Nodes, LoopStep(n) \/ Receive(n) \/ LoopFails(n) \/ BeginRefresh(n)
      PROVE  UNCHANGED announcing
  BY <1>1 DEF LoopStep, HandleRequest, HandleAnnounce, Reject, Discard, AskRefresh,
              RefreshAnswered, EndRefresh, Receive, LoopFails, BeginRefresh
<1>2. ASSUME NEW n \in Nodes, LookupStep(n)
      PROVE  UNCHANGED announcing
  BY <1>2 DEF LookupStep, BeginLookup, ShortList, BeginRound, Ask, Hear, HearNothing, EndRound,
              FinishLookup
<1>3. ASSUME NEW n \in Nodes, BootStep(n) \/ BeginBoot(n)
      PROVE  UNCHANGED announcing
  BY <1>3 DEF BootStep, PingSeed, SeedAnswers, EndPings, BootRound, BootAsk, NodeAnswers,
              BootTimesOut, BeginBoot
<1>4. ASSUME NEW n \in Nodes,
             Elapse(n) \/ Stop(n) \/ SearchStep(n) \/ \E m \in Nodes : Introduce(n, m)
      PROVE  UNCHANGED announcing
  BY <1>4 DEF Elapse, Stop, SearchStep, BeginSearch, EndSearch, Introduce, dhtVars
<1>5. CASE UNCHANGED announcing
  BY <1>0, <1>5 DEF AnnouncesHold
<1>6. CASE Lose \/ UNCHANGED dhtVars
  BY <1>5, <1>6 DEF Lose, dhtVars
<1>7. ASSUME NEW n \in Nodes, AnnounceSelf(n)
      PROVE  AnnouncesHold'
  <2>1. PICK h, near : announcing' = [announcing EXCEPT ![n] =
                         [at |-> "announce", hash |-> h, todo |-> near]]
    BY <1>7, Zenon DEF AnnounceSelf
  <2> QED
    BY <1>0, <2>1 DEF AnnouncesHold
<1>8. ASSUME NEW n \in Nodes, SendAnnounce(n)
      PROVE  AnnouncesHold'
  <2> DEFINE a == announcing[n]
  <2>1. \/ announcing' = [announcing EXCEPT ![n] = Idle]
        \/ \E e : announcing' = [announcing EXCEPT ![n] = [a EXCEPT !.todo = @ \ {e}]]
    BY <1>8 DEF SendAnnounce
  <2>2. CASE announcing' = [announcing EXCEPT ![n] = Idle]
    BY <1>0, <2>2 DEF AnnouncesHold, Idle
  <2>3. ASSUME NEW e, announcing' = [announcing EXCEPT ![n] = [a EXCEPT !.todo = @ \ {e}]]
        PROVE  AnnouncesHold'
    <3> DEFINE b == [a EXCEPT !.todo = @ \ {e}]
    <3>1. "at" \in DOMAIN b /\ b.at \in {"idle", "announce"}
      BY <1>0 DEF AnnouncesHold
    <3> HIDE DEF b
    <3> QED
      BY <1>0, <2>3, <3>1 DEF AnnouncesHold, b
  <2> QED
    BY <2>1, <2>2, <2>3
<1> QED
  BY <1>1, <1>2, <1>3, <1>4, <1>5, <1>6, <1>7, <1>8, Steps

LEMMA BoundedStep == TokensOwn /\ Bounded /\ [Next]_vars => Bounded'
<1> SUFFICES ASSUME TokensOwn, Bounded, [Next]_vars
             PROVE  Bounded'
  OBVIOUS
<1>1. TablesHold' /\ PeersHold' /\ LoopsHold'
  BY TablesStep, PeersStep, LoopsStep
<1>2. BootsHold' /\ LookupsHold' /\ DgramsHold' /\ AnnouncesHold'
  BY BootsStep, LookupsStep, DgramsStep, AnnouncesStep
<1> QED
  BY <1>1, <1>2, FlagsStep DEF Bounded

LEMMA BoundedAtFirst == Init => Bounded
<1> SUFFICES ASSUME Init
             PROVE  Bounded
  OBVIOUS
<1>1. TablesHold
  <2>1. NewTable \in Tables(Addresses)
    BY NewTableHolds
  <2> QED
    BY <2>1 DEF Init, DhtInit, TablesHold
<1>2. PeersHold
  BY LimitsAssumption DEF Init, DhtInit, PeersHold
<1>3. LoopsHold /\ BootsHold /\ LookupsHold
  BY DEF Init, DhtInit, LoopsHold, BootsHold, LookupsHold, Busy, Booting, Looking, Idle
<1>4. DgramsHold
  BY FS_EmptySet, LimitsAssumption DEF Init, DhtInit, DgramsHold
<1>5. AnnouncesHold
  BY DEF Init, DhtInit, AnnouncesHold, Idle
<1> QED
  BY <1>1, <1>2, <1>3, <1>4, <1>5 DEF Init, DhtInit, Bounded

\* The bounds the code keeps, for any nodes and limits: a bucket has no more
\* than K entries and no id twice (insert of routing.rs), a hash no more than
\* MaxPeersPerHash peers (handle_message and iterative_find_peers of krpc.rs),
\* a lookup no more than MaxRounds rounds of no more than Alpha nodes, and a
\* bootstrap no more than BootRounds, whatever the datagrams are taken for.
THEOREM BoundsTheorem == Spec => []TypeOK
<1>1. Bounded => TypeOK
  <2> SUFFICES ASSUME Bounded
               PROVE  TypeOK
    OBVIOUS
  <2>1. ASSUME NEW n \in Nodes, NEW i \in DOMAIN table[n]
        PROVE  /\ Len(table[n][i]) <= K
               /\ \A j, k \in DOMAIN table[n][i] :
                     table[n][i][j].id = table[n][i][k].id => j = k
    <3>1. table[n][i] \in Buckets(Addresses)
      BY DEF Bounded, TablesHold, Tables
    <3> QED
      BY <3>1 DEF Buckets, UniqueIds
  <2>2. \A n \in Nodes : \A h \in Hashes : Len(peers[n][h]) <= MaxPeersPerHash
    BY DEF Bounded, PeersHold
  <2>3. ASSUME NEW n \in Nodes
        PROVE  /\ loop[n].at \in {"idle", "handle", "announced", "refresh", "refreshing",
                                  "over"}
               /\ boot[n].at \in {"idle", "ping", "find", "over"}
               /\ boot[n].at = "find" => boot[n].round <= BootRounds
    BY DEF Bounded, LoopsHold, Busy, BootsHold, Booting
  <2>4. ASSUME NEW n \in Nodes
        PROVE  /\ lookup[n].at \in {"idle", "start", "table", "round", "ask", "wait",
                                    "finish", "done"}
               /\ announcing[n].at \in {"idle", "announce"}
               /\ lookup[n].at \in {"ask", "wait"} =>
                    /\ lookup[n].round \in 1..MaxRounds
                    /\ Cardinality(lookup[n].todo) <= Alpha
    BY DEF Bounded, LookupsHold, Looking, AnnouncesHold
  <2>5. /\ stopped \in [Nodes -> BOOLEAN] /\ due \in [Nodes -> BOOLEAN]
        /\ Cardinality(dgrams) <= MaxDgrams
    BY DEF Bounded, DgramsHold
  <2> QED
    BY <2>1, <2>2, <2>3, <2>4, <2>5 DEF TypeOK
<1> QED
  BY TokensAtFirst, TokensStep, BoundedAtFirst, BoundedStep, <1>1, PTL DEF Spec

-----------------------------------------------------------------------------
(* Answers are not answered *)

\* A loop that has an answer in its hands sends nothing.
LEMMA AnswerEnds ==
    ASSUME Bounded, TokensOwn, NEW n \in Nodes,
           loop[n].at = "handle", IsResponse(loop[n].sent),
           NEW p \in Nodes, LoopStep(p) \/ Receive(p) \/ LoopFails(p) \/ BeginRefresh(p)
    PROVE  loop'[n] = loop[n] \/ dgrams' \subseteq dgrams
<1> DEFINE m == loop[n].msg
<1>1. CASE p # n
  BY <1>1 DEF LoopStep, Receive, LoopFails, BeginRefresh, HandleRequest, HandleAnnounce,
              Reject,
              Discard, AskRefresh, RefreshAnswered, EndRefresh, TokensOwn
<1>2. CASE p = n
  <2>1. m.kind \in AnswerKinds \cup {"Unreadable"}
    BY DEF Bounded, LoopsHold, Busy
  <2>2. ~HandleRequest(n) /\ ~HandleAnnounce(n)
    BY <2>1 DEF HandleRequest, HandleAnnounce, AnswerKinds
  <2>3. ASSUME Reject(n)
        PROVE  dgrams' \subseteq dgrams
    <3>1. IsResponse(m)
      BY <2>1, <2>3 DEF Reject, AnswerKinds, IsResponse
    <3>2. {Datagram(n, loop[n].from, r) : r \in ErrorResponse(m)} = {}
      BY <3>1 DEF ErrorResponse
    <3>3. dgrams' = Sending({})
      BY <2>3, <3>2 DEF Reject
    <3> QED
      BY <3>3 DEF Sending
  <2>4. Discard(n) => dgrams' \subseteq dgrams
    BY DEF Discard
  <2>5. /\ ~Receive(n) /\ ~LoopFails(n) /\ ~BeginRefresh(n)
        /\ ~AskRefresh(n) /\ ~RefreshAnswered(n) /\ ~EndRefresh(n)
    BY DEF Receive, LoopFails, BeginRefresh, AskRefresh, RefreshAnswered, EndRefresh
  <2> QED
    BY <1>2, <2>2, <2>3, <2>4, <2>5 DEF LoopStep
<1> QED
  BY <1>1, <1>2

\* handle_message of krpc.rs: a datagram that was sent as an answer is never
\* answered, for any nodes and any loss or order, though decode may take it for
\* another one: it never takes it for a request, because only the socket of a
\* bootstrap pings, and no other answer is as long as a request.
THEOREM AnswersTheorem == Spec => AnswersNotAnswered
<1> DEFINE Silent == \A n \in Nodes :
              loop[n].at = "handle" /\ loop[n] # loop'[n] /\ IsResponse(loop[n].sent)
                 => dgrams' \subseteq dgrams
<1>1. TokensOwn /\ Bounded /\ [Next]_vars => [Silent]_vars
  <2> SUFFICES ASSUME TokensOwn, Bounded, [Next]_vars
               PROVE  Silent
    OBVIOUS
  <2> SUFFICES ASSUME NEW n \in Nodes, loop[n].at = "handle", loop[n] # loop'[n],
                      IsResponse(loop[n].sent)
               PROVE  dgrams' \subseteq dgrams
    OBVIOUS
  <2>1. ASSUME NEW p \in Nodes, LoopStep(p) \/ Receive(p) \/ LoopFails(p) \/ BeginRefresh(p)
        PROVE  dgrams' \subseteq dgrams
    BY <2>1, AnswerEnds
  <2>2. ASSUME NEW p \in Nodes, LookupStep(p) \/ BootStep(p)
        PROVE  UNCHANGED loop
    BY <2>2 DEF LookupStep, BeginLookup, ShortList, BeginRound, Ask, Hear, HearNothing,
                EndRound,
                FinishLookup, BootStep, PingSeed, SeedAnswers, EndPings, BootRound,
                BootAsk, NodeAnswers, BootTimesOut
  <2>3. ASSUME NEW p \in Nodes,
               \/ BeginBoot(p) \/ Elapse(p) \/ Stop(p) \/ AnnounceSelf(p)
               \/ SendAnnounce(p) \/ SearchStep(p)
               \/ \E m \in Nodes : Introduce(p, m)
        PROVE  UNCHANGED loop
    BY <2>3 DEF BeginBoot, Elapse, Stop, AnnounceSelf, SendAnnounce, SearchStep, BeginSearch,
                EndSearch,
                Introduce, dhtVars
  <2>4. CASE Lose \/ UNCHANGED dhtVars
    BY <2>4 DEF Lose, dhtVars
  <2> QED
    BY <2>1, <2>2, <2>3, <2>4, Steps
<1> QED
  BY TokensAtFirst, TokensStep, BoundedAtFirst, BoundedStep, <1>1, PTL
     DEF Spec, AnswersNotAnswered

-----------------------------------------------------------------------------
(* The client of the trackers, for any trackers and clients, and any number *)
(* of attempts. *)

\* A round under way: the tracker asked, those left, and what has failed.
Rounds ==
    [at: {"ask", "sleep"}, op: {"announce", "scrape"}, url: Trackers,
     left: SUBSET Trackers, attempt: 1..Attempts, failed: [Trackers -> Nat]]

\* The failures of a round are those of its attempts: none of the trackers
\* left, all of those behind, and so far those of the one that is asked.
Counted(t) ==
    /\ t \in Rounds
    /\ t.url \notin t.left
    /\ \A u \in t.left : t.failed[u] = 0
    /\ \A u \in Trackers \ (t.left \cup {t.url}) : t.failed[u] = Attempts
    /\ t.at = "ask" => t.failed[t.url] = t.attempt - 1
    /\ t.at = "sleep" => t.failed[t.url] = t.attempt /\ t.attempt < Attempts

CallKept(t) ==
    \/ t.at = "idle"
    \/ Counted(t)
    \/ t.at = "done" /\ (~t.ok => \A u \in Trackers : t.failed[u] = Attempts)

RoundsKept ==
    /\ DOMAIN tracker = Clients
    /\ \A c \in Clients : CallKept(tracker[c])

-----------------------------------------------------------------------------

\* A call that is over says why: when it failed, every tracker had failed as
\* often as it was to be asked.
LEMMA OverKept ==
    ASSUME NEW ok, NEW found, NEW failed,
           ok = FALSE => \A u \in Trackers : failed[u] = Attempts
    PROVE  CallKept(CallOver(ok, found, failed))
BY DEF CallKept, CallOver

\* A call that begins has asked nobody.
LEMMA BegunKept ==
    ASSUME NEW u \in Trackers, NEW op \in {"announce", "scrape"}
    PROVE  CallKept(Asking(op, u, Trackers \ {u}, [v \in Trackers |-> 0]))
BY AttemptsAssumption DEF CallKept, Counted, Rounds, Asking

\* A failure leaves the counts those of the attempts made.
LEMMA FailureKept ==
    ASSUME NEW c \in Clients, RoundsKept, Fails(c)
    PROVE  CallKept(tracker'[c])
<1> DEFINE t == tracker[c]
           failed == [t.failed EXCEPT ![t.url] = @ + 1]
<1>1. Counted(t) /\ t.at = "ask"
  BY DEF RoundsKept, CallKept, Fails
<1>2. /\ t = [at |-> "ask", op |-> t.op, url |-> t.url, left |-> t.left,
              attempt |-> t.attempt, failed |-> t.failed]
      /\ t.op \in {"announce", "scrape"} /\ t.url \in Trackers
      /\ t.left \subseteq Trackers /\ t.attempt \in 1..Attempts
      /\ t.failed \in [Trackers -> Nat]
  BY <1>1 DEF Counted, Rounds
<1>3. /\ failed \in [Trackers -> Nat]
      /\ failed[t.url] = t.attempt
      /\ \A u \in Trackers : u # t.url => failed[u] = t.failed[u]
  BY <1>1, <1>2 DEF Counted
<1>4. CASE t.attempt < Attempts
           /\ tracker' = [tracker EXCEPT ![c] = [t EXCEPT !.at = "sleep", !.failed = failed]]
  <2>1. tracker'[c] = [at |-> "sleep", op |-> t.op, url |-> t.url, left |-> t.left,
                       attempt |-> t.attempt, failed |-> failed]
    BY <1>2, <1>4 DEF RoundsKept
  <2>2. Counted(tracker'[c])
    BY <2>1, <1>1, <1>2, <1>3, <1>4, AttemptsAssumption DEF Counted, Rounds
  <2>3. QED  BY <2>2 DEF CallKept
<1>5. CASE t.attempt = Attempts
           /\ \E u \in t.left :
                tracker' = [tracker EXCEPT ![c] = Asking(t.op, u, t.left \ {u}, failed)]
  <2>1. PICK u \in t.left :
          tracker' = [tracker EXCEPT ![c] = Asking(t.op, u, t.left \ {u}, failed)]
    BY <1>5
  <2>2. tracker'[c] = Asking(t.op, u, t.left \ {u}, failed)
    BY <2>1 DEF RoundsKept
  <2>3. \A v \in Trackers \ ((t.left \ {u}) \cup {u}) : failed[v] = Attempts
    BY <1>1, <1>2, <1>3, <1>5 DEF Counted
  <2>4. Counted(tracker'[c])
    BY <2>2, <2>3, <1>1, <1>2, <1>3, AttemptsAssumption DEF Counted, Rounds, Asking
  <2>5. QED  BY <2>4 DEF CallKept
<1>6. CASE t.attempt = Attempts /\ t.left = {}
           /\ tracker' = [tracker EXCEPT ![c] = CallOver(FALSE, {}, failed)]
  <2>1. \A u \in Trackers : failed[u] = Attempts
    BY <1>1, <1>2, <1>3, <1>6 DEF Counted
  <2>2. tracker'[c] = CallOver(FALSE, {}, failed)
    BY <1>6 DEF RoundsKept
  <2>3. QED  BY <2>1, <2>2, OverKept
<1>7. QED  BY <1>4, <1>5, <1>6 DEF Fails

LEMMA WakeKept ==
    ASSUME NEW c \in Clients, RoundsKept, Wake(c)
    PROVE  CallKept(tracker'[c])
<1> DEFINE t == tracker[c]
<1>1. Counted(t) /\ t.at = "sleep"
  BY DEF RoundsKept, CallKept, Wake
<1>2. /\ t = [at |-> "sleep", op |-> t.op, url |-> t.url, left |-> t.left,
              attempt |-> t.attempt, failed |-> t.failed]
      /\ t.op \in {"announce", "scrape"} /\ t.url \in Trackers
      /\ t.left \subseteq Trackers /\ t.attempt \in 1..Attempts
      /\ t.failed \in [Trackers -> Nat]
  BY <1>1 DEF Counted, Rounds
<1>3. tracker'[c] = [at |-> "ask", op |-> t.op, url |-> t.url, left |-> t.left,
                     attempt |-> t.attempt + 1, failed |-> t.failed]
  BY <1>2 DEF RoundsKept, Wake
<1>4. Counted(tracker'[c])
  BY <1>1, <1>2, <1>3, AttemptsAssumption DEF Counted, Rounds
<1>5. QED  BY <1>4 DEF CallKept

LEMMA BeginKept ==
    ASSUME NEW c \in Clients, NEW op \in {"announce", "scrape"}, RoundsKept, Begin(c, op)
    PROVE  CallKept(tracker'[c])
<1>1. PICK u \in Trackers :
        tracker' = [tracker EXCEPT ![c] =
          Asking(op, u, Trackers \ {u}, [v \in Trackers |-> 0])]
  BY DEF Begin
<1>2. tracker'[c] = Asking(op, u, Trackers \ {u}, [v \in Trackers |-> 0])
  BY <1>1 DEF RoundsKept
<1>3. QED  BY <1>2, BegunKept

LEMMA SuccessKept ==
    ASSUME NEW c \in Clients, RoundsKept, Succeeds(c)
    PROVE  CallKept(tracker'[c])
<1>1. PICK a \in Answers :
        tracker' = [tracker EXCEPT ![c] =
              CallOver(TRUE, IF @.op = "announce" THEN AnnouncedPeers(a) ELSE {},
                       @.failed)]
  BY DEF Succeeds
<1>2. tracker'[c] = CallOver(TRUE, IF tracker[c].op = "announce"
                                   THEN AnnouncedPeers(a) ELSE {}, tracker[c].failed)
  BY <1>1 DEF RoundsKept
<1>3. QED  BY <1>2, OverKept

\* A step of one client leaves the calls of the others alone.
LEMMA OthersKept ==
    ASSUME NEW c \in Clients, RoundsKept,
           \/ Begin(c, "announce") \/ Begin(c, "scrape") \/ TrackerStep(c)
    PROVE  /\ DOMAIN tracker' = Clients
           /\ \A d \in Clients \ {c} : tracker'[d] = tracker[d]
BY DEF RoundsKept, Begin, TrackerStep, Succeeds, Fails, Wake

LEMMA RoundsStep ==
    ASSUME RoundsKept, [TrackerNext]_tracker
    PROVE  RoundsKept'
<1>1. CASE UNCHANGED tracker
  BY <1>1 DEF RoundsKept, CallKept, Counted
<1>2. CASE TrackerNext
  <2>1. PICK c \in Clients : BeginAnnounce(c) \/ BeginScrape(c) \/ TrackerStep(c)
    BY <1>2 DEF TrackerNext
  <2>2. CallKept(tracker'[c])
    <3>1. CASE BeginAnnounce(c)  BY <3>1, BeginKept DEF BeginAnnounce
    <3>2. CASE BeginScrape(c)    BY <3>2, BeginKept DEF BeginScrape
    <3>3. CASE Succeeds(c)       BY <3>3, SuccessKept
    <3>4. CASE Fails(c)          BY <3>4, FailureKept
    <3>5. CASE Wake(c)           BY <3>5, WakeKept
    <3>6. QED  BY <2>1, <3>1, <3>2, <3>3, <3>4, <3>5 DEF TrackerStep
  <2>3. /\ DOMAIN tracker' = Clients
        /\ \A d \in Clients \ {c} : tracker'[d] = tracker[d]
    BY <2>1, OthersKept DEF BeginAnnounce, BeginScrape
  <2>4. \A d \in Clients : CallKept(tracker'[d])
    BY <2>2, <2>3 DEF RoundsKept
  <2>5. QED  BY <2>3, <2>4 DEF RoundsKept, CallKept, Counted
<1>3. QED  BY <1>1, <1>2

\* An announce or a scrape fails only after each tracker was asked as often as
\* its retries allow (announce, scrape), for any trackers, clients and retries.
THEOREM TriedTheorem == TrackerSpec => []EveryTrackerTried
<1>1. TrackerInit => RoundsKept
  BY DEF TrackerInit, TrackerIdle, RoundsKept, CallKept
<1>2. RoundsKept /\ [TrackerNext]_tracker => RoundsKept'
  BY RoundsStep
<1>3. RoundsKept => EveryTrackerTried
  BY DEF RoundsKept, CallKept, Counted, Rounds, EveryTrackerTried
<1>4. QED  BY <1>1, <1>2, <1>3, PTL DEF TrackerSpec
=============================================================================
