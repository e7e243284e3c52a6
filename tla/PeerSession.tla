---------------------------- MODULE PeerSession ----------------------------
(* Two peers on one TCP connection (qvs-transport: tcp_stream.rs,          *)
(* handshake.rs, message.rs, peer_wire.rs). A message is written as its    *)
(* length and the rest, and read back by two read_exact calls that lock    *)
(* the stream one after the other, so a read that ends short loses the     *)
(* place of the next message: from then on the peer is `torn` and reads    *)
(* whatever the bytes spell. A write that fails, times out or is dropped   *)
(* may leave a part of its message on the stream; neither end notes it,    *)
(* and the reader is torn when it comes to that part. The caller of the    *)
(* library is free in the order of its calls once the session is           *)
(* Established; it keeps PeerWireProtocol in step with what it sends,      *)
(* sends the reply that handle_message returns, and asks for a block when  *)
(* is_ready_for_request.                                                   *)
EXTENDS Naturals, Sequences, SequencesExt

CONSTANTS Peers,     \* the two ends of the connection
          Blocks,    \* the blocks that may be asked for
          MaxCalls   \* bound: the sends, the failed and the torn reads of both

ASSUME PeersAssumption == \E p, q \in Peers : p # q /\ Peers = {p, q}

VARIABLE session  \* peer -> its stream, its protocol state and what it saw

Other(p) == CHOOSE q \in Peers : q # p

\* The messages; Have stands for all that handle_message only counts.
Messages ==
    [id : {"Choke", "Unchoke", "Interested", "NotInterested", "Have"}]
        \cup [id : {"Request", "Piece"}, block : Blocks]

Message(id) == [id |-> id]
Block(id, b) == [id |-> id, block |-> b]

\* What a peer writes, in pieces that read_exact takes whole.
Encoded(m) == <<[part |-> "length", msg |-> m], [part |-> "rest", msg |-> m]>>
KeepAlive  == <<[part |-> "alive"]>>
Handshake  == <<[part |-> "handshake"]>>

NewWire == [state |-> "Initial", am_choking |-> TRUE, am_interested |-> FALSE,
            peer_choking |-> TRUE, peer_interested |-> FALSE]

NewPeer == [stream |-> "none", wire |-> NewWire, input |-> <<>>,
            met |-> FALSE, reading |-> FALSE, torn |-> FALSE,
            owed |-> {}, due |-> <<>>, mixed |-> FALSE, calls |-> 0]

SessionInit == session = [p \in Peers |-> NewPeer]

\* Bytes that spell nothing that was said: a part of a message, and whatever
\* was written behind it.
Bytes == <<[part |-> "bytes"]>>

Cut(input) == input # <<>> /\ Last(input).part = "bytes"

\* A peer that has lost its place in its stream: its bytes may spell anything,
\* and what was due to it tells no more.
Torn(s, p) ==
    [s EXCEPT ![p].torn = TRUE, ![p].due = <<>>,
              ![p].input = IF @ = <<>> THEN @ ELSE Bytes]

\* write_all(): all of the parts, none of them, or a part of their bytes, when
\* the write meets WRITE_TIMEOUT or an error, or its future is dropped.
OnStream(parts) == {parts, <<>>, Bytes}

\* The bytes that a write of p puts on the stream: those for a peer that has
\* closed its stream are lost.
Carried(s, p, bytes) ==
    LET to == s[Other(p)] IN
    IF to.stream # "open" \/ Cut(to.input) THEN s
    ELSE [s EXCEPT ![Other(p)].input =
                      IF to.torn /\ bytes # <<>> THEN Bytes ELSE @ \o bytes]

\* `due` keeps, for the properties, the messages said to a peer that it has
\* still to handle: those that were written whole, and behind whole ones.
Said(s, p, m, bytes) ==
    LET to == s[Other(p)] IN
    IF /\ bytes = Encoded(m)
       /\ to.stream = "open" /\ ~to.torn /\ ~Cut(to.input)
    THEN [Carried(s, p, bytes) EXCEPT ![Other(p)].due = Append(@, m)]
    ELSE Carried(s, p, bytes)

\* What a read of the head may leave on the stream.
Behind(input) ==
    IF Head(input).part = "bytes" THEN {<<>>, Bytes} ELSE {Tail(input)}

Taken(p, left) == [session EXCEPT ![p].input = left]

CallsLeft ==
    LET calls(q) == session[q].calls IN MapThenSumSet(calls, Peers) < MaxCalls

MayCall(p) ==
    session[p].stream = "open" /\ session[p].wire.state = "Established" /\ CallsLeft

Called(p) == [session EXCEPT ![p].calls = @ + 1]

\* connect(); the other end accepts, outside of this code.
Connect(p) ==
    /\ \A q \in Peers : session[q].stream = "none"
    /\ session' = [q \in Peers |-> [session[q] EXCEPT !.stream = "open"]]

\* send_handshake() and on_handshake_sent(): the answer to a handshake takes the
\* state back to HandshakeSent, so it is its caller that says Established. The
\* state follows a write that went through, here and in the builders below.
SendHandshake(p) ==
    /\ session[p].stream = "open"
    /\ session[p].wire.state \in {"Initial", "HandshakeReceived"}
    /\ \E bytes \in OnStream(Handshake) :
         session' = [Carried(session, p, bytes)
                        EXCEPT ![p].wire.state = IF bytes = Handshake
                                                 THEN "HandshakeSent" ELSE @]

\* receive_handshake() and on_handshake_received(). Anything else at the head
\* is read as a handshake of some length, and fails to decode.
ReceiveHandshake(p) ==
    LET me == session[p] IN
    /\ me.stream = "open" /\ me.input # <<>> /\ ~me.reading /\ ~me.torn
    /\ me.wire.state \in {"Initial", "HandshakeSent"}
    /\ \E left \in Behind(me.input) :
         session' =
           IF Head(me.input).part = "handshake"
           THEN [Taken(p, left) EXCEPT
                   ![p].met = TRUE,
                   ![p].wire.state = IF @ = "HandshakeSent" THEN "Established"
                                     ELSE "HandshakeReceived"]
           ELSE Torn(Taken(p, left), p)

\* on_established(), once the handshakes have gone both ways.
Establish(p) ==
    /\ session[p].stream = "open" /\ session[p].met
    /\ session[p].wire.state = "HandshakeSent"
    /\ session' = [session EXCEPT ![p].wire.state = "Established"]

\* The builders, and the state their caller keeps with them.
SendInterest(p) ==
    LET wants == ~session[p].wire.am_interested
        m == Message(IF wants THEN "Interested" ELSE "NotInterested")
    IN
    /\ MayCall(p)
    /\ \E bytes \in OnStream(Encoded(m)) :
         session' = [Said(Called(p), p, m, bytes)
                        EXCEPT ![p].wire.am_interested =
                                  IF bytes = Encoded(m) THEN wants ELSE @]

SendChoke(p) ==
    LET choke == ~session[p].wire.am_choking
        m == Message(IF choke THEN "Choke" ELSE "Unchoke")
    IN
    /\ MayCall(p)
    /\ \E bytes \in OnStream(Encoded(m)) :
         session' = [Said(Called(p), p, m, bytes)
                        EXCEPT ![p].wire.am_choking =
                                  IF bytes = Encoded(m) THEN choke ELSE @]

SendHave(p) ==
    LET m == Message("Have") IN
    /\ MayCall(p)
    /\ \E bytes \in OnStream(Encoded(m)) : session' = Said(Called(p), p, m, bytes)

\* is_ready_for_request()
Ready(p) ==
    LET w == session[p].wire IN
    w.state = "Established" /\ w.am_interested /\ ~w.peer_choking

SendRequest(p, b) ==
    LET m == Block("Request", b) IN
    /\ MayCall(p) /\ Ready(p)
    /\ \E bytes \in OnStream(Encoded(m)) : session' = Said(Called(p), p, m, bytes)

SendPiece(p, b) ==
    LET m == Block("Piece", b) IN
    /\ session[p].stream = "open" /\ b \in session[p].owed
    /\ \E bytes \in OnStream(Encoded(m)) :
         session' = [Said(session, p, m, bytes)
                        EXCEPT ![p].owed = IF bytes = Encoded(m)
                                           THEN @ \ {b} ELSE @]

SendKeepAlive(p) ==
    /\ MayCall(p)
    /\ \E bytes \in OnStream(KeepAlive) : session' = Carried(Called(p), p, bytes)

\* A message is handled: is it the one that was due?
Met(s, p, m) ==
    [s EXCEPT ![p].mixed = @ \/ ~IsPrefix(<<m>>, s[p].due),
              ![p].due = IF @ = <<>> THEN @ ELSE Tail(@)]

Reply == Message("Unchoke")

\* handle_message(), and the reply its caller sends, of which `bytes` come on
\* the stream. An Interested is answered with Unchoke though am_choking stays
\* set, so the requests that follow are refused ("requested while choked").
Handled(s, p, m, bytes) ==
    LET w == s[p].wire
        t == IF s[p].torn THEN s ELSE Met(s, p, m)
    IN  CASE m.id \in {"Choke", "Unchoke"} ->
               [t EXCEPT ![p].wire.peer_choking = (m.id = "Choke")]
          [] m.id = "Interested" ->
               LET u == [t EXCEPT ![p].wire.peer_interested = TRUE]
               IN  IF w.am_choking THEN Said(u, p, Reply, bytes) ELSE u
          [] m.id = "NotInterested" ->
               [t EXCEPT ![p].wire.peer_interested = FALSE]
          [] m.id = "Request" /\ ~w.am_choking ->
               [t EXCEPT ![p].owed = @ \cup {m.block}]
          [] OTHER -> t

\* Mutant: a keep-alive is taken for the length of the bytes behind it.
ReadLengthGoesOn(p) ==
    LET me == session[p] IN
    /\ me.stream = "open" /\ me.input # <<>> /\ ~me.reading /\ ~me.torn
    /\ \E left \in Behind(me.input) :
         session' = [Taken(p, left) EXCEPT ![p].reading = TRUE]

\* read_message(), its first read_exact: the length. A keep-alive is an error
\* that leaves the stream at the next message; a handshake reads as a length
\* no peer will ever fill, a part of a message as no length that can be trusted.
ReadLength(p) ==
    LET me == session[p]
        at == Head(me.input).part
    IN
    /\ me.stream = "open" /\ me.input # <<>> /\ ~me.reading /\ ~me.torn
    /\ \E left \in Behind(me.input) :
         session' =
           CASE at = "length" -> [Taken(p, left) EXCEPT ![p].reading = TRUE]
             [] at = "alive" -> Taken(p, left)
             [] OTHER -> Torn(Taken(p, left), p)

\* What the next bytes spell as the body of a message.
Spelled(bytes) == IF bytes.part = "rest" THEN {bytes.msg} ELSE Messages

\* Its second read_exact and decode().
ReadRest(p) ==
    LET me == session[p] IN
    /\ me.stream = "open" /\ me.input # <<>> /\ me.reading
    /\ \E m \in Spelled(Head(me.input)), left \in Behind(me.input),
          bytes \in OnStream(Encoded(Reply)) :
         session' = [Handled(Taken(p, left), p, m, bytes)
                        EXCEPT ![p].reading = FALSE]

\* read_keep_alive() takes the four bytes it finds, keep-alive or not.
ReadKeepAlive(p) ==
    LET me == session[p] IN
    /\ MayCall(p) /\ me.input # <<>> /\ ~me.reading /\ ~me.torn
    /\ \E left \in Behind(me.input) :
         LET s == [Taken(p, left) EXCEPT ![p].calls = @ + 1]
         IN  session' = IF Head(me.input).part = "alive" THEN s ELSE Torn(s, p)

\* A read of a torn stream takes what there is: some message, or an error.
ReadTorn(p) ==
    LET me == session[p] IN
    /\ me.stream = "open" /\ me.input # <<>> /\ me.torn /\ CallsLeft
    /\ \E left \in Behind(me.input) :
         LET s == [Taken(p, left) EXCEPT ![p].calls = @ + 1] IN
         \/ session' = s
         \/ \E m \in Spelled(Head(me.input)), bytes \in OnStream(Encoded(Reply)) :
              session' = Handled(s, p, m, bytes)

\* A read_exact gives up after READ_TIMEOUT. The place in the stream is kept
\* only when the length was being read and none of its bytes had come.
ReadTimesOut(p) ==
    LET me == session[p] IN
    /\ MayCall(p) /\ ~me.torn
    /\ \/ ~me.reading /\ session' = Called(p)
       \/ /\ me.reading \/ me.input # <<>>
          /\ session' = [Torn(Called(p), p) EXCEPT ![p].reading = FALSE]

\* close(): later calls are refused, what came and was not read is gone.
Close(p) ==
    /\ session[p].stream = "open"
    /\ session' = [session EXCEPT ![p].stream = "closed", ![p].input = <<>>,
                                  ![p].reading = FALSE, ![p].due = <<>>]

SessionStep(p) ==
    \/ Connect(p) \/ SendHandshake(p) \/ ReceiveHandshake(p) \/ Establish(p)
    \/ SendInterest(p) \/ SendChoke(p) \/ SendHave(p) \/ SendKeepAlive(p)
    \/ \E b \in Blocks : SendRequest(p, b) \/ SendPiece(p, b)
    \/ ReadLength(p) \/ ReadRest(p) \/ ReadKeepAlive(p) \/ ReadTorn(p)
    \/ ReadTimesOut(p) \/ Close(p)

SessionNext == \E p \in Peers : SessionStep(p)

SessionSpec == SessionInit /\ [][SessionNext]_session

-----------------------------------------------------------------------------

\* What a peer handles is what the other said, in its order and nothing left
\* out, through handshakes, keep-alives, replies and time-outs, up to the
\* place where one of its reads or one of the other's writes ended inside of a
\* message (read_message, handle_message, write_all).
MessagesInOrder ==
    \A p \in Peers : ~session[p].mixed
=============================================================================
