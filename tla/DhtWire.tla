------------------------------ MODULE DhtWire ------------------------------
(***************************************************************************)
(* The datagrams of the DHT, crates/qvs-dht/src/rpc.rs.  A message is a    *)
(* record; `code` is the message type of its header, which an answer       *)
(* copies from its request.  On the wire nothing else says what a datagram *)
(* is: `decode` goes by the code and by the length of the body, so it need *)
(* not yield the message that was encoded.  Transaction ids are written    *)
(* and never read; neither are the senders' ids in requests.               *)
(***************************************************************************)
EXTENDS Integers, Sequences, SequencesExt, FiniteSets

CONSTANTS
    GarbageNodes,  \* nodes read where a datagram holds other bytes
    GarbagePeers   \* peers read where a datagram holds other bytes

Ping == [kind |-> "Ping", code |-> "Ping"]
FindNode(target) == [kind |-> "FindNode", code |-> "FindNode", target |-> target]
FindPeers(hash) == [kind |-> "FindPeers", code |-> "FindPeers", hash |-> hash]
Announce(hash, token) ==
    [kind |-> "Announce", code |-> "Announce", hash |-> hash, token |-> token]

PingResponse(code) == [kind |-> "PingResponse", code |-> code]
FindNodeResponse(nodes) ==
    [kind |-> "FindNodeResponse", code |-> "FindNode", nodes |-> nodes]
PeersFound(peers) ==
    [kind |-> "PeersFound", code |-> "FindPeers", peers |-> peers]
NodesFound(nodes) ==
    [kind |-> "NodesFound", code |-> "FindPeers", nodes |-> nodes]
AnnounceResponse == [kind |-> "AnnounceResponse", code |-> "Announce"]

\* What decode returns for a datagram it cannot read.
Unreadable == [kind |-> "Unreadable", code |-> "none"]

IsResponse(m) ==
    m.kind \in {"PingResponse", "FindNodeResponse", "PeersFound",
                "NodesFound", "AnnounceResponse"}

\* Mutant: an error is reported with the message type of a ping.
ErrorResponsePings(m) == IF IsResponse(m) THEN {} ELSE {PingResponse("Ping")}

\* error_response: the answer to a request that could not be handled.
ErrorResponse(m) == IF IsResponse(m) THEN {} ELSE {PingResponse(m.code)}

\* The bytes of the body, which starts behind the header.
Length(m) ==
    CASE m.kind \in {"Ping", "PingResponse"} -> 20
      [] m.kind \in {"FindNode", "FindPeers"} -> 40
      [] m.kind = "FindNodeResponse" -> 20 + 26 * Cardinality(m.nodes)
      [] m.kind = "PeersFound" -> 23 + 6 * Len(m.peers)
      [] m.kind = "NodesFound" -> 23 + 26 * Cardinality(m.nodes)
      [] m.kind = "Announce" -> 46
      [] m.kind = "AnnounceResponse" -> 21

AtMost(S, n) == {T \in SUBSET S : Cardinality(T) <= n}

\* decode looks for the tag, the count and the list of a FindPeers answer 20
\* bytes behind the place where encode puts them: whatever stands there is
\* taken for a count and for as many nodes, or peers, as are left.
Misread(m) ==
    LET left == Length(m) - 43
    IN  {NodesFound(N) : N \in AtMost(GarbageNodes, left \div 26)}
        \cup {PeersFound(P) : P \in SeqOf(GarbagePeers, left \div 6)}

\* The results decode may have, depending on bytes that are not modelled.
Decode(m) ==
    CASE m.code = "Ping" -> {Ping}
      [] m.code = "FindNode" ->
           {IF Length(m) = 40 THEN FindNode(m.target)
            ELSE FindNodeResponse(IF m.kind = "FindNodeResponse" THEN m.nodes ELSE {})}
      [] m.code = "FindPeers" ->
           IF Length(m) = 40 THEN {FindPeers(m.hash)}
           ELSE IF Length(m) < 43 THEN {Unreadable}
           ELSE Misread(m)
      [] m.code = "Announce" ->
           IF Length(m) < 21 THEN {Unreadable}
           ELSE IF Length(m) = 21 THEN {AnnounceResponse}
           ELSE {Announce(m.hash, m.token)}
=============================================================================
