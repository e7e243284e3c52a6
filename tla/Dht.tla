-------------------------------- MODULE Dht --------------------------------
(***************************************************************************)
(* Nodes of the DHT, crates/qvs-dht/src: the receive loop and the refresh  *)
(* of node.rs, the handlers and lookups of krpc.rs, bootstrap.rs, token.rs.*)
(*                                                                         *)
(* A node runs a receive loop, at most one bootstrap, one lookup and one   *)
(* announcement, which share its routing table (a mutex) and, but for the  *)
(* bootstrap, its socket: whoever reads first gets a datagram, whatever it *)
(* is.  The network loses and reorders; every wait for an answer ends      *)
(* after 5 s, which is always possible here.  A node is named by its       *)
(* address.  Its owner puts nodes it knows into the table, as `krpc()`     *)
(* allows.                                                                 *)
(***************************************************************************)
EXTENDS RoutingTable, DhtWire

CONSTANTS
    Nodes,            \* nodes, by address
    IdOf,             \* IdOf[n]: the id of n
    Known,            \* Known[n]: nodes the owner of n may put into its table
    Seeds,            \* Seeds[n]: the seeds of n; n bootstraps if not empty
    Seekers,          \* nodes that look up peers
    Announcers,       \* nodes that announce themselves
    Stoppers,         \* nodes whose owner may stop them
    Agers,            \* nodes whose entries and buckets may grow old
    Hashes,           \* info hashes, a subset of Ids
    Alpha,            \* nodes asked per round of a lookup (3)
    MaxRounds,        \* MAX_ROUNDS of a lookup (8)
    BootRounds,       \* rounds of a bootstrap (3)
    MaxPeersPerHash,  \* MAX_PEERS_PER_HASH (50)
    MaxDgrams         \* bound: datagrams on their way

ASSUME NodesAssumption ==
    /\ IdOf \in [Nodes -> Ids]
    /\ Known \in [Nodes -> SUBSET Nodes]
    /\ Seeds \in [Nodes -> SUBSET Nodes]
    /\ Seekers \cup Announcers \cup Stoppers \cup Agers \subseteq Nodes
    /\ Hashes \subseteq Ids
    /\ {g.id : g \in GarbageNodes} \subseteq Ids
    /\ IsFiniteSet(GarbageNodes)

ASSUME LimitsAssumption ==
    {Alpha, MaxRounds, BootRounds, MaxPeersPerHash, MaxDgrams} \subseteq Nat

VARIABLES
    table,    \* routing_table of each node
    peers,    \* the peers stored for each hash
    loop,     \* the receive loop
    stopped,  \* the flag set by stop()
    due,      \* whether the buckets are due for a refresh
    boot,     \* the bootstrap
    lookup,   \* the lookup
    dgrams,   \* datagrams on their way
    announcing  \* the announcement of the node

dhtVars == <<table, peers, loop, stopped, due, boot, lookup, dgrams, announcing>>

\* The socket of the bootstrap of n.
Boot(n) == <<n, "boot">>
ASSUME SocketsAssumption == \A n, m \in Nodes : Boot(n) # m

Sockets == Nodes \cup {Boot(n) : n \in Nodes}
Datagram(from, to, m) == [from |-> from, to |-> to, msg |-> m]

\* The datagrams after a send: what goes where no socket is, or into a full network, gets lost.
Sending(ds) ==
    LET all == dgrams \cup {d \in ds : d.to \in Sockets}
    IN  IF Cardinality(all) <= MaxDgrams THEN all ELSE dgrams

Info(e) == [id |-> e.id, addr |-> e.addr]
Infos(S) == {Info(e) : e \in S}
SetOf(s) == {s[i] : i \in 1..Len(s)}

\* The bootstrap holds the table's mutex from its start to its end.
TableFree(n) == boot[n].at \notin {"ping", "find"}

Idle == [at |-> "idle"]
Over == [at |-> "over"]

\* Mutant: the flag is not looked at.
LoopHeadGoesOn(n) == Idle

\* The head of the receive loop, the only place that looks at the flag.
LoopHead(n) == IF stopped[n] THEN Over ELSE Idle

DhtInit ==
    /\ table = [n \in Nodes |-> NewTable]
    /\ peers = [n \in Nodes |-> [h \in Hashes |-> <<>>]]
    /\ loop = [n \in Nodes |-> Idle]
    /\ stopped = [n \in Nodes |-> FALSE]
    /\ due = [n \in Nodes |-> FALSE]
    /\ boot = [n \in Nodes |-> Idle]
    /\ lookup = [n \in Nodes |-> Idle]
    /\ dgrams = {}
    /\ announcing = [n \in Nodes |-> Idle]

-----------------------------------------------------------------------------
(* token.rs: a token stands for its maker and the address it was made for. *)
(* No code calls rotate_secret, so a token never grows old.                *)

Token(n, addr) == [by |-> n, for |-> addr]

VerifyToken(n, addr, t) == t = Token(n, addr)

-----------------------------------------------------------------------------
(* The owner, the clock and the network *)

Introduce(n, m) ==
    /\ TableFree(n)
    /\ table' = [table EXCEPT ![n] = Insert(@, IdOf[n], Entry(IdOf[m], m))]
    /\ UNCHANGED <<peers, loop, stopped, due, boot, lookup, dgrams, announcing>>

\* A quarter of an hour passes: what was not heard of since is stale, and the
\* buckets are due for a refresh.
Elapse(n) ==
    /\ due' = [due EXCEPT ![n] = TRUE]
    /\ table' = [table EXCEPT ![n] =
         [b \in DOMAIN @ |-> [i \in DOMAIN @[b] |-> [@[b][i] EXCEPT !.stale = TRUE]]]]
    /\ UNCHANGED <<peers, loop, stopped, boot, lookup, dgrams, announcing>>

Stop(n) ==
    /\ stopped' = [stopped EXCEPT ![n] = TRUE]
    /\ UNCHANGED <<table, peers, loop, due, boot, lookup, dgrams, announcing>>

Lose ==
    /\ \E d \in dgrams : dgrams' = dgrams \ {d}
    /\ UNCHANGED <<table, peers, loop, stopped, due, boot, lookup, announcing>>

-----------------------------------------------------------------------------
(* The receive loop: node.rs start, krpc.rs handle_message *)

\* The loop reads a datagram and decodes it.
Receive(n) ==
    /\ loop[n].at = "idle"
    /\ \E d \in dgrams :
         /\ d.to = n
         /\ dgrams' = dgrams \ {d}
         /\ \E m \in Decode(d.msg) :
              loop' = [loop EXCEPT ![n] =
                 [at |-> "handle", from |-> d.from, sent |-> d.msg, msg |-> m]]
    /\ UNCHANGED <<table, peers, stopped, due, boot, lookup, announcing>>

\* An error of the socket ends the loop.
LoopFails(n) ==
    /\ loop[n].at = "idle"
    /\ loop' = [loop EXCEPT ![n] = Over]
    /\ UNCHANGED <<table, peers, stopped, due, boot, lookup, dgrams, announcing>>

\* The answer to a request for the nodes or the peers near an id.
Answer(n, m) ==
    LET near(id) == Infos(FindClosest(table[n], IdOf[n], id, K))
    IN  CASE m.kind = "Ping" -> PingResponse(m.code)
          [] m.kind = "FindNode" -> FindNodeResponse(near(m.target))
          [] m.kind = "FindPeers" ->
               IF peers[n][m.hash] # <<>> THEN PeersFound(peers[n][m.hash])
               ELSE NodesFound(near(m.hash))
          [] m.kind = "Announce" -> AnnounceResponse

Reply(n, m) == dgrams' = Sending({Datagram(n, loop[n].from, m)})

\* Ping, FindNode and FindPeers wait for the table and answer; so does the
\* end of an announcement that was accepted.
HandleRequest(n) ==
    /\ \/ loop[n].at = "handle" /\ loop[n].msg.kind \in {"Ping", "FindNode", "FindPeers"}
       \/ loop[n].at = "announced"
    /\ TableFree(n)
    /\ Reply(n, Answer(n, loop[n].msg))
    /\ loop' = [loop EXCEPT ![n] = LoopHead(n)]
    /\ UNCHANGED <<table, peers, stopped, due, boot, lookup, announcing>>

\* Mutant: there is always room for one more peer.
StoredAlways(list, peer) == Append(list, peer)

Stored(list, peer) == IF Len(list) < MaxPeersPerHash THEN Append(list, peer) ELSE list

\* An announcement with a token of this node is stored while there is room,
\* also when it is stored already.
HandleAnnounce(n) ==
    LET m == loop[n].msg
    IN  /\ loop[n].at = "handle" /\ m.kind = "Announce"
        /\ VerifyToken(n, loop[n].from, m.token)
        /\ peers' = [peers EXCEPT ![n][m.hash] = Stored(@, loop[n].from)]
        /\ loop' = [loop EXCEPT ![n].at = "announced"]
        /\ UNCHANGED <<table, stopped, due, boot, lookup, dgrams, announcing>>

\* A wrong token is reported; an answer, which nobody waits for here, is not.
Reject(n) ==
    LET m == loop[n].msg
    IN  /\ loop[n].at = "handle"
        /\ \/ m.kind = "Announce" /\ ~VerifyToken(n, loop[n].from, m.token)
           \/ IsResponse(m)
        /\ dgrams' = Sending({Datagram(n, loop[n].from, r) : r \in ErrorResponse(m)})
        /\ loop' = [loop EXCEPT ![n] = LoopHead(n)]
        /\ UNCHANGED <<table, peers, stopped, due, boot, lookup, announcing>>

Discard(n) ==
    /\ loop[n].at = "handle" /\ loop[n].msg.kind = "Unreadable"
    /\ loop' = [loop EXCEPT ![n] = LoopHead(n)]
    /\ UNCHANGED <<table, peers, stopped, due, boot, lookup, dgrams, announcing>>

-----------------------------------------------------------------------------
(* refresh_buckets: within the loop, one bucket after the other.  All of    *)
(* them were made, and are refreshed, together.                             *)

BeginRefresh(n) ==
    /\ loop[n].at = "idle" /\ due[n]
    /\ TableFree(n)
    /\ loop' = [loop EXCEPT ![n] = [at |-> "refresh", todo |-> IdBits]]
    /\ UNCHANGED <<table, peers, stopped, due, boot, lookup, dgrams, announcing>>

\* The closest node to an id made from the bucket's index is asked; nothing
\* is asked of an empty table.
AskRefresh(n) ==
    /\ loop[n].at = "refresh" /\ loop[n].todo > 0
    /\ TableFree(n)
    /\ \/ /\ Entries(table[n]) = {}
          /\ loop' = [loop EXCEPT ![n].todo = @ - 1]
          /\ UNCHANGED dgrams
       \/ \E target \in Ids :
          \E e \in Closest(FindClosest(table[n], IdOf[n], target, K), target, 1) :
            /\ dgrams' = Sending({Datagram(n, e.addr, FindNode(target))})
            /\ loop' = [loop EXCEPT ![n].at = "refreshing"]
    /\ UNCHANGED <<table, peers, stopped, due, boot, lookup, announcing>>

\* Whatever comes first, a request too, is taken for the answer and ignored.
RefreshAnswered(n) ==
    /\ loop[n].at = "refreshing"
    /\ \/ \E d \in dgrams : d.to = n /\ dgrams' = dgrams \ {d}
       \/ UNCHANGED dgrams
    /\ loop' = [loop EXCEPT ![n] = [at |-> "refresh", todo |-> @.todo - 1]]
    /\ UNCHANGED <<table, peers, stopped, due, boot, lookup, announcing>>

EndRefresh(n) ==
    /\ loop[n].at = "refresh" /\ loop[n].todo = 0
    /\ TableFree(n)
    /\ due' = [due EXCEPT ![n] = FALSE]
    /\ loop' = [loop EXCEPT ![n] = LoopHead(n)]
    /\ UNCHANGED <<table, peers, stopped, boot, lookup, dgrams, announcing>>

LoopStep(n) ==
    \/ HandleRequest(n) \/ HandleAnnounce(n) \/ Reject(n) \/ Discard(n)
    \/ AskRefresh(n) \/ RefreshAnswered(n) \/ EndRefresh(n)

-----------------------------------------------------------------------------
(* announce of node.rs *)

\* The nodes nearest to the hash are looked up in the table; with none there is
\* nothing to do.  One announcement of a node at a time is modelled.
AnnounceSelf(n) ==
    /\ announcing[n] = Idle
    /\ TableFree(n)
    /\ \E h \in Hashes :
         LET near == Infos(FindClosest(table[n], IdOf[n], h, 8))
         IN  /\ near # {}
             /\ announcing' = [announcing EXCEPT ![n] =
                  [at |-> "announce", hash |-> h, todo |-> near]]
    /\ UNCHANGED <<table, peers, loop, stopped, due, boot, lookup, dgrams>>

\* One after the other is sent the announcement, without the table's lock; its
\* token is made by the announcing node itself, not by the one it is sent to.
SendAnnounce(n) ==
    LET a == announcing[n]
    IN  /\ a.at = "announce"
        /\ \E e \in Closest(a.todo, a.hash, 1) :
             /\ dgrams' = Sending({Datagram(n, e.addr, Announce(a.hash, Token(n, e.addr)))})
             /\ announcing' = [announcing EXCEPT ![n] =
                  IF a.todo = {e} THEN Idle ELSE [a EXCEPT !.todo = @ \ {e}]]
        /\ UNCHANGED <<table, peers, loop, stopped, due, boot, lookup>>

-----------------------------------------------------------------------------
(* find_peers of node.rs, iterative_find_peers of krpc.rs *)

\* The orders of nodes by their distance from an id.
Sorted(S, target) ==
    {list \in [1..Cardinality(S) -> S] :
       /\ IsInjective(list)
       /\ \A i, j \in DOMAIN list : i < j => ~Nearer(target, list[j].id, list[i].id)}

\* As many of S as there are, and no more than `count`, that are nearest.
Nearest(S, target, count) ==
    {T \in SUBSET S : /\ Cardinality(T) = Min({count, Cardinality(S)})
                      /\ \A e \in T, f \in S \ T : ~Nearer(target, f.id, e.id)}

\* A table with the nodes of a list inserted.
InsertAll(t, local, list) ==
    LET with[i \in 0..Len(list)] ==
          IF i = 0 THEN t ELSE Insert(with[i - 1], local, Entry(list[i].id, list[i].addr))
    IN  with[Len(list)]

\* A list with as many of the other's elements as the limit admits.
Filled(list, more) ==
    list \o SubSeq(more, 1, Min({Len(more), MaxPeersPerHash - Len(list)}))

Found(found, heard) == [at |-> "done", found |-> found, heard |-> heard]

\* Peers that are known already are returned.
BeginLookup(n) ==
    LET h == lookup[n].hash
    IN  /\ lookup[n].at = "start"
        /\ lookup' = [lookup EXCEPT ![n] =
             IF peers[n][h] # <<>> THEN Found(SetOf(peers[n][h]), {})
             ELSE [at |-> "table", hash |-> h]]
        /\ UNCHANGED <<table, peers, loop, stopped, due, boot, dgrams, announcing>>

\* Else the nearest nodes are taken from the table, when it is free; with an
\* empty table the lookup ends.
ShortList(n) ==
    LET h == lookup[n].hash
        short == Infos(FindClosest(table[n], IdOf[n], h, K))
    IN  /\ lookup[n].at = "table" /\ TableFree(n)
        /\ lookup' = [lookup EXCEPT ![n] =
             IF short = {} THEN Found({}, {})
             ELSE [at |-> "round", hash |-> h, short |-> short,
                   queried |-> {}, todo |-> {}, round |-> 0,
                   closest |-> {}, news |-> FALSE, heard |-> {}]]
        /\ UNCHANGED <<table, peers, loop, stopped, due, boot, dgrams, announcing>>

\* The nearest nodes that were not asked are those of the round.
BeginRound(n) ==
    LET l == lookup[n]
        unasked == {e \in l.short : e.addr \notin l.queried}
    IN  /\ l.at = "round"
        /\ \E todo \in Nearest(unasked, l.hash, Alpha) :
             lookup' = [lookup EXCEPT ![n] =
               IF l.round = MaxRounds \/ todo = {} THEN [l EXCEPT !.at = "finish"]
               ELSE [l EXCEPT !.at = "ask", !.todo = todo, !.news = FALSE,
                              !.round = @ + 1]]
        /\ UNCHANGED <<table, peers, loop, stopped, due, boot, dgrams, announcing>>

\* The request is sent, or sending it fails and the next node has its turn.
Ask(n) ==
    LET l == lookup[n]
    IN  /\ l.at = "ask"
        /\ \E e \in Closest(l.todo, l.hash, 1) :
             LET asked == [l EXCEPT !.todo = @ \ {e}, !.queried = @ \cup {e.addr}]
             IN  \/ /\ lookup' = [lookup EXCEPT ![n] = [asked EXCEPT !.at = "wait"]]
                    /\ dgrams' = Sending({Datagram(n, e.addr, FindPeers(l.hash))})
                 \/ /\ lookup' = [lookup EXCEPT ![n] = asked]
                    /\ UNCHANGED dgrams
        /\ UNCHANGED <<table, peers, loop, stopped, due, boot, announcing>>

\* The nodes of an answer that are new by their address.
New(l, nodes) ==
    {e \in nodes : e.addr \notin l.queried \cup {f.addr : f \in l.short}}

\* The next datagram of the socket is taken for the answer.  Peers end the
\* lookup, nodes make the list longer, anything else is ignored.
Hear(n) ==
    LET l == lookup[n]
    IN  /\ l.at = "wait"
        /\ \E d \in dgrams :
             /\ d.to = n
             /\ dgrams' = dgrams \ {d}
             /\ \E m \in Decode(d.msg) :
                  LET heard == l.heard \cup
                        IF d.msg.kind = "PeersFound" THEN SetOf(d.msg.peers) ELSE {}
                  IN  \/ /\ m.kind = "PeersFound" /\ m.peers # <<>>
                         /\ peers' = [peers EXCEPT ![n][l.hash] = Filled(@, m.peers)]
                         /\ lookup' = [lookup EXCEPT ![n] =
                                         Found(SetOf(m.peers), heard)]
                      \/ /\ m.kind \in {"NodesFound", "FindNodeResponse"}
                         /\ lookup' = [lookup EXCEPT ![n] =
                              [l EXCEPT !.at = "ask", !.heard = heard,
                                        !.short = @ \cup New(l, m.nodes),
                                        !.news = @ \/ New(l, m.nodes) # {}]]
                         /\ UNCHANGED peers
                      \/ /\ m.kind \notin {"NodesFound", "FindNodeResponse"}
                         /\ m.kind = "PeersFound" => m.peers = <<>>
                         /\ lookup' = [lookup EXCEPT ![n] =
                                         [l EXCEPT !.at = "ask", !.heard = heard]]
                         /\ UNCHANGED peers
        /\ UNCHANGED <<table, loop, stopped, due, boot, announcing>>

HearNothing(n) ==
    /\ lookup[n].at = "wait"
    /\ lookup' = [lookup EXCEPT ![n].at = "ask"]
    /\ UNCHANGED <<table, peers, loop, stopped, due, boot, dgrams, announcing>>

\* After a round that heard of no new node, or of none nearer to the hash
\* than the one before, the lookup comes to its end.
EndRound(n) ==
    LET l == lookup[n]
        nearest == (CHOOSE e \in Closest(l.short, l.hash, 1) : TRUE).id
    IN  /\ l.at = "ask" /\ l.todo = {}
        /\ lookup' = [lookup EXCEPT ![n] =
             [l EXCEPT !.closest = {nearest},
                       !.at = IF l.closest = {nearest} \/ ~l.news
                              THEN "finish" ELSE "round"]]
        /\ UNCHANGED <<table, peers, loop, stopped, due, boot, dgrams, announcing>>

\* All nodes of the list, those too that never answered, go into the table.
FinishLookup(n) ==
    LET l == lookup[n]
    IN  /\ l.at = "finish"
        /\ TableFree(n)
        /\ \E list \in Sorted(l.short, l.hash) :
             table' = [table EXCEPT ![n] = InsertAll(@, IdOf[n], list)]
        /\ lookup' = [lookup EXCEPT ![n] = Found({}, l.heard)]
        /\ UNCHANGED <<peers, loop, stopped, due, boot, dgrams, announcing>>

LookupStep(n) ==
    \/ BeginLookup(n) \/ ShortList(n) \/ BeginRound(n) \/ Ask(n) \/ Hear(n) \/ HearNothing(n)
    \/ EndRound(n) \/ FinishLookup(n)

-----------------------------------------------------------------------------
(* bootstrap.rs.  The table's mutex is held throughout. *)

BeginBoot(n) ==
    /\ boot[n] = Idle /\ Seeds[n] # {}
    /\ boot' = [boot EXCEPT ![n] =
         [at |-> "ping", todo |-> Seeds[n], peer |-> {}, queried |-> {},
          round |-> 0, news |-> FALSE]]
    /\ UNCHANGED <<table, peers, loop, stopped, due, lookup, dgrams, announcing>>

BootAsks(n, to, m) ==
    dgrams' = Sending({Datagram(Boot(n), to, m)})

\* A seed that has a name is pinged and waited for; `peer` is who is asked.
PingSeed(n) ==
    LET b == boot[n]
    IN  /\ b.at = "ping" /\ b.peer = {}
        /\ \E s \in b.todo :
             \/ /\ boot' = [boot EXCEPT ![n] = [b EXCEPT !.todo = @ \ {s}, !.peer = {s}]]
                /\ BootAsks(n, s, Ping)
             \/ /\ boot' = [boot EXCEPT ![n] = [b EXCEPT !.todo = @ \ {s}]]
                /\ UNCHANGED dgrams
        /\ UNCHANGED <<table, peers, loop, stopped, due, lookup, announcing>>

\* The first datagram to come is decoded; a ping response would put the seed
\* into the table, under the id of whoever sent it.
SeedAnswers(n) ==
    LET b == boot[n]
    IN  /\ b.at = "ping" /\ b.peer # {}
        /\ \E d \in dgrams :
             /\ d.to = Boot(n)
             /\ dgrams' = dgrams \ {d}
             /\ \E m \in Decode(d.msg), s \in b.peer :
                  table' = [table EXCEPT ![n] =
                     IF m.kind = "PingResponse"
                     THEN Insert(@, IdOf[n], Entry(IdOf[d.from], s)) ELSE @]
        /\ boot' = [boot EXCEPT ![n].peer = {}]
        /\ UNCHANGED <<peers, loop, stopped, due, lookup, announcing>>

\* With an empty table the bootstrap fails; else it goes on from the table.
EndPings(n) ==
    LET b == boot[n]
    IN  /\ b.at = "ping" /\ b.peer = {} /\ b.todo = {}
        /\ boot' = [boot EXCEPT ![n] =
             IF Size(table[n]) = 0 THEN Over ELSE [b EXCEPT !.at = "find"]]
        /\ UNCHANGED <<table, peers, loop, stopped, due, lookup, dgrams, announcing>>

\* A round asks the nodes nearest to this one, but for those asked before.
BootRound(n) ==
    LET b == boot[n]
        near == FindClosest(table[n], IdOf[n], IdOf[n], 8)
    IN  /\ b.at = "find" /\ b.peer = {} /\ b.todo = {}
        /\ boot' = [boot EXCEPT ![n] =
             IF b.round = BootRounds \/ (b.round > 0 /\ ~b.news) THEN Over
             ELSE [b EXCEPT !.todo = {e \in Infos(near) : e.addr \notin b.queried},
                            !.round = @ + 1, !.news = FALSE]]
        /\ UNCHANGED <<table, peers, loop, stopped, due, lookup, dgrams, announcing>>

BootAsk(n) ==
    LET b == boot[n]
    IN  /\ b.at = "find" /\ b.peer = {}
        /\ \E e \in Closest(b.todo, IdOf[n], 1) :
             LET asked == [b EXCEPT !.todo = @ \ {e}, !.queried = @ \cup {e.addr}]
             IN  \/ /\ boot' = [boot EXCEPT ![n] = [asked EXCEPT !.peer = {e.addr}]]
                    /\ BootAsks(n, e.addr, FindNode(IdOf[n]))
                 \/ /\ boot' = [boot EXCEPT ![n] = asked]
                    /\ UNCHANGED dgrams
        /\ UNCHANGED <<table, peers, loop, stopped, due, lookup, announcing>>

\* All nodes of the answer go into the table.
NodeAnswers(n) ==
    LET b == boot[n]
    IN  /\ b.at = "find" /\ b.peer # {}
        /\ \E d \in dgrams :
             /\ d.to = Boot(n)
             /\ dgrams' = dgrams \ {d}
             /\ \E m \in Decode(d.msg) :
                  LET nodes == IF m.kind = "FindNodeResponse" THEN m.nodes ELSE {}
                  IN  /\ \E list \in Sorted(nodes, IdOf[n]) :
                           table' = [table EXCEPT ![n] = InsertAll(@, IdOf[n], list)]
                      /\ boot' = [boot EXCEPT ![n] =
                           [b EXCEPT !.peer = {}, !.news = @ \/ nodes # {}]]
        /\ UNCHANGED <<peers, loop, stopped, due, lookup, announcing>>

\* Mutant: the bootstrap waits for a lost answer for ever.
BootTimesOutNever(n) == FALSE /\ UNCHANGED dhtVars

BootTimesOut(n) ==
    /\ boot[n].at \in {"ping", "find"} /\ boot[n].peer # {}
    /\ boot' = [boot EXCEPT ![n].peer = {}]
    /\ UNCHANGED <<table, peers, loop, stopped, due, lookup, dgrams, announcing>>

BootStep(n) ==
    \/ PingSeed(n) \/ SeedAnswers(n) \/ EndPings(n) \/ BootRound(n)
    \/ BootAsk(n) \/ NodeAnswers(n) \/ BootTimesOut(n)
=============================================================================
