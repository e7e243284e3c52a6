---------------------------- MODULE MCDiscovery ----------------------------
(* Two nodes of the DHT for TLC: `seeker` searches and `server` serves.    *)
(* Each behaviour has one kind of event from the nodes' environment,       *)
(* chosen at its start.                                                    *)
EXTENDS Discovery

CONSTANTS seeker, server, nowhere

VARIABLE event

MCIdOf == (seeker :> {}) @@ (server :> {0})
MCKnown == (seeker :> {server}) @@ (server :> {seeker, server})
MCSeeds == (seeker :> {server}) @@ (server :> {})
MCHashes == {{0}}
MCGarbageNodes == {[id |-> {0, 1}, addr |-> nowhere]}

MCInit == Init /\ event \in {"announce", "age", "stop", "fail", "boot", "acquaint"}

MCNext ==
    \/ \E n \in Nodes :
         DhtOnly(NodeTask(n) \/ Serve(n)) /\ (LoopFails(n) => event = "fail") /\ UNCHANGED event
    \/ \E n \in Nodes : \E m \in Known[n] :
         (m = seeker => event = "acquaint") /\ DhtOnly(Introduce(n, m)) /\ UNCHANGED event
    \/ \E n \in Nodes : event = "boot" /\ DhtOnly(BeginBoot(n)) /\ UNCHANGED event
    \/ \E n \in Agers : event = "age" /\ DhtOnly(Elapse(n)) /\ UNCHANGED event
    \/ \E n \in Stoppers : event = "stop" /\ DhtOnly(Stop(n)) /\ UNCHANGED event
    \/ \E n \in Announcers :
         event = "announce" /\ DhtOnly(AnnounceSelf(n) \/ SendAnnounce(n)) /\ UNCHANGED event
    \/ DhtOnly(Lose) /\ UNCHANGED event
    \/ \E n \in Seekers : SearchStep(n) /\ UNCHANGED event
    \/ \E n \in Seekers : TrackerOnly(TrackerStep(n)) /\ UNCHANGED event

MCSpec == MCInit /\ [][MCNext]_<<vars, event>> /\ Fairness

-----------------------------------------------------------------------------

\* At a node that searches, the search, the bootstrap and whatever the receive
\* loop is busy with come to an end, although they wait for each other's table and take each
\* other's datagrams: bootstrap, iterative_find_peers, get_peers_parallel.
NothingHangs ==
    \A n \in Seekers :
       /\ boot[n].at \in {"ping", "find"} ~> boot[n].at = "over"
       /\ loop[n].at \notin {"idle", "over"} ~> loop[n].at \in {"idle", "over"}
       /\ plays[n].at = "search" ~> plays[n].at = "done"

\* A node that has peers answers a lookup with them (agents/protocol.md), so a
\* lookup finds the peers it was answered with; decode does not find them where
\* encode puts them.
AnsweredPeersAreFound ==
    \A n \in Seekers :
       lookup[n].at = "done" => lookup[n].heard \subseteq lookup[n].found

\* A node announces itself to others as a peer, with the token that they verify
\* (agents/protocol.md, handle_message): an announcement that another node sent is
\* accepted.  The tokens of announce() are made by the announcing node itself.
AnnouncementsAccepted ==
    [][\A n \in Nodes :
         /\ loop[n].at = "handle" /\ loop'[n] # loop[n]
         /\ loop[n].sent.kind = "Announce" /\ loop[n].from # n
         => loop'[n].at = "announced"]_vars
=============================================================================
