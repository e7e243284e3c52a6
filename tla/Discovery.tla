----------------------------- MODULE Discovery -----------------------------
(***************************************************************************)
(* How a play finds its peers: get_peers_parallel of                       *)
(* crates/qvs-stream/src/engine.rs asks the trackers and the DHT at the    *)
(* same time and waits for both.  The DHT's nodes and the tracker's client *)
(* are those of Dht and Tracker.                                           *)
(***************************************************************************)
EXTENDS Dht, Tracker

VARIABLE plays  \* plays[n]: the search for peers of the play at node n

vars == <<dhtVars, tracker, plays>>

Init ==
    /\ DhtInit
    /\ TrackerInit
    /\ plays = [n \in Seekers |-> Idle]

-----------------------------------------------------------------------------
(* get_peers_parallel *)

\* One play at a time holds the engine; an earlier one has ended.
BeginSearch(n) ==
    /\ plays[n].at \in {"idle", "done"}
    /\ \E h \in Hashes :
         lookup' = [lookup EXCEPT ![n] = [at |-> "start", hash |-> h]]
    /\ BeginAnnounce(n)
    /\ plays' = [plays EXCEPT ![n] = [at |-> "search"]]
    /\ UNCHANGED <<table, peers, loop, stopped, due, boot, dgrams, announcing>>

\* Both have ended, with peers or without.
EndSearch(n) ==
    /\ plays[n].at = "search"
    /\ lookup[n].at = "done" /\ tracker[n].at = "done"
    /\ plays' = [plays EXCEPT ![n] =
         [at |-> "done", found |-> lookup[n].found \cup tracker[n].found]]
    /\ UNCHANGED <<dhtVars, tracker>>

-----------------------------------------------------------------------------

NodeTask(n) == LoopStep(n) \/ LookupStep(n) \/ BootStep(n)
Serve(n) == Receive(n) \/ LoopFails(n) \/ BeginRefresh(n)
SearchStep(n) == BeginSearch(n) \/ EndSearch(n)

\* A step of the DHT, or of a client of the trackers, is no step of anything else.
DhtOnly(A) == UNCHANGED <<tracker, plays>> /\ A
TrackerOnly(A) == UNCHANGED <<dhtVars, plays>> /\ A

Next ==
    \/ \E n \in Nodes : DhtOnly(NodeTask(n) \/ Serve(n) \/ BeginBoot(n))
    \/ \E n \in Nodes : \E m \in Known[n] : DhtOnly(Introduce(n, m))
    \/ \E n \in Agers : DhtOnly(Elapse(n))
    \/ \E n \in Stoppers : DhtOnly(Stop(n))
    \/ \E n \in Announcers : DhtOnly(AnnounceSelf(n) \/ SendAnnounce(n))
    \/ DhtOnly(Lose)
    \/ \E n \in Seekers : SearchStep(n)
    \/ \E n \in Seekers : TrackerOnly(TrackerStep(n))

\* What was begun at a node that searches goes on: its tasks are scheduled, a
\* wait for an answer has a time-out, and a request to a tracker ends.  Nothing
\* has to be begun, no owner has to act; the network and other nodes owe nothing.
Fairness ==
    \A n \in Seekers :
       /\ WF_vars(DhtOnly(LoopStep(n)))
       /\ WF_vars(DhtOnly(BootStep(n)))
       /\ WF_vars(DhtOnly(LookupStep(n)))
       /\ WF_vars(TrackerOnly(TrackerStep(n)))
       /\ WF_vars(EndSearch(n))

Spec == Init /\ [][Next]_vars /\ Fairness

-----------------------------------------------------------------------------

\* The state has its types; the parts that the code bounds are within their
\* bounds: buckets, lists of peers, rounds, and nodes asked at a time.
TypeOK ==
    /\ \A n \in Nodes :
         /\ \A i \in DOMAIN table[n] :
              /\ Len(table[n][i]) <= K
              /\ \A j, k \in DOMAIN table[n][i] : table[n][i][j].id = table[n][i][k].id => j = k
         /\ \A h \in Hashes : Len(peers[n][h]) <= MaxPeersPerHash
         /\ loop[n].at \in {"idle", "handle", "announced", "refresh", "refreshing", "over"}
         /\ boot[n].at \in {"idle", "ping", "find", "over"}
         /\ boot[n].at = "find" => boot[n].round <= BootRounds
         /\ lookup[n].at \in {"idle", "start", "table", "round", "ask", "wait", "finish", "done"}
         /\ announcing[n].at \in {"idle", "announce"}
         /\ lookup[n].at \in {"ask", "wait"} =>
              /\ lookup[n].round \in 1..MaxRounds
              /\ Cardinality(lookup[n].todo) <= Alpha
    /\ stopped \in [Nodes -> BOOLEAN] /\ due \in [Nodes -> BOOLEAN]
    /\ Cardinality(dgrams) <= MaxDgrams

\* handle_message of krpc.rs: a datagram that was sent as an answer is never
\* answered, whatever it is taken for.  Two nodes that answered each other's
\* answers would never fall silent, and an answered ping looks like a ping.
AnswersNotAnswered ==
    [][\A n \in Nodes :
         loop[n].at = "handle" /\ loop[n] # loop'[n] /\ IsResponse(loop[n].sent)
           => dgrams' \subseteq dgrams]_vars

\* start and stop of node.rs: a node that was stopped while it was busy with a
\* datagram or a refresh does not wait for another one.
StopEndsLoop ==
    [][\A n \in Nodes :
         stopped[n] /\ loop[n].at # "idle" => loop[n].at' # "idle"]_vars
=============================================================================
