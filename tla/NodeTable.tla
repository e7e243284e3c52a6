----------------------------- MODULE NodeTable -----------------------------
(* One routing table of the DHT over time (qvs-dht routing.rs): nodes are   *)
(* learned from messages and answers, fall silent, and are removed.         *)
EXTENDS RoutingTable

CONSTANTS LocalId,  \* the id of the node that keeps the table
          Addrs     \* addresses a node may report

ASSUME LocalAssumption == LocalId \in Ids

VARIABLE known

KnownInit == known = NewTable

\* insert()
Learn(id, addr) == known' = Insert(known, LocalId, Entry(id, addr))

\* More than 15 minutes go by without a word of the nodes in `silent`.
Silence(silent) ==
    known' = [i \in DOMAIN known |->
                [j \in DOMAIN known[i] |->
                   IF known[i][j].id \in silent THEN [known[i][j] EXCEPT !.stale = TRUE]
                   ELSE known[i][j]]]

\* remove()
Forget(id) ==
    LET i == BucketIndex(LocalId, id) + 1
    IN  known' = [known EXCEPT ![i] = Kept(@, Ids \ {id})]

NodeNext ==
    \/ \E id \in Ids, addr \in Addrs : Learn(id, addr)
    \/ \E silent \in SUBSET Ids : Silence(silent)
    \/ \E id \in Ids : Forget(id)

NodeSpec == KnownInit /\ [][NodeNext]_known

-----------------------------------------------------------------------------

\* A node that was heard from within 15 minutes is in the table until it is
\* removed: no number of new nodes, and no answer that repeats known ones,
\* drives it out (KBucket::insert).
KnownNodesStay ==
    [][\A e \in Entries(known) :
         \/ e.stale
         \/ \E g \in Entries(known') : g.id = e.id
         \/ \E id \in Ids : Forget(id)]_known
=============================================================================
