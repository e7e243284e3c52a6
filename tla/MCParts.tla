------------------------------ MODULE MCParts ------------------------------
(* The parts that stand on their own, for TLC: each behaviour drives one of *)
(* them, chosen at its start, and leaves the others in one of their initial *)
(* states. The buffer is one that can hold its whole file.                  *)
EXTENDS RingBuffer, NodeTable, Tracker, PeerSession, PieceDownload, MediaCache,
        Desktop, TLC

CONSTANTS webMedia, fileMedia  \* a web address and a local file

VARIABLE part

MCLocal  == {}
MCKind   == (webMedia :> "http") @@ (fileMedia :> "file")
\* No peers; and two, of which one lacks the pieces the other has.
MCHoldings == {<<>>, <<{0, 1}, {2}>>}

Alike == Permutations(Hashes) \cup Permutations(Peers) \cup Permutations(Cleaners)

allVars == <<buf, playPos, known, tracker, session, pieces, cache, desk, part>>

PartsInit ==
    /\ Init
    /\ KnownInit /\ TrackerInit /\ SessionInit /\ PiecesInit /\ CacheInit /\ DeskInit
    /\ part \in {"buffer", "nodes", "tracker", "session", "pieces", "cache",
                 "desk", "tasks"}
    /\ part # "pieces" => pieces.urls = {}
    /\ part # "cache" => cache.now = CHOOSE t \in Times : TRUE
    /\ part \notin {"desk", "tasks"} => desk.server = "remote"

Only(p) ==
    /\ part = p /\ UNCHANGED part
    /\ p # "buffer" => UNCHANGED <<buf, playPos>>
    /\ p # "nodes" => UNCHANGED known
    /\ p # "tracker" => UNCHANGED tracker
    /\ p # "session" => UNCHANGED session
    /\ p # "pieces" => UNCHANGED pieces
    /\ p # "cache" => UNCHANGED cache
    /\ p \notin {"desk", "tasks"} => UNCHANGED desk

PartsNext ==
    \/ Only("buffer") /\ Next
    \/ Only("nodes") /\ NodeNext
    \/ Only("tracker") /\ TrackerNext
    \/ Only("session") /\ SessionNext
    \/ Only("pieces") /\ PiecesNext
    \/ Only("cache") /\ CacheNext
    \/ \E u \in Inputs : u.do \notin ListInputs /\ Only("desk") /\ Update(u)
    \/ \E u \in Inputs :
         u.do \in {"open"} \cup ListInputs /\ Only("tasks") /\ Update(u)
    \/ Only("tasks") /\ RemovePanics
    \/ Only("desk") /\ CallEnds
    \/ Only("desk") /\ PollEnds

PartsSpec == PartsInit /\ [][PartsNext]_allVars
=============================================================================
