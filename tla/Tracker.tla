------------------------------ MODULE Tracker ------------------------------
(***************************************************************************)
(* The client of the trackers, crates/qvs-tracker/src: client.rs, and what *)
(* protocol.rs and scraper.rs make of an answer.                           *)
(***************************************************************************)
EXTENDS Integers, FiniteSets

CONSTANTS
    Trackers,   \* tracker_urls
    Clients,    \* nodes with a tracker client
    TrackerPeers, \* peers the trackers know of
    Attempts      \* requests to one tracker before the next is asked (3)

ASSUME AttemptsAssumption == Attempts \in Nat \ {0}

\* An address that parse_dict_peers could not get out of its text.
Unspecified == "0.0.0.0"

\* An answer of a tracker: whether the request succeeded and its body is a
\* dictionary with an interval; how it writes its peers; its scrape entries.
Answers ==
    [ok: BOOLEAN, interval: BOOLEAN, form: {"compact", "list", "none"},
     peers: SUBSET TrackerPeers, files: {"valid", "invalid", "missing"}]

\* from_bencode and announce_single: the peers of a compact answer; those of
\* a list have their addresses as text, and four bytes are expected.
AnnouncedPeers(a) ==
    CASE a.form = "compact" -> a.peers
      [] a.form = "list" -> IF a.peers = {} THEN {} ELSE {Unspecified}
      [] a.form = "none" -> {}

\* Whether the answer is one to the operation.
Accepted(op, a) ==
    /\ a.ok
    /\ IF op = "announce" THEN a.interval ELSE a.files = "valid"

VARIABLE tracker  \* the call in progress of each client

TrackerIdle == [at |-> "idle"]
TrackerInit == tracker = [c \in Clients |-> TrackerIdle]

\* The call ends with peers, or with an error, which its caller takes for none.
\* `failed` counts the failures of each tracker; no guard reads it.
CallOver(ok, found, failed) ==
    [at |-> "done", ok |-> ok, found |-> found, failed |-> failed]

\* A tracker is asked for the first time, and `left` are those behind it.
Asking(op, u, left, failed) ==
    [at |-> "ask", op |-> op, url |-> u, left |-> left, attempt |-> 1,
     failed |-> failed]

\* The trackers are asked in an order drawn at random.
Begin(c, op) ==
    \E u \in Trackers :
       tracker' = [tracker EXCEPT ![c] =
          Asking(op, u, Trackers \ {u}, [v \in Trackers |-> 0])]

MayBegin(c) == tracker[c].at \in {"idle", "done"}

BeginAnnounce(c) == MayBegin(c) /\ Begin(c, "announce")
BeginScrape(c) == MayBegin(c) /\ Begin(c, "scrape")

Succeeds(c) ==
    /\ tracker[c].at = "ask"
    /\ \E a \in Answers :
         /\ Accepted(tracker[c].op, a)
         /\ tracker' = [tracker EXCEPT ![c] =
              CallOver(TRUE, IF @.op = "announce" THEN AnnouncedPeers(a) ELSE {},
                       @.failed)]

\* Mutant: a tracker that fails is not followed by the next one.
FailsFinally(c) ==
    LET t == tracker[c]
        failed == [t.failed EXCEPT ![t.url] = @ + 1]
    IN  /\ t.at = "ask"
        /\ tracker' = [tracker EXCEPT ![c] =
              IF t.attempt < Attempts THEN [t EXCEPT !.at = "sleep", !.failed = failed]
              ELSE CallOver(FALSE, {}, failed)]

\* No answer in time, or one that is not accepted: after a pause the same
\* tracker is asked again, three times in all, then the next.
Fails(c) ==
    LET t == tracker[c]
        failed == [t.failed EXCEPT ![t.url] = @ + 1]
    IN  /\ t.at = "ask"
        /\ \/ /\ t.attempt < Attempts
              /\ tracker' = [tracker EXCEPT ![c] = [t EXCEPT !.at = "sleep", !.failed = failed]]
           \/ /\ t.attempt = Attempts /\ t.left # {}
              /\ \E u \in t.left :
                   tracker' = [tracker EXCEPT ![c] =
                      Asking(t.op, u, t.left \ {u}, failed)]
           \/ /\ t.attempt = Attempts /\ t.left = {}
              /\ tracker' = [tracker EXCEPT ![c] = CallOver(FALSE, {}, failed)]

Wake(c) ==
    LET t == tracker[c] IN
    /\ t.at = "sleep"
    /\ tracker' = [tracker EXCEPT ![c] =
                     [t EXCEPT !.at = "ask", !.attempt = t.attempt + 1]]

TrackerStep(c) == Succeeds(c) \/ Fails(c) \/ Wake(c)

TrackerNext == \E c \in Clients : BeginAnnounce(c) \/ BeginScrape(c) \/ TrackerStep(c)

TrackerSpec == TrackerInit /\ [][TrackerNext]_tracker

-----------------------------------------------------------------------------

\* An announce or a scrape fails only after each tracker was asked as often
\* as its retries allow (announce, scrape and their retry loops).
EveryTrackerTried ==
    \A c \in Clients :
        (tracker[c].at = "done" /\ ~tracker[c].ok) =>
            \A u \in Trackers : tracker[c].failed[u] = Attempts
=============================================================================
