--------------------------- MODULE PieceDownload ---------------------------
(* The piece scheduler and the P2SP downloader of qvs-transport             *)
(* (scheduler.rs, p2sp.rs) under the caller they are made for: it asks the  *)
(* scheduler for the next piece, marks it requested, downloads it by the    *)
(* source its priority selects, and marks it completed when that succeeds.  *)
(* The caller may drop a download at any of its awaits.                     *)
EXTENDS Integers, FiniteSets

CONSTANTS NumPieces,   \* num_pieces()
          Near, Far,   \* distances from the playhead: High, Normal (2, 16)
          Urls,        \* http sources that may be configured
          Holdings,    \* the bitfields the connected peers may have
          MaxSeeks     \* bound: moves of the playhead, changes of the sources

ASSUME DistancesAssumption == Near \in Nat /\ Far \in Nat /\ Near < Far

VARIABLE pieces  \* the scheduler, the downloader and the call in progress

Pieces == 0 .. NumPieces - 1
Nothing == -1

\* PieceScheduler::new and P2spDownloader::new: the http client is made when
\* there are sources at the start, and not later.
PiecesInit ==
    \E urls \in SUBSET Urls :
       pieces = [playhead |-> 0, target |-> Nothing, priority |-> [p \in {} |-> 0],
                 requested |-> {}, completed |-> {},
                 urls |-> urls, client |-> urls # {},
                 requests |-> {}, active |-> 0, total |-> 0,
                 at |-> "idle", piece |-> Nothing, dropped |-> 0, moves |-> 0]

Gap(p, q) == IF p < q THEN q - p ELSE p - q

\* calculate_priority(): what was computed once is kept, wherever the
\* playhead has gone since.
Priority(s, p) ==
    IF p \in DOMAIN s.priority THEN s.priority[p]
    ELSE LET gap == Gap(p, s.playhead) IN
         IF gap = 0 THEN "Critical" ELSE IF gap <= Near THEN "High"
         ELSE IF gap <= Far THEN "Normal" ELSE "Low"

Weight == [Critical |-> 1000, High |-> 100, Normal |-> 10, Low |-> 0]

Score(s, held, p) ==
    Weight[Priority(s, p)] + Cardinality({h \in DOMAIN held : p \notin held[h]})
        + (IF s.target # Nothing /\ Gap(p, s.target) <= Near THEN 500 ELSE 0)

Wanted(s) == Pieces \ (s.completed \cup s.requested)

\* The head of the queue update_download_queue() sorts: the best score, the
\* first piece among equals. Neither the peers that have the piece nor whether
\* any has it is looked at.
NextRequest(s, held, p) ==
    /\ p \in Wanted(s)
    /\ \A q \in Wanted(s) :
          \/ Score(s, held, p) > Score(s, held, q)
          \/ Score(s, held, p) = Score(s, held, q) /\ p <= q

\* select_source(), with http_fallback_enabled and critical_parallel.
Source(s, priority) ==
    CASE priority = "Critical" -> IF s.urls # {} THEN "Parallel" ELSE "P2POnly"
      [] priority = "High" -> IF s.urls # {} THEN "P2PWithHttpFallback"
                              ELSE "P2POnly"
      [] priority = "Normal" -> "P2POnly"
      [] priority = "Low" -> "P2PIdle"

MarkRequested(s, p) == [s EXCEPT !.requested = @ \cup {p}]

MarkCompleted(s, p) ==
    [s EXCEPT !.completed = @ \cup {p}, !.requested = @ \ {p}]

\* update_download_queue(), next_request() and mark_requested(); then the
\* download_* of the source begins: its counters are raised.
BeginDownload ==
    /\ pieces.at = "idle"
    /\ \E held \in Holdings, piece \in Pieces :
         /\ NextRequest(pieces, held, piece)
         /\ pieces' = [MarkRequested(pieces, piece) EXCEPT
                         !.priority = [p \in Wanted(pieces) \cup DOMAIN @ |->
                                         Priority(pieces, p)],
                         !.piece = piece, !.at = "p2p",
                         !.requests = @ \cup {piece}, !.active = @ + 1]

Over(s, ok) ==
    [(IF ok THEN MarkCompleted(s, s.piece) ELSE s) EXCEPT
        !.at = "idle", !.piece = Nothing,
        !.requests = @ \ {s.piece}, !.active = @ - 1,
        !.total = IF ok THEN @ + 1 ELSE @]

\* download_p2p() fails, at once without an engine and after 10 ms with one,
\* or is overtaken by the timeout of download_high(). download_critical() and
\* download_high() go on to http, the others end.
P2pFails ==
    /\ pieces.at = "p2p"
    /\ pieces' = IF Source(pieces, pieces.priority[pieces.piece])
                        \in {"Parallel", "P2PWithHttpFallback"}
                 THEN [pieces EXCEPT !.at = "http"] ELSE Over(pieces, FALSE)

\* Mutant: an http error is returned with `?`, past the end of the download.
HttpEndsEarly ==
    /\ pieces.at = "http"
    /\ \E ok \in IF pieces.client THEN BOOLEAN ELSE {FALSE} :
         pieces' = IF ok THEN Over(pieces, TRUE)
                   ELSE [pieces EXCEPT !.at = "idle", !.piece = Nothing]

\* download_http(): no client, no answer, or a body, whatever its status.
HttpEnds ==
    /\ pieces.at = "http"
    /\ \E ok \in IF pieces.client THEN BOOLEAN ELSE {FALSE} :
         pieces' = Over(pieces, ok)

\* The future of a download is dropped: nothing it raised is taken back, and
\* the piece stays requested.
DropDownload ==
    /\ pieces.at \in {"p2p", "http"}
    /\ pieces' = [pieces EXCEPT !.at = "idle", !.piece = Nothing,
                                !.dropped = @ + 1]

MayMove == pieces.moves < MaxSeeks

\* set_playhead(), and set_seek_target(), which moves the playhead as well.
SetPlayhead ==
    /\ MayMove
    /\ \E p \in Pieces : pieces' = [pieces EXCEPT !.playhead = p,
                                                  !.moves = @ + 1]

SetSeekTarget ==
    /\ MayMove
    /\ \E p \in Pieces : pieces' = [pieces EXCEPT !.playhead = p, !.target = p,
                                                  !.moves = @ + 1]

\* add_http_source(), remove_http_source(): not while a download has &mut self.
ChangeSources ==
    /\ MayMove /\ pieces.at = "idle"
    /\ \E u \in Urls :
         pieces' = [pieces EXCEPT !.urls = IF u \in @ THEN @ \ {u} ELSE @ \cup {u},
                                  !.moves = @ + 1]

PiecesNext ==
    \/ BeginDownload \/ P2pFails \/ HttpEnds \/ DropDownload
    \/ SetPlayhead \/ SetSeekTarget \/ ChangeSources

PiecesSpec == PiecesInit /\ [][PiecesNext]_pieces

-----------------------------------------------------------------------------

\* The count of active requests is the running one and those whose caller went
\* away; each success counted is another piece: no piece is downloaded twice,
\* whatever the playhead, the sources and the failures (download_*,
\* update_download_queue).
CountersSettle ==
    LET running == IF pieces.at = "idle" THEN {} ELSE {pieces.piece} IN
    /\ pieces.active = pieces.dropped + Cardinality(running)
    /\ running \subseteq pieces.requests
    /\ Cardinality(pieces.requests) = pieces.active
    /\ pieces.total = Cardinality(pieces.completed)
    /\ pieces.requested \cap pieces.completed = {}
=============================================================================
