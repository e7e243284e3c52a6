------------------------------ MODULE Gateway ------------------------------
(***************************************************************************)
(* The local server's handlers over the streaming engine,                  *)
(* crates/qvs-local-server/src/handler.rs: GET /play with the task that    *)
(* streams the response body, and the status, segment and control requests *)
(* of other callers.  All of them share one tokio Mutex around the engine, *)
(* which serves its waiters in the order in which they came, and the       *)
(* streaming task keeps it while it sends into the channel of the body.    *)
(*                                                                         *)
(* One source is modelled; Engine.tla has the registry of several.  What   *)
(* the handlers can see of it is in `stream`.  Its buffer is assumed to    *)
(* hold the whole file, so a read returns the bytes asked for or nothing   *)
(* (ReadTheorem of RingBufferProofs.tla).  Sizes and offsets are bytes.    *)
(***************************************************************************)
EXTENDS MediaStream, Integers, Sequences, SequencesExt, FiniteSets

CONSTANTS
    Viewers,   \* clients that send one GET /play each and read its body
    Callers,   \* clients of /status, /segment and /control
    Commands,  \* the requests callers may send
    Kinds,     \* how the source may be fetched: "qvod", "http", "file"
    Size,      \* the size of the file
    Piece,     \* bytes one step of the download writes to the buffer
    Chunk,     \* bytes a streaming task reads at a time (64 KiB)
    ChanCap,   \* capacity of the body's channel, in chunks (32)
    Headers,   \* the Range headers viewers may send
    MaxPlays   \* bound: plays that register a stream in a behaviour

ASSUME ClientsAssumption ==
    /\ Viewers \cap Callers = {}
    /\ Commands \subseteq {"status", "play", "pause", "resume", "seek", "stop"}
ASSUME SourceAssumption ==
    /\ Kinds \subseteq {"qvod", "http", "file"}
    /\ Size \in Nat \ {0}
    /\ Piece \in Nat \ {0}
ASSUME BodyAssumption == Chunk \in Nat \ {0} /\ ChanCap \in Nat \ {0}
ASSUME HeadersAssumption ==
    Headers \subseteq [from: Nat \cup {-1}, to: Nat \cup {-1}]
ASSUME PlaysAssumption == MaxPlays \in Nat

VARIABLES
    queue,   \* the engine's mutex: its holder, then those who wait for it
    pc,      \* pc[p]: where process p stands
    stream,  \* the registered stream and its download task
    plays,   \* number of streams registered so far
    asked,   \* asked[v]: the offset at which v's body is to start
    pos,     \* pos[v]: position of v's streaming task
    open,    \* open[v]: v still holds the receiving end of its body
    body,    \* body[v]: offsets of the chunks sent into v's channel
    taken    \* taken[v]: how many of them v has received

clients == <<asked, pos, open, body, taken>>
vars == <<queue, pc, stream, plays, asked, pos, open, body, taken>>

Procs == Viewers \cup Callers

-----------------------------------------------------------------------------
(* Range headers (range.rs): "a-b", "a-" and "-n"; no header, and one that  *)
(* cannot be parsed, is "-".  The end of the range only appears in the     *)
(* Content-Range of the answer.                                            *)

Absent == -1

RangeStart(h) ==
    IF h.from # Absent THEN h.from
    ELSE IF h.to \in 1..Size THEN Size - h.to
    ELSE 0

-----------------------------------------------------------------------------
Stream(reg, over, kind) ==
    [reg |-> reg, ms |-> NewStream, avail |-> 0, over |-> over, kind |-> kind]

NoStream(kind)    == Stream(FALSE, TRUE, kind)
Downloading(kind) == Stream(TRUE, FALSE, kind)
FromCache(kind)   == Stream(TRUE, TRUE, kind)

Ended == stream.ms.state = "Ended"

\* Where a process stands.  In `Inside` it holds the mutex for certain; in
\* `Waiting` it is queued for it, or at the head and about to go on.
Inside   == {"played", "more", "last", "send", "final"}
Waiting  == {"play", "poll"} \cup Commands
Outside  == {"idle", "sleep", "over"}

TypeOK ==
    /\ queue  \in Seq(Procs)
    /\ pc     \in [Procs -> Inside \cup Waiting \cup Outside]
    /\ stream \in [reg: BOOLEAN, ms: MediaStreams, avail: 0..Size,
                  over: BOOLEAN, kind: Kinds]
    /\ plays  \in Nat
    /\ asked  \in [Viewers -> Nat]
    /\ pos    \in [Viewers -> Nat]
    /\ open   \in [Viewers -> BOOLEAN]
    /\ body   \in [Viewers -> Seq(Nat)]
    /\ taken  \in [Viewers -> Nat]
    /\ \A v \in Viewers : Len(body[v]) - taken[v] \in 0..ChanCap

Init ==
    /\ queue = <<>>
    /\ pc = [p \in Procs |-> "idle"]
    /\ \E kind \in Kinds : stream = NoStream(kind)
    /\ plays = 0
    /\ asked = [v \in Viewers |-> 0]
    /\ pos = [v \in Viewers |-> 0]
    /\ open = [v \in Viewers |-> TRUE]
    /\ body = [v \in Viewers |-> <<>>]
    /\ taken = [v \in Viewers |-> 0]

-----------------------------------------------------------------------------
(* The mutex *)

Holds(p) == queue # <<>> /\ Head(queue) = p

Lock(p, at) == queue' = Append(queue, p) /\ pc' = [pc EXCEPT ![p] = at]
Unlock(p, at) == queue' = Tail(queue) /\ pc' = [pc EXCEPT ![p] = at]
Stay(p, at) == pc' = [pc EXCEPT ![p] = at] /\ UNCHANGED queue

\* The future of p is dropped: it leaves the queue or gives up the mutex.
Drop(p, at) ==
    /\ \E i \in 1..Len(queue) : queue[i] = p /\ queue' = RemoveAt(queue, i)
    /\ pc' = [pc EXCEPT ![p] = at]

-----------------------------------------------------------------------------
(* engine.play under the mutex, for /play and for the control request *)

\* The bound on plays: what was registered and what is on its way.
RoomToPlay == plays + Cardinality({ p \in Procs : pc[p] = "play" }) < MaxPlays

\* What follows the answer: /play spawns its streaming task.
Answered(p) == IF p \in Viewers THEN "sleep" ELSE "idle"

PlayRegister(p) ==
    /\ Holds(p) /\ pc[p] = "play"
    /\ stream' = Downloading(stream.kind)
    /\ plays' = plays + 1
    /\ Stay(p, "played")
    /\ UNCHANGED clients

\* A cache hit registers a stream without a task and does not play() it.
PlayCached(p) ==
    /\ Holds(p) /\ pc[p] = "play"
    /\ stream.kind = "qvod"
    /\ stream' = FromCache(stream.kind)
    /\ plays' = plays + 1
    /\ Unlock(p, Answered(p))
    /\ UNCHANGED clients

\* An http or file source that cannot be probed; a qvod play never fails.
PlayFails(p) ==
    /\ Holds(p) /\ pc[p] = "play"
    /\ stream.kind # "qvod"
    /\ Unlock(p, IF p \in Viewers THEN "over" ELSE "idle")
    /\ UNCHANGED <<stream, plays, clients>>

\* The stream's play() comes after its download task was spawned.
PlayStart(p) ==
    /\ Holds(p) /\ pc[p] = "played"
    /\ stream' = [stream EXCEPT !.ms = PlayStream(@)]
    /\ Unlock(p, Answered(p))
    /\ UNCHANGED <<plays, clients>>

-----------------------------------------------------------------------------
(* A viewer and its streaming task *)

Request(v) ==
    /\ pc[v] = "idle"
    /\ RoomToPlay
    /\ \E h \in Headers :
        /\ asked' = [asked EXCEPT ![v] = RangeStart(h)]
        /\ pos' = [pos EXCEPT ![v] = RangeStart(h)]
    /\ Lock(v, "play")
    /\ UNCHANGED <<stream, plays, open, body, taken>>

\* The task sleeps 100 ms between two tries, and not at all after a chunk.
Wake(v) ==
    /\ pc[v] = "sleep"
    /\ Lock(v, "poll")
    /\ UNCHANGED <<stream, plays, clients>>

PollStatus(v) ==
    /\ Holds(v) /\ pc[v] = "poll"
    /\ \/ ~stream.reg /\ Unlock(v, "over")
       \/ stream.reg /\ Ended /\ Stay(v, "last")
       \/ stream.reg /\ ~Ended /\ Stay(v, "more")
    /\ UNCHANGED <<stream, plays, clients>>

\* read_buffer answers with a whole chunk or with nothing.
Readable(v) == pos[v] + Chunk <= stream.avail

\* Mutant: the position moves whether there was a chunk or not.
ReadMoreMovesAlways(v) ==
    /\ Holds(v) /\ pc[v] = "more"
    /\ IF Readable(v) THEN Stay(v, "send") ELSE Unlock(v, "sleep")
    /\ pos' = [pos EXCEPT ![v] = @ + Chunk]
    /\ UNCHANGED <<stream, plays, asked, open, body, taken>>

\* Mutant: the mutex is kept while the task sleeps.
ReadMoreKeepsLock(v) ==
    /\ Holds(v) /\ pc[v] = "more"
    /\ Readable(v)
    /\ Stay(v, "send")
    /\ pos' = [pos EXCEPT ![v] = @ + Chunk]
    /\ UNCHANGED <<stream, plays, asked, open, body, taken>>

\* The position moves before the chunk is sent.
ReadMore(v) ==
    /\ Holds(v) /\ pc[v] = "more"
    /\ IF Readable(v)
         THEN Stay(v, "send") /\ pos' = [pos EXCEPT ![v] = @ + Chunk]
         ELSE Unlock(v, "sleep") /\ UNCHANGED pos
    /\ UNCHANGED <<stream, plays, asked, open, body, taken>>

\* Once the stream has ended at most one more chunk is read, then the task is over.
ReadLast(v) ==
    /\ Holds(v) /\ pc[v] = "last"
    /\ IF Readable(v) THEN Stay(v, "final") ELSE Unlock(v, "over")
    /\ UNCHANGED <<stream, plays, clients>>

Full(v) == Len(body[v]) - taken[v] = ChanCap

\* Mutant: the channel has no bound.
SendUnbounded(v) ==
    /\ Holds(v) /\ pc[v] \in {"send", "final"}
    /\ open[v]
    /\ IF pc[v] = "send"
         THEN /\ body' = [body EXCEPT ![v] = Append(@, pos[v] - Chunk)]
              /\ queue' = Append(Tail(queue), v)
              /\ pc' = [pc EXCEPT ![v] = "poll"]
         ELSE /\ body' = [body EXCEPT ![v] = Append(@, pos[v])]
              /\ Unlock(v, "over")
    /\ UNCHANGED <<stream, plays, asked, pos, open, taken>>

\* tx.send().await, with the mutex still held.  After a chunk the next
\* iteration asks for the mutex again, behind those who wait already.
Send(v) ==
    /\ Holds(v) /\ pc[v] \in {"send", "final"}
    /\ open[v] /\ ~Full(v)
    /\ IF pc[v] = "send"
         THEN /\ body' = [body EXCEPT ![v] = Append(@, pos[v] - Chunk)]
              /\ queue' = Append(Tail(queue), v)
              /\ pc' = [pc EXCEPT ![v] = "poll"]
         ELSE /\ body' = [body EXCEPT ![v] = Append(@, pos[v])]
              /\ Unlock(v, "over")
    /\ UNCHANGED <<stream, plays, asked, pos, open, taken>>

\* Mutant: a client that is gone does not end the task.
SendFailsGoesOn(v) ==
    /\ Holds(v) /\ pc[v] \in {"send", "final"}
    /\ ~open[v]
    /\ Unlock(v, "sleep")
    /\ UNCHANGED <<stream, plays, clients>>

SendFails(v) ==
    /\ Holds(v) /\ pc[v] \in {"send", "final"}
    /\ ~open[v]
    /\ Unlock(v, "over")
    /\ UNCHANGED <<stream, plays, clients>>

\* The client reads a chunk of its body.
Receive(v) ==
    /\ open[v] /\ taken[v] < Len(body[v])
    /\ taken' = [taken EXCEPT ![v] = @ + 1]
    /\ UNCHANGED <<queue, pc, stream, plays, asked, pos, open, body>>

\* The client goes away: before the answer the handler's future is dropped
\* where it stands, afterwards the receiving end of the body.
Leave(v) ==
    /\ open[v] /\ pc[v] \notin {"idle", "over"}
    /\ open' = [open EXCEPT ![v] = FALSE]
    /\ IF pc[v] \in {"play", "played"} THEN Drop(v, "over") ELSE UNCHANGED <<queue, pc>>
    /\ UNCHANGED <<stream, plays, asked, pos, body, taken>>

-----------------------------------------------------------------------------
(* The other requests: each holds the mutex for one command *)

Call(r) ==
    /\ pc[r] = "idle"
    /\ \E c \in Commands : (c = "play" => RoomToPlay) /\ Lock(r, c)
    /\ UNCHANGED <<stream, plays, clients>>

\* /status and /segment change nothing; with one stream registered the walk
\* of pause, resume and seek over the registry is one step.
Commanded(s, c) ==
    CASE c = "status" \/ ~s.reg -> s
      [] c = "stop" /\ s.reg    -> NoStream(s.kind)
      [] c = "pause" /\ s.reg   -> [s EXCEPT !.ms = PauseStream(@)]
      [] c = "resume" /\ s.reg  -> [s EXCEPT !.ms = ResumeStream(@)]
      [] c = "seek" /\ s.reg    -> [s EXCEPT !.ms = SeekStream(@)]

\* Mutant: the command does not wait for the mutex.
ServeAtOnce(r) ==
    /\ pc[r] \in Commands \ {"play"}
    /\ stream' = Commanded(stream, pc[r])
    /\ Drop(r, "idle")
    /\ UNCHANGED <<plays, clients>>

Serve(r) ==
    /\ Holds(r) /\ pc[r] \in Commands \ {"play"}
    /\ stream' = Commanded(stream, pc[r])
    /\ Unlock(r, "idle")
    /\ UNCHANGED <<plays, clients>>

\* Mutant: a dropped future keeps its place among the waiters.
GiveUpKeepsPlace(r) ==
    /\ pc[r] # "idle"
    /\ Stay(r, "idle")
    /\ UNCHANGED <<stream, plays, clients>>

\* The caller disconnects while it waits or in the middle of a play.
GiveUp(r) ==
    /\ pc[r] # "idle"
    /\ Drop(r, "idle")
    /\ UNCHANGED <<stream, plays, clients>>

-----------------------------------------------------------------------------
(* The download task of the registered stream (Engine.tla in larger steps); *)
(* it does not need the engine's mutex.                                     *)

Fetch ==
    /\ stream.reg /\ ~stream.over
    /\ stream.avail < Size
    /\ stream.kind = "qvod" => ~stream.ms.paused
    /\ stream' = [stream EXCEPT
                    !.avail = IF @ + Piece < Size THEN @ + Piece ELSE Size,
                    !.ms = IF stream.kind = "file" THEN UpdatePosition(@) ELSE @]
    /\ UNCHANGED <<queue, pc, plays, clients>>

\* The task ends the stream, after the last piece or after too many errors.
EndTask ==
    /\ stream.reg /\ ~stream.over
    /\ stream.avail = Size \/ stream.kind # "qvod"
    /\ stream' = [stream EXCEPT !.ms = EndStream(@), !.over = TRUE]
    /\ UNCHANGED <<queue, pc, plays, clients>>

-----------------------------------------------------------------------------
PlaySteps(p) ==
    PlayRegister(p) \/ PlayCached(p) \/ PlayFails(p) \/ PlayStart(p)

Streaming(v) ==
    \/ Wake(v) \/ PollStatus(v) \/ ReadMore(v) \/ ReadLast(v)
    \/ Send(v) \/ SendFails(v)

Next ==
    \/ \E p \in Procs : PlaySteps(p)
    \/ \E v \in Viewers : Request(v) \/ Streaming(v) \/ Receive(v) \/ Leave(v)
    \/ \E r \in Callers : Call(r) \/ Serve(r) \/ GiveUp(r)
    \/ Fetch
    \/ EndTask

Spec == Init /\ [][Next]_vars

\* The runtime polls whoever can go on, and the source answers or fails.
RuntimeFairness ==
    /\ \A p \in Procs : WF_vars(PlaySteps(p))
    /\ \A v \in Viewers : WF_vars(Streaming(v))
    /\ \A r \in Callers : WF_vars(Serve(r))
    /\ WF_vars(Fetch \/ EndTask)

\* Clients that go on reading their bodies until they leave.
ReadingClients == \A v \in Viewers : WF_vars(Receive(v))

FairSpec == Spec /\ RuntimeFairness /\ ReadingClients
-----------------------------------------------------------------------------
(* Properties *)

\* Nobody is inside the engine without its mutex, whoever waits for it waits
\* at one place, and nobody who left, gave up or finished keeps a place: a
\* future dropped anywhere blocks no one behind it.
MutexDiscipline ==
    \A p \in Procs :
        LET places == { i \in 1..Len(queue) : queue[i] = p }
        IN  /\ pc[p] \in Inside => Holds(p)
            /\ Cardinality(places) = IF pc[p] \in Outside THEN 0 ELSE 1

\* What the streaming task has learned of the stream still holds when it
\* uses it, some awaits later: no stop, replay or pause comes between the
\* status, the read and the send.
AnswerStillTrue ==
    \A v \in Viewers :
        /\ pc[v] \in {"more", "send", "last", "final"} => stream.reg
        /\ pc[v] \in {"last", "final"} => Ended
        /\ pc[v] = "send"  => pos[v] <= stream.avail
        /\ pc[v] = "final" => pos[v] + Chunk <= stream.avail

\* The chunks of a body follow each other from the start of its range with no
\* gap and no repetition, through polls, replays of the source and the end.
BodyInOrder ==
    \A v \in Viewers : \A i \in 1..Len(body[v]) :
        body[v][i] = asked[v] + (i - 1) * Chunk

\* While the viewers read their bodies or leave, every other request is
\* answered, however many chunks are streamed under the same mutex.
CallersServed == \A r \in Callers : []<>(pc[r] = "idle")

\* A body ends, unless its stream can bring neither data nor an end: it is
\* paused, or its download is over and the state shown is not Ended any more
\* (a later play(), pause, resume or seek, or a cached stream).
Quiet == stream.reg /\ \/ stream.over /\ ~Ended
                       \/ stream.kind = "qvod" /\ stream.ms.paused

ViewersEnd ==
    \A v \in Viewers :
        []<>(pc[v] \in {"idle", "play", "played", "over"} \/ Quiet)

\* agents/gateway.md:90: "each chunk is a block of video data as it becomes
\* available from the P2P engine": a body that ended for a client that is
\* still there, from the one stream there was, holds what was available.
\* The reads ask for whole chunks, and at most one follows the end.
BodyComplete ==
    \A v \in Viewers :
        (pc[v] = "over" /\ open[v] /\ plays = 1 /\ stream.reg) =>
            pos[v] + Chunk * (IF body[v] # <<>> /\ body[v][Len(body[v])] = pos[v]
                              THEN 1 ELSE 0) >= stream.avail
=============================================================================
