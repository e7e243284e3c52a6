------------------------------- MODULE Engine -------------------------------
(***************************************************************************)
(* The streaming engine, crates/qvs-stream/src/engine.rs: the registry of  *)
(* active streams, the commands that change it (play, pause, resume, seek, *)
(* stop) and the background task that each play starts to fill the         *)
(* stream's buffer.                                                        *)
(*                                                                         *)
(* Every caller holds one mutex around the engine for the whole command,   *)
(* so at most one command is in progress; it still interleaves with the    *)
(* download tasks at every await, and it ends early when the client that   *)
(* sent it disconnects, because its future is then dropped.  A task is     *)
(* known to the engine only through the registry entry of its stream: an   *)
(* entry that is replaced leaves its task running.                         *)
(*                                                                         *)
(* Streams are numbered in the order of their creation.  Sizes and offsets *)
(* are counted in chunks, a chunk being what one answer of the source, or  *)
(* one iteration of the loop, delivers.                                    *)
(***************************************************************************)
EXTENDS MediaStream, FiniteSets

CONSTANTS
    Sources,      \* the things that can be played; one info hash each
    Kind,         \* Kind[h]: how h is fetched, "qvod", "http" or "file"
    Sizes,        \* Sizes[h]: the sizes h may have when it is probed
    Cached,       \* the qvod sources whose metadata the cache holds
    Truncatable,  \* the files that may lose their tail while they are read
    MaxErrors,    \* max_errors of the http and the file loop (10)
    MaxStreams    \* bound: streams created in a behaviour

ASSUME KindAssumption == Kind \in [Sources -> {"qvod", "http", "file"}]
ASSUME SizesAssumption ==
    /\ Sizes \in [Sources -> SUBSET Nat]
    /\ \A h \in Sources : Kind[h] = "http" => 0 \notin Sizes[h]
ASSUME CachedAssumption == Cached \subseteq {h \in Sources : Kind[h] = "qvod"}
ASSUME TruncatableAssumption ==
    Truncatable \subseteq {h \in Sources : Kind[h] = "file"}
ASSUME BoundsAssumption == MaxErrors \in Nat \ {0} /\ MaxStreams \in Nat

VARIABLES
    born,     \* number of streams created so far
    owner,    \* owner[g]: the source stream g plays
    size,     \* size[g]: the size found when g was created
    ms,       \* ms[g]: the stream's MediaStream
    filled,   \* filled[g]: chunks of the file written to its buffer
    task,     \* task[g]: its download task
    active,   \* active[h]: the stream registered for h, 0 if there is none
    op,       \* the command that holds the engine
    late      \* late[g]: chunks written since the stream was created or
              \* paused; a history variable, no guard reads it

vars == <<born, owner, size, ms, filled, task, active, op, late>>

Streams == 1..MaxStreams
Created == 1..born

\* Where a download task stands: at an await, between two steps that take a
\* lock, or over.  "none" is a stream without a task.
Running == {"open", "fetch", "write", "report", "eofWrite", "eofReport", "end"}
Over    == {"none", "done", "aborted"}

Tasks == [pc: Running \cup Over, off: Nat, err: 0..MaxErrors, abort: BOOLEAN]
Task(pc) == [pc |-> pc, off |-> 0, err |-> 0, abort |-> FALSE]

\* Mutant: one error too many before the loop gives up.
FailedOnceMore(t) == [t EXCEPT !.err = @ + 1,
                               !.pc = IF t.err >= MaxErrors THEN "end" ELSE "fetch"]

\* Mutant: the loop does not move to the next chunk.
AdvancedNever(t, n) == [t EXCEPT !.pc = "fetch"]

\* What the steps of a loop make of its local variables.
Moved(t, pc) == [t EXCEPT !.pc = pc]
Fetched(t)   == [t EXCEPT !.pc = "write", !.err = 0]
Failed(t)    == [t EXCEPT !.err = @ + 1,
                          !.pc = IF t.err + 1 >= MaxErrors THEN "end" ELSE "fetch"]
Advanced(t, n) == [t EXCEPT !.off = @ + 1,
                            !.pc = IF t.off + 1 = n THEN "end" ELSE "fetch"]
AbortTask(t) == [t EXCEPT !.abort = TRUE]

\* "play" probes the source, "start" has registered the stream and not yet
\* called its play(); the others walk the registry.
Sweeps == {"pause", "resume", "seek"}
Idle   == [cmd |-> "idle"]
Playing(h) == [cmd |-> "play", src |-> h]
Starting   == [cmd |-> "start"]
Sweeping(c, todo) == [cmd |-> c, todo |-> todo]
Ops == {Idle, Starting} \cup {Playing(h) : h \in Sources}
          \cup {Sweeping(c, todo) : c \in Sweeps, todo \in SUBSET Streams}

Registered == {active[h] : h \in Sources} \ {0}

TypeOK ==
    /\ born   \in 0..MaxStreams
    /\ owner  \in [Created -> Sources]
    /\ size   \in [Created -> Nat]
    /\ ms     \in [Created -> MediaStreams]
    /\ filled \in [Created -> Nat]
    /\ task   \in [Created -> Tasks]
    /\ active \in [Sources -> 0..born]
    /\ op     \in Ops
    /\ late   \in [Created -> Nat]
-----------------------------------------------------------------------------
Empty == [g \in {} |-> 0]

Init ==
    /\ born = 0
    /\ owner = Empty /\ size = Empty /\ ms = Empty
    /\ filled = Empty /\ task = Empty /\ late = Empty
    /\ active = [h \in Sources |-> 0]
    /\ op = Idle

Extended(f, v) == [g \in 1..born + 1 |-> IF g = born + 1 THEN v ELSE f[g]]

\* Mutant: an entry that is there already is kept.
RegisterOnce(h, n, t) ==
    /\ born'   = born + 1
    /\ owner'  = Extended(owner, h)
    /\ size'   = Extended(size, n)
    /\ ms'     = Extended(ms, NewStream)
    /\ filled' = Extended(filled, 0)
    /\ task'   = Extended(task, t)
    /\ late'   = Extended(late, 0)
    /\ active' = [active EXCEPT ![h] = IF @ = 0 THEN born + 1 ELSE @]

\* Build the stream of a play and put it in the registry; an entry for the
\* same hash is replaced, and the task it knew is neither stopped nor kept.
Register(h, n, t) ==
    /\ born'   = born + 1
    /\ owner'  = Extended(owner, h)
    /\ size'   = Extended(size, n)
    /\ ms'     = Extended(ms, NewStream)
    /\ filled' = Extended(filled, 0)
    /\ task'   = Extended(task, t)
    /\ late'   = Extended(late, 0)
    /\ active' = [active EXCEPT ![h] = born + 1]

-----------------------------------------------------------------------------
(* Commands *)

BeginPlay(h) ==
    /\ op = Idle
    /\ born < MaxStreams
    /\ op' = Playing(h)
    /\ UNCHANGED <<born, owner, size, ms, filled, task, active, late>>

\* An http or file source that cannot be probed is an error; a qvod source
\* without metadata is played as an empty one.
PlayFails(h) ==
    /\ op = Playing(h)
    /\ Kind[h] # "qvod"
    /\ op' = Idle
    /\ UNCHANGED <<born, owner, size, ms, filled, task, active, late>>

\* A cache hit returns early: no task, and play() is not called.
PlayCached(h) ==
    /\ op = Playing(h)
    /\ h \in Cached
    /\ \E n \in Sizes[h] : Register(h, n, Task("none"))
    /\ op' = Idle

\* The tasks a play of h may spawn for a source of n chunks.  An empty source
\* has none, but a qvod source gets one whenever a peer was found.
Spawned(h, n) ==
    IF n > 0
    THEN {Task(IF Kind[h] = "file" THEN "open" ELSE "fetch")}
    ELSE {Task("none")} \cup (IF Kind[h] = "qvod" THEN {Task("end")} ELSE {})

PlayRegister(h) ==
    /\ op = Playing(h)
    /\ h \notin Cached
    /\ \E n \in Sizes[h] : \E t \in Spawned(h, n) : Register(h, n, t)
    /\ op' = Starting

\* The registered stream's own lock is taken last: its task may run first.
PlayStart ==
    /\ op = Starting
    /\ ms' = [ms EXCEPT ![born] = PlayStream(@)]
    /\ late' = [late EXCEPT ![born] = 0]
    /\ op' = Idle
    /\ UNCHANGED <<born, owner, size, filled, task, active>>

BeginSweep(c) ==
    /\ op = Idle
    /\ op' = Sweeping(c, Registered)
    /\ UNCHANGED <<born, owner, size, ms, filled, task, active, late>>

Swept(c, s) == CASE c = "pause"  -> PauseStream(s)
                 [] c = "resume" -> ResumeStream(s)
                 [] c = "seek"   -> SeekStream(s)

\* One iteration of the command's loop: lock one stream and change it.
SweepOne(c, g) ==
    /\ op.cmd = c
    /\ g \in op.todo
    /\ ms' = [ms EXCEPT ![g] = Swept(c, @)]
    /\ late' = IF c = "resume" \/ (c = "pause" /\ ms[g].state = "Initializing")
                 THEN [late EXCEPT ![g] = 0] ELSE late
    /\ op' = Sweeping(c, op.todo \ {g})
    /\ UNCHANGED <<born, owner, size, filled, task, active>>

EndSweep(c) ==
    /\ op = Sweeping(c, {})
    /\ op' = Idle
    /\ UNCHANGED <<born, owner, size, ms, filled, task, active, late>>

\* Mutant: the entry goes, its task does not.
StopKeepsTask(h) ==
    /\ op = Idle
    /\ active[h] # 0
    /\ active' = [active EXCEPT ![h] = 0]
    /\ UNCHANGED <<born, owner, size, ms, filled, task, op, late>>

\* stop() does not wait for anything: the entry goes and its task is told to
\* stop at its next suspension.
Stop(h) ==
    /\ op = Idle
    /\ active[h] # 0
    /\ task' = [task EXCEPT ![active[h]] = AbortTask(@)]
    /\ active' = [active EXCEPT ![h] = 0]
    /\ UNCHANGED <<born, owner, size, ms, filled, op, late>>

\* The client goes away: the handler's future is dropped where it stands and
\* the engine's mutex with it.
Disconnect ==
    /\ op # Idle
    /\ op' = Idle
    /\ UNCHANGED <<born, owner, size, ms, filled, task, active, late>>
-----------------------------------------------------------------------------
(* Download tasks *)

Aborted(g) == task[g].abort

Goto(g, pc) == task' = [task EXCEPT ![g] = Moved(@, pc)]

\* tokio::fs::File::open of the file loop; a failure ends the stream.
Open(g) ==
    /\ task[g].pc = "open"
    /\ ~Aborted(g)
    /\ \E pc \in {"fetch", "end"} : Goto(g, pc)
    /\ UNCHANGED <<born, owner, size, ms, filled, active, op, late>>

\* Mutant: the qvod loop does not look at the paused flag.
FetchAlways(g) ==
    /\ task[g].pc = "fetch"
    /\ ~Aborted(g)
    /\ task' = [task EXCEPT ![g] = Fetched(@)]
    /\ UNCHANGED <<born, owner, size, ms, filled, active, op, late>>

\* The next chunk arrives.  Only the qvod loop looks at the paused flag.
Fetch(g) ==
    /\ task[g].pc = "fetch"
    /\ ~Aborted(g)
    /\ Kind[owner[g]] = "qvod" => ~ms[g].paused
    /\ task' = [task EXCEPT ![g] = Fetched(@)]
    /\ UNCHANGED <<born, owner, size, ms, filled, active, op, late>>

\* Mutant: the last failure ends the stream without leaving the loop.
FetchFailsEnds(g) ==
    /\ task[g].pc = "fetch"
    /\ ~Aborted(g)
    /\ Kind[owner[g]] # "qvod"
    /\ ms' = IF task[g].err + 1 >= MaxErrors
               THEN [ms EXCEPT ![g] = EndStream(@)] ELSE ms
    /\ task' = [task EXCEPT ![g].err = IF @ < MaxErrors THEN @ + 1 ELSE @]
    /\ UNCHANGED <<born, owner, size, filled, active, op, late>>

\* A refused, empty or broken answer, or a read error: MaxErrors of them in
\* a row end the loop.
FetchFails(g) ==
    /\ task[g].pc = "fetch"
    /\ ~Aborted(g)
    /\ Kind[owner[g]] # "qvod"
    /\ task' = [task EXCEPT ![g] = Failed(@)]
    /\ UNCHANGED <<born, owner, size, ms, filled, active, op, late>>

\* The file turns out to be shorter than when it was probed.
FetchEof(g) ==
    /\ task[g].pc = "fetch"
    /\ ~Aborted(g)
    /\ owner[g] \in Truncatable
    /\ Goto(g, "eofWrite")
    /\ UNCHANGED <<born, owner, size, ms, filled, active, op, late>>

\* buffer.write: the chunk, or at the end of a short file one chunk of zeros.
WriteChunk(g) ==
    /\ task[g].pc \in {"write", "eofWrite"}
    /\ filled' = [filled EXCEPT ![g] = task[g].off + 1]
    /\ late' = [late EXCEPT ![g] = IF ms[g].paused THEN @ + 1 ELSE 0]
    /\ Goto(g, IF task[g].pc = "write" THEN "report" ELSE "eofReport")
    /\ UNCHANGED <<born, owner, size, ms, active, op>>

\* Mutant: the progress runs one chunk ahead of what was written.
ReportOneAhead(g) ==
    /\ task[g].pc = "report"
    /\ LET s == UpdateProgress(ms[g], task[g].off + 2)
       IN  ms' = [ms EXCEPT ![g] = IF Kind[owner[g]] = "file"
                                     THEN UpdatePosition(s) ELSE s]
    /\ task' = [task EXCEPT ![g] = Advanced(@, size[g])]
    /\ UNCHANGED <<born, owner, size, filled, active, op, late>>

\* Report progress under the stream's lock; the file loop also reports a
\* position, which is what completes a seek.
Report(g) ==
    /\ task[g].pc = "report"
    /\ LET s == UpdateProgress(ms[g], task[g].off + 1)
       IN  ms' = [ms EXCEPT ![g] = IF Kind[owner[g]] = "file"
                                     THEN UpdatePosition(s) ELSE s]
    /\ task' = [task EXCEPT ![g] = Advanced(@, size[g])]
    /\ UNCHANGED <<born, owner, size, filled, active, op, late>>

\* A short file is reported as complete.
EofReport(g) ==
    /\ task[g].pc = "eofReport"
    /\ ms' = [ms EXCEPT ![g] = UpdatePosition(UpdateProgress(@, size[g]))]
    /\ Goto(g, "end")
    /\ UNCHANGED <<born, owner, size, filled, active, op, late>>

\* Every loop ends its stream on the way out, after errors too.
EndTask(g) ==
    /\ task[g].pc = "end"
    /\ ms' = [ms EXCEPT ![g] = EndStream(@)]
    /\ Goto(g, "done")
    /\ UNCHANGED <<born, owner, size, filled, active, op, late>>

\* An aborted task is dropped at an await instead of being polled again.
Cancel(g) ==
    /\ Aborted(g)
    /\ task[g].pc \in Running
    /\ Goto(g, "aborted")
    /\ UNCHANGED <<born, owner, size, ms, filled, active, op, late>>
-----------------------------------------------------------------------------
Download(g) == \/ Open(g) \/ Fetch(g) \/ FetchFails(g) \/ FetchEof(g)
               \/ WriteChunk(g) \/ Report(g) \/ EofReport(g) \/ EndTask(g)
               \/ Cancel(g)

Next ==
    \/ \E h \in Sources : \/ BeginPlay(h) \/ PlayFails(h) \/ PlayCached(h)
                          \/ PlayRegister(h) \/ Stop(h)
    \/ PlayStart
    \/ \E c \in Sweeps : \/ BeginSweep(c)
                         \/ EndSweep(c)
                         \/ \E g \in Streams : SweepOne(c, g)
    \/ Disconnect
    \/ \E g \in Created : Download(g)

Spec == Init /\ [][Next]_vars

\* The runtime polls every task that can proceed, and a source that was
\* asked answers or fails.  Nothing is assumed of the clients.
Fairness == \A g \in Streams : WF_vars(g \in Created /\ Download(g))

FairSpec == Spec /\ Fairness
-----------------------------------------------------------------------------
(* Properties *)

Live(g) == g \in Created /\ task[g].pc \in Running

\* A client that is shown Ended is shown a stream nothing will be added to:
\* end() is the last thing a download task does, on each of its ways out,
\* and no command gives that state.
EndedIsOver ==
    \A g \in Created : ms[g].state = "Ended" => task[g].pc = "done"

\* After a pause the qvod loop writes at most the chunk it had already
\* passed its check for, however many commands follow before a resume.
PauseStopsQvod ==
    \A g \in Created :
        Kind[owner[g]] = "qvod" /\ ms[g].paused => late[g] <= 1

\* What the status reports as fetched is in the buffer already, whichever
\* task or command ran in between, and neither passes the end of the file.
\* (A file cut short while it is read is reported complete regardless.)
ProgressIsBuffered ==
    \A g \in Created :
        /\ owner[g] \notin Truncatable => ms[g].progress <= filled[g]
        /\ filled[g] <= size[g]
        /\ ms[g].progress <= size[g]

\* When play() of a source that is already registered replaces its entry,
\* the registry, and with it every later read, status and stop, refers to
\* the youngest stream of that source and to no other.
NewestRegistered ==
    \A h \in Sources : active[h] # 0 =>
        /\ owner[active[h]] = h
        /\ \A g \in Created : owner[g] = h => g <= active[h]

\* While a pause walks the registry, the streams it has passed stay paused
\* under the running tasks: their reports must not turn them to Playing.
PauseHolds ==
    op.cmd = "pause" =>
        \A g \in Registered \ op.todo :
            ms[g].paused /\ ms[g].state \in {"Paused", "Ended"}

\* A download from an http source or a file ends by itself, by completion,
\* by too many errors in a row or by an abort.
DownloadsEnd ==
    \A g \in Streams :
        (Live(g) /\ Kind[owner[g]] # "qvod") ~> ~Live(g)

\* A qvod download cannot stay unpaused for ever without ending.
QvodMovesOn ==
    \A g \in Streams : []<>(~Live(g) \/ ms[g].paused)

\* stop() ends the task of the stream it removes, also when that task is
\* waiting for a resume that can no longer reach it.
Youngest(g) == \A k \in Created : owner[k] = owner[g] => k <= g

StoppedEnds ==
    \A g \in Streams :
        (g \in Created /\ active[owner[g]] = 0 /\ Youngest(g)) ~> ~Live(g)

\* docs/api/README.md:426 of stop(): "Stop and clean up a stream": once a
\* source has been stopped, and unless it is played again, no task of it
\* goes on.  A task orphaned by a second play of the source does.
StopCleansUp ==
    \A g \in Streams :
        (g \in Created /\ active[owner[g]] = 0)
            ~> (~Live(g) \/ active[owner[g]] # 0)
=============================================================================
