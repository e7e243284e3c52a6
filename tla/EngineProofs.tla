---------------------------- MODULE EngineProofs ----------------------------
(***************************************************************************)
(* Invariants of Engine, for any set of sources of any kinds and sizes,    *)
(* any number of streams and any bound on errors.                          *)
(*                                                                         *)
(* Typing comes first; the other invariants are then strengthened into     *)
(* inductive ones, one per question, each preserved by every action:       *)
(*   EndedIsOver, NewestRegistered and PauseHolds are inductive with       *)
(*   TypeOK; PauseStopsQvod needs PausePhase, which says where the one     *)
(*   late chunk can come from; ProgressIsBuffered needs Phase, which ties  *)
(*   the buffer and the progress to the point a task has reached.          *)
(***************************************************************************)
EXTENDS Engine, TLAPS

USE KindAssumption, SizesAssumption, CachedAssumption, TruncatableAssumption,
    BoundsAssumption

-----------------------------------------------------------------------------
(* Typing *)

LEMMA ExtendedType ==
    ASSUME NEW S, NEW f \in [Created -> S], NEW v \in S, born \in Nat
    PROVE  /\ Extended(f, v) \in [1..born + 1 -> S]
           /\ Extended(f, v)[born + 1] = v
           /\ \A g \in Created : Extended(f, v)[g] = f[g]
  BY DEF Extended, Created

\* The methods of a stream give a stream.
LEMMA StreamMethods ==
    ASSUME NEW s \in MediaStreams, NEW p \in Nat
    PROVE  /\ NewStream \in MediaStreams
           /\ PlayStream(s) \in MediaStreams
           /\ PauseStream(s) \in MediaStreams
           /\ ResumeStream(s) \in MediaStreams
           /\ SeekStream(s) \in MediaStreams
           /\ EndStream(s) \in MediaStreams
           /\ UpdatePosition(s) \in MediaStreams
           /\ UpdateProgress(s, p) \in MediaStreams
  BY DEF MediaStreams, StreamState, NewStream, PlayStream, PauseStream,
         ResumeStream, SeekStream, EndStream, UpdatePosition, UpdateProgress

LEMMA SweptType ==
    ASSUME NEW s \in MediaStreams, NEW c \in Sweeps
    PROVE  Swept(c, s) \in MediaStreams
  BY StreamMethods, 0 \in Nat DEF Swept, Sweeps

\* A command that walks the registry is a record with the streams to come.
LEMMA SweepShape ==
    ASSUME NEW c \in Sweeps, op \in Ops, op.cmd = c
    PROVE  op.todo \in SUBSET Streams /\ op = Sweeping(c, op.todo)
  BY DEF Ops, Sweeps, Idle, Starting, Playing, Sweeping

LEMMA RegisterType ==
    ASSUME TypeOK, NEW h \in Sources, NEW n \in Nat, NEW t \in Tasks,
           born < MaxStreams, Register(h, n, t)
    PROVE  /\ born' = born + 1
           /\ born' \in 0..MaxStreams
           /\ owner' \in [Created' -> Sources]
           /\ size' \in [Created' -> Nat]
           /\ ms' \in [Created' -> MediaStreams]
           /\ filled' \in [Created' -> Nat]
           /\ task' \in [Created' -> Tasks]
           /\ late' \in [Created' -> Nat]
           /\ active' \in [Sources -> 0..born']
  <1>1. born \in Nat /\ born' = born + 1 /\ born' \in 0..MaxStreams
    BY DEF TypeOK, Register
  <1>2. Created' = 1..born + 1
    BY <1>1 DEF Created
  <1>3. NewStream \in MediaStreams
    BY DEF NewStream, MediaStreams, StreamState
  <1>4. active' \in [Sources -> 0..born']
    BY <1>1 DEF TypeOK, Register
  <1>5. /\ owner' \in [Created' -> Sources]
        /\ size' \in [Created' -> Nat]
        /\ ms' \in [Created' -> MediaStreams]
        /\ filled' \in [Created' -> Nat]
        /\ task' \in [Created' -> Tasks]
        /\ late' \in [Created' -> Nat]
    BY <1>1, <1>2, <1>3, ExtendedType DEF TypeOK, Register
  <1>6. QED
    BY <1>1, <1>4, <1>5

LEMMA SpawnedType ==
    ASSUME NEW h \in Sources, NEW n \in Nat, NEW t \in Spawned(h, n)
    PROVE  /\ t \in Tasks
           /\ t.off = 0 /\ t.err = 0
           /\ t.pc \in {"none", "open", "fetch", "end"}
           /\ t.pc \in {"open", "fetch"} => n > 0
  <1>1. \A pc \in Running \cup Over :
            /\ Task(pc) \in Tasks /\ Task(pc).pc = pc
            /\ Task(pc).off = 0 /\ Task(pc).err = 0
    BY DEF Task, Tasks
  <1>2. \E pc \in {"none", "open", "fetch", "end"} :
            t = Task(pc) /\ (pc \in {"open", "fetch"} => n > 0)
    BY DEF Spawned
  <1>3. QED
    BY <1>1, <1>2 DEF Running, Over

\* The steps of a loop give a task, and these values of its fields.
LEMMA TaskMethods ==
    ASSUME NEW t \in Tasks, NEW n \in Nat
    PROVE  /\ Fetched(t) \in Tasks
           /\ Fetched(t).pc = "write" /\ Fetched(t).err = 0
           /\ Fetched(t).off = t.off
           /\ Advanced(t, n) \in Tasks
           /\ Advanced(t, n).pc = IF t.off + 1 = n THEN "end" ELSE "fetch"
           /\ Advanced(t, n).err = t.err
           /\ Advanced(t, n).off = t.off + 1
           /\ AbortTask(t) \in Tasks
           /\ AbortTask(t).pc = t.pc
           /\ AbortTask(t).err = t.err
           /\ AbortTask(t).off = t.off
  <1>1. 0 \in 0..MaxErrors /\ "write" \in Running /\ "fetch" \in Running
        /\ "end" \in Running
    BY BoundsAssumption DEF Running
  <1>2. /\ Fetched(t) \in Tasks
        /\ Fetched(t).pc = "write" /\ Fetched(t).err = 0
        /\ Fetched(t).off = t.off
    BY <1>1 DEF Tasks, Fetched
  <1>3. /\ Advanced(t, n) \in Tasks
        /\ Advanced(t, n).pc = IF t.off + 1 = n THEN "end" ELSE "fetch"
        /\ Advanced(t, n).err = t.err
        /\ Advanced(t, n).off = t.off + 1
    <2> DEFINE pc == IF t.off + 1 = n THEN "end" ELSE "fetch"
               off == t.off + 1
    <2>1. pc \in Running /\ off \in Nat
      BY <1>1 DEF Tasks
    <2>2. Advanced(t, n) = [t EXCEPT !.off = off, !.pc = pc]
      BY DEF Advanced
    <2> HIDE DEF pc, off
    <2>3. /\ Advanced(t, n) \in Tasks
          /\ Advanced(t, n).pc = pc
          /\ Advanced(t, n).err = t.err
          /\ Advanced(t, n).off = off
      BY <2>1, <2>2 DEF Tasks
    <2>4. QED
      BY <2>3 DEF pc, off
  <1>4. /\ AbortTask(t) \in Tasks
        /\ AbortTask(t).pc = t.pc
        /\ AbortTask(t).err = t.err
        /\ AbortTask(t).off = t.off
    BY DEF Tasks, AbortTask
  <1>5. QED
    BY <1>2, <1>3, <1>4

LEMMA MovedTask ==
    ASSUME NEW t \in Tasks, NEW pc \in Running \cup Over
    PROVE  /\ Moved(t, pc) \in Tasks
           /\ Moved(t, pc).pc = pc
           /\ Moved(t, pc).err = t.err
           /\ Moved(t, pc).off = t.off
  BY DEF Tasks, Moved

LEMMA FailedTask ==
    ASSUME NEW t \in Tasks, t.err < MaxErrors
    PROVE  /\ Failed(t) \in Tasks
           /\ Failed(t).pc \in {"end", "fetch"}
           /\ Failed(t).pc = "fetch" => Failed(t).err < MaxErrors
           /\ Failed(t).off = t.off
  <1>1. "fetch" \in Running /\ "end" \in Running
    BY DEF Running
  <1>2. t.err + 1 \in 0..MaxErrors
    BY BoundsAssumption DEF Tasks
  <1>3. CASE t.err + 1 >= MaxErrors
    BY <1>1, <1>2, <1>3 DEF Tasks, Failed
  <1>4. CASE ~(t.err + 1 >= MaxErrors)
    <2>1. t.err + 1 < MaxErrors
      BY <1>2, <1>4, BoundsAssumption
    <2>2. QED
      BY <1>1, <1>2, <1>4, <2>1 DEF Tasks, Failed
  <1>5. QED
    BY <1>3, <1>4

LEMMA SweepingType ==
    ASSUME NEW c \in Sweeps, NEW todo \in SUBSET Streams
    PROVE  /\ Sweeping(c, todo) \in Ops
           /\ Sweeping(c, todo).cmd = c
           /\ Sweeping(c, todo).todo = todo
  BY DEF Ops, Sweeping

\* The bound on the number of streams leaves room for the play in progress,
\* and a task that can fail once more has not failed too often yet.
CanFail(t) == t.pc \in {"open", "fetch", "write", "report"} => t.err < MaxErrors

Room ==
    /\ op.cmd = "play" => born < MaxStreams
    /\ \A g \in Created : CanFail(task[g])

LEMMA InitType == Init => TypeOK /\ Room
  BY DEF Init, TypeOK, Room, Empty, Created, Ops, Idle

\* The commands that create a stream.
LEMMA PlayedType ==
    ASSUME TypeOK, Room, NEW h \in Sources,
           PlayCached(h) \/ PlayRegister(h)
    PROVE  TypeOK' /\ Room'
  <1>1. /\ op' \in {Idle, Starting}
        /\ born < MaxStreams
    BY DEF PlayCached, PlayRegister, Room, Playing
  <1>2. \A n \in Sizes[h] : n \in Nat
    OBVIOUS
  <1>3. Task("none") \in Tasks /\ Task("none").err = 0
    BY DEF Task, Tasks, Over
  <1>4. \A n \in Nat : \A t \in Spawned(h, n) : t \in Tasks /\ t.err = 0
    BY SpawnedType
  <1>5. \E n \in Nat, t \in Tasks : t.err = 0 /\ Register(h, n, t)
    BY <1>2, <1>3, <1>4 DEF PlayCached, PlayRegister
  <1>6. PICK n \in Nat, t \in Tasks : t.err = 0 /\ Register(h, n, t)
    BY <1>5
  <1>7. TypeOK'
    BY <1>1, <1>6, RegisterType DEF TypeOK, Ops, Idle, Starting
  <1>8. \A g \in Created' : task'[g] = t \/ (g \in Created /\ task'[g] = task[g])
    <2>1. born \in Nat /\ Created' = 1..born + 1
      BY <1>6 DEF Register, Created, TypeOK
    <2>2. QED
      BY <1>6, <2>1 DEF Register, Extended, Created
  <1>9. QED
    BY <1>1, <1>6, <1>7, <1>8 DEF Room, CanFail, Idle, Starting

\* The commands that create none.
Command ==
    \/ \E h \in Sources : BeginPlay(h) \/ PlayFails(h) \/ Stop(h)
    \/ PlayStart
    \/ \E c \in Sweeps : \/ BeginSweep(c)
                         \/ EndSweep(c)
                         \/ \E g \in Streams : SweepOne(c, g)
    \/ Disconnect

LEMMA CommandType ==
    ASSUME TypeOK, Room, Command
    PROVE  TypeOK' /\ Room'
  <1>1. ASSUME NEW h \in Sources, BeginPlay(h) PROVE  TypeOK' /\ Room'
    <2>1. op' \in Ops /\ born < MaxStreams
      BY <1>1 DEF BeginPlay, Ops
    <2>2. UNCHANGED <<born, owner, size, ms, filled, task, active, late>>
      BY <1>1 DEF BeginPlay
    <2>3. Created' = Created
      BY <2>2 DEF Created
    <2>4. QED
      BY <2>1, <2>2, <2>3 DEF TypeOK, Room
  <1>2. ASSUME op' = Idle,
               UNCHANGED <<born, owner, size, ms, filled, task, active, late>>
        PROVE  TypeOK' /\ Room'
    <2>1. Idle \in Ops /\ Idle.cmd # "play"
      BY DEF Ops, Idle
    <2>2. Created' = Created
      BY <1>2 DEF Created
    <2>3. QED
      BY <1>2, <2>1, <2>2 DEF TypeOK, Room
  <1>3. CASE PlayStart
    <2>1. ms' \in [Created -> MediaStreams] /\ late' \in [Created -> Nat]
      BY <1>3, StreamMethods, 0 \in Nat DEF PlayStart, TypeOK
    <2>2. QED
      BY <1>3, <2>1 DEF PlayStart, TypeOK, Room, Ops, Created, Idle
  <1>4. ASSUME NEW h \in Sources, Stop(h) PROVE  TypeOK' /\ Room'
    <2>1. active[h] \in Created
      BY <1>4 DEF Stop, TypeOK, Created
    <2>2. task[active[h]] \in Tasks
      BY <2>1 DEF TypeOK
    <2>3. task' \in [Created -> Tasks] /\ active' \in [Sources -> 0..born]
      BY <1>4, <2>1, <2>2, TaskMethods, 0 \in Nat DEF Stop, TypeOK
    <2>4. \A k \in Created : task'[k].pc = task[k].pc /\ task'[k].err = task[k].err
      BY <1>4, <2>1, <2>2, TaskMethods, 0 \in Nat DEF Stop, TypeOK
    <2>5. QED
      BY <1>4, <2>3, <2>4 DEF Stop, TypeOK, Room, CanFail, Created
  <1>5. ASSUME NEW c \in Sweeps, BeginSweep(c) PROVE  TypeOK' /\ Room'
    <2>1. Registered \in SUBSET Streams
      BY DEF Registered, TypeOK, Streams
    <2>2. op' \in Ops /\ op'.cmd # "play"
      BY <1>5, <2>1, SweepingType DEF BeginSweep, Sweeps
    <2>3. QED
      BY <1>5, <2>2 DEF BeginSweep, TypeOK, Room, Created
  <1>6. ASSUME NEW c \in Sweeps, NEW g \in Streams, SweepOne(c, g)
        PROVE  TypeOK' /\ Room'
    <2>1. op.todo \ {g} \in SUBSET Streams
      BY <1>6, SweepShape DEF SweepOne, TypeOK
    <2>2. op' \in Ops /\ op'.cmd # "play"
      BY <1>6, <2>1, SweepingType DEF SweepOne, Sweeps
    <2>3. ms' \in [Created -> MediaStreams] /\ late' \in [Created -> Nat]
      BY <1>6, SweptType DEF SweepOne, TypeOK
    <2>4. QED
      BY <1>6, <2>2, <2>3 DEF SweepOne, TypeOK, Room, Created
  <1>7. QED
    BY <1>1, <1>2, <1>3, <1>4, <1>5, <1>6
       DEF Command, PlayFails, EndSweep, Disconnect

\* The step gives the task of g a new value of the right kind.
SetsTask(g) == \E t \in Tasks : task' = [task EXCEPT ![g] = t] /\ CanFail(t)

LEMMA DownloadType ==
    ASSUME TypeOK, Room, NEW g \in Created, Download(g)
    PROVE  TypeOK' /\ Room'
  <1>1. /\ task[g] \in Tasks
        /\ task[g].off + 1 \in Nat
        /\ size[g] \in Nat
        /\ ms[g] \in MediaStreams
    BY DEF TypeOK, Tasks
  <1>2. UNCHANGED <<born, owner, size, active, op>>
    BY DEF Download, Open, Fetch, FetchFails, FetchEof, WriteChunk, Report,
       EofReport, EndTask, Cancel
  <1>3. ms' \in [Created -> MediaStreams]
    <2>1. CASE Report(g)
      <3>1. UpdateProgress(ms[g], task[g].off + 1) \in MediaStreams
        BY <1>1, StreamMethods
      <3>2. QED
        BY <2>1, <3>1, StreamMethods, 0 \in Nat DEF Report, TypeOK
    <2>2. CASE EofReport(g)
      <3>1. UpdateProgress(ms[g], size[g]) \in MediaStreams
        BY <1>1, StreamMethods
      <3>2. QED
        BY <2>2, <3>1, StreamMethods, 0 \in Nat DEF EofReport, TypeOK
    <2>3. CASE EndTask(g)
      BY <1>1, <2>3, StreamMethods, 0 \in Nat DEF EndTask, TypeOK
    <2>4. CASE ~Report(g) /\ ~EofReport(g) /\ ~EndTask(g)
      BY <2>4 DEF Download, TypeOK, Open, Fetch, FetchFails, FetchEof,
         WriteChunk, Cancel
    <2>5. QED
      BY <2>1, <2>2, <2>3, <2>4
  <1>4. filled' \in [Created -> Nat] /\ late' \in [Created -> Nat]
    <2>1. CASE WriteChunk(g)
      BY <1>1, <2>1 DEF WriteChunk, TypeOK
    <2>2. CASE ~WriteChunk(g)
      BY <2>2 DEF Download, TypeOK, Open, Fetch, FetchFails, FetchEof, Report,
         EofReport, EndTask, Cancel
    <2>3. QED
      BY <2>1, <2>2
  <1>5. SetsTask(g)
    <2>1. ASSUME NEW pc \in Running \cup Over, Goto(g, pc),
                 \/ pc \notin {"open", "fetch", "write", "report"}
                 \/ task[g].err < MaxErrors
          PROVE  SetsTask(g)
      <3>1. Moved(task[g], pc) \in Tasks /\ CanFail(Moved(task[g], pc))
        BY <1>1, <2>1, MovedTask DEF CanFail
      <3>2. QED
        BY <2>1, <3>1 DEF Goto, SetsTask
    <2>2. CASE Open(g)
      <3>1. PICK pc \in {"fetch", "end"} : Goto(g, pc)
        BY <2>2 DEF Open
      <3>2. QED
        BY <2>1, <2>2, <3>1 DEF Open, Room, CanFail, Running
    <2>3. CASE Fetch(g)
      <3>1. 0 < MaxErrors
        BY BoundsAssumption
      <3>2. Fetched(task[g]) \in Tasks /\ CanFail(Fetched(task[g]))
        BY <1>1, <3>1, TaskMethods DEF CanFail
      <3>3. QED
        BY <2>3, <3>2 DEF Fetch, SetsTask
    <2>4. CASE FetchFails(g)
      <3>1. task[g].err < MaxErrors
        BY <2>4 DEF FetchFails, Room, CanFail
      <3>2. Failed(task[g]) \in Tasks /\ CanFail(Failed(task[g]))
        BY <1>1, <3>1, FailedTask DEF CanFail
      <3>3. QED
        BY <1>1, <2>4, <3>1, <3>2 DEF FetchFails, SetsTask
    <2>5. CASE FetchEof(g)
      BY <2>1, <2>5 DEF FetchEof, Running
    <2>6. CASE WriteChunk(g)
      <3>1. PICK pc \in {"report", "eofReport"} :
                Goto(g, pc) /\ (pc = "report" => task[g].pc = "write")
        BY <2>6 DEF WriteChunk
      <3>2. QED
        BY <2>1, <3>1 DEF Room, CanFail, Running
    <2>7. CASE Report(g)
      <3>1. task[g].err < MaxErrors
        BY <2>7 DEF Report, Room, CanFail
      <3>2. QED
        BY <1>1, <2>7, <3>1, TaskMethods DEF Report, SetsTask, CanFail
    <2>8. CASE EofReport(g)
      BY <2>1, <2>8 DEF EofReport, Running
    <2>9. CASE EndTask(g)
      BY <2>1, <2>9 DEF EndTask, Over
    <2>10. CASE Cancel(g)
      BY <2>1, <2>10 DEF Cancel, Over
    <2>11. QED
      BY <2>2, <2>3, <2>4, <2>5, <2>6, <2>7, <2>8, <2>9, <2>10 DEF Download
  <1>6. task' \in [Created -> Tasks] /\ \A k \in Created : CanFail(task'[k])
    BY <1>5 DEF SetsTask, TypeOK, Room
  <1>7. QED
    BY <1>2, <1>3, <1>4, <1>6 DEF TypeOK, Room, Created

LEMMA NextCases ==
    Next => \/ \E h \in Sources : PlayCached(h) \/ PlayRegister(h)
            \/ Command
            \/ \E g \in Created : Download(g)
  BY DEF Next, Command

LEMMA TypeStep == TypeOK /\ Room /\ [Next]_vars => TypeOK' /\ Room'
  <1> SUFFICES ASSUME TypeOK, Room, [Next]_vars PROVE TypeOK' /\ Room'
    OBVIOUS
  <1>1. CASE UNCHANGED vars
    BY <1>1 DEF vars, TypeOK, Room, CanFail, Created
  <1>2. QED
    BY <1>1, NextCases, PlayedType, CommandType, DownloadType

\* The state of the engine stays within its types: in particular a loop never
\* counts more failures than MaxErrors, and the registry refers to streams
\* that exist.
THEOREM TypeTheorem == Spec => []TypeOK
  <1>1. Spec => [](TypeOK /\ Room)
    BY InitType, TypeStep, PTL DEF Spec
  <1>2. QED
    BY <1>1, PTL
-----------------------------------------------------------------------------
(* What the steps do, stated once for the invariants below *)

\* The fields the methods of a stream set and keep.
LEMMA StreamFields ==
    ASSUME NEW s \in MediaStreams, NEW p \in Nat
    PROVE  /\ PlayStream(s).state = "Playing" /\ ~PlayStream(s).paused
           /\ PlayStream(s).progress = s.progress
           /\ PauseStream(s).state = "Paused" /\ PauseStream(s).paused
           /\ PauseStream(s).progress = s.progress
           /\ ResumeStream(s).state = "Playing" /\ ~ResumeStream(s).paused
           /\ ResumeStream(s).progress = s.progress
           /\ SeekStream(s).state = "Seeking" /\ SeekStream(s).paused = s.paused
           /\ SeekStream(s).progress = s.progress
           /\ EndStream(s).state = "Ended" /\ EndStream(s).paused = s.paused
           /\ EndStream(s).progress = s.progress
           /\ UpdatePosition(s).state \in {s.state, "Playing"}
           /\ s.state # "Seeking" => UpdatePosition(s).state = s.state
           /\ UpdatePosition(s).paused = s.paused
           /\ UpdatePosition(s).progress = s.progress
           /\ UpdateProgress(s, p).state = s.state
           /\ UpdateProgress(s, p).paused = s.paused
           /\ UpdateProgress(s, p).progress = p
  BY DEF MediaStreams, StreamState, PlayStream, PauseStream, ResumeStream,
         SeekStream, EndStream, UpdatePosition, UpdateProgress

LEMMA ReportedStream ==
    ASSUME NEW s \in MediaStreams, NEW p \in Nat
    PROVE  /\ UpdateProgress(s, p) \in MediaStreams
           /\ UpdatePosition(UpdateProgress(s, p)).paused = s.paused
           /\ UpdatePosition(UpdateProgress(s, p)).progress = p
           /\ UpdatePosition(UpdateProgress(s, p)).state \in {s.state, "Playing"}
           /\ s.state # "Seeking" =>
                 UpdatePosition(UpdateProgress(s, p)).state = s.state
  BY DEF MediaStreams, StreamState, UpdatePosition, UpdateProgress

\* A report keeps the paused flag, sets the progress, and changes the state
\* shown only by completing a seek.
LEMMA ReportStep ==
    ASSUME TypeOK, NEW g \in Created, Report(g) \/ EofReport(g)
    PROVE  /\ ms'[g].paused = ms[g].paused
           /\ ms'[g].state \in {ms[g].state, "Playing"}
           /\ ms[g].state # "Seeking" => ms'[g].state = ms[g].state
           /\ Report(g) => ms'[g].progress = task[g].off + 1
           /\ EofReport(g) => ms'[g].progress = size[g]
  <1>1. /\ ms[g] \in MediaStreams /\ g \in DOMAIN ms
        /\ size[g] \in Nat /\ task[g].off + 1 \in Nat
    BY DEF TypeOK, Tasks
  <1>2. ASSUME NEW p \in Nat, \/ ms'[g] = UpdateProgress(ms[g], p)
                              \/ ms'[g] = UpdatePosition(UpdateProgress(ms[g], p))
        PROVE  /\ ms'[g].paused = ms[g].paused
               /\ ms'[g].state \in {ms[g].state, "Playing"}
               /\ ms[g].state # "Seeking" => ms'[g].state = ms[g].state
               /\ ms'[g].progress = p
    <2>1. CASE ms'[g] = UpdateProgress(ms[g], p)
      BY <1>1, <2>1 DEF UpdateProgress, MediaStreams
    <2>2. CASE ms'[g] = UpdatePosition(UpdateProgress(ms[g], p))
      BY <1>1, <2>2, ReportedStream
    <2>3. QED
      BY <1>2, <2>1, <2>2
  <1>3. CASE Report(g)
    <2>1. \/ ms'[g] = UpdateProgress(ms[g], task[g].off + 1)
          \/ ms'[g] = UpdatePosition(UpdateProgress(ms[g], task[g].off + 1))
      BY <1>1, <1>3 DEF Report
    <2>2. ~EofReport(g)
      BY <1>3 DEF Report, EofReport
    <2>3. QED
      BY <1>1, <1>2, <2>1, <2>2
  <1>4. CASE EofReport(g)
    <2>1. ms'[g] = UpdatePosition(UpdateProgress(ms[g], size[g]))
      BY <1>1, <1>4 DEF EofReport
    <2>2. ~Report(g)
      BY <1>4 DEF Report, EofReport
    <2>3. QED
      BY <1>1, <1>2, <2>1, <2>2
  <1>5. QED
    BY <1>3, <1>4

\* A play adds one stream, new and with no chunk, and leaves the others alone.
LEMMA PlayedStep ==
    ASSUME TypeOK, Room, NEW h \in Sources, PlayCached(h) \/ PlayRegister(h)
    PROVE  /\ born' = born + 1 /\ born \in Nat
           /\ op' \in {Idle, Starting}
           /\ active' = [active EXCEPT ![h] = born + 1]
           /\ owner'[born + 1] = h
           /\ ms'[born + 1] = NewStream
           /\ filled'[born + 1] = 0 /\ late'[born + 1] = 0
           /\ size'[born + 1] \in Nat
           /\ task'[born + 1].off = 0
           /\ task'[born + 1].pc \in {"none", "open", "fetch", "end"}
           /\ task'[born + 1].pc \in {"open", "fetch"} => size'[born + 1] > 0
           /\ \A k \in Created :
                 /\ owner'[k] = owner[k] /\ size'[k] = size[k]
                 /\ ms'[k] = ms[k] /\ task'[k] = task[k]
                 /\ filled'[k] = filled[k] /\ late'[k] = late[k]
           /\ \A k \in Created' : k = born + 1 \/ k \in Created
  <1>1. \A n \in Sizes[h] : n \in Nat
    OBVIOUS
  <1>2. Task("none").off = 0 /\ Task("none").pc = "none"
    BY DEF Task
  <1>3. \A n \in Nat : \A t \in Spawned(h, n) :
            /\ t.off = 0
            /\ t.pc \in {"none", "open", "fetch", "end"}
            /\ t.pc \in {"open", "fetch"} => n > 0
    BY SpawnedType
  <1>4. \E n \in Nat : \E t :
            /\ Register(h, n, t)
            /\ t.off = 0
            /\ t.pc \in {"none", "open", "fetch", "end"}
            /\ t.pc \in {"open", "fetch"} => n > 0
    BY <1>1, <1>2, <1>3 DEF PlayCached, PlayRegister
  <1>5. PICK n \in Nat :  \E t :
            /\ Register(h, n, t)
            /\ t.off = 0
            /\ t.pc \in {"none", "open", "fetch", "end"}
            /\ t.pc \in {"open", "fetch"} => n > 0
    BY <1>4
  <1>6. PICK t :
            /\ Register(h, n, t)
            /\ t.off = 0
            /\ t.pc \in {"none", "open", "fetch", "end"}
            /\ t.pc \in {"open", "fetch"} => n > 0
    BY <1>5
  <1>7. born \in Nat /\ born' = born + 1
    BY <1>6 DEF TypeOK, Register
  <1>8. /\ active' = [active EXCEPT ![h] = born + 1]
        /\ op' \in {Idle, Starting}
    BY <1>6 DEF Register, PlayCached, PlayRegister
  <1>9. \A f, v : /\ Extended(f, v)[born + 1] = v
                  /\ \A k \in Created : Extended(f, v)[k] = f[k]
    BY <1>7 DEF Extended, Created
  <1>10. /\ owner'[born + 1] = h
         /\ ms'[born + 1] = NewStream
         /\ filled'[born + 1] = 0 /\ late'[born + 1] = 0
         /\ size'[born + 1] = n
         /\ task'[born + 1] = t
    BY <1>6, <1>9 DEF Register
  <1>11. \A k \in Created :
             /\ owner'[k] = owner[k] /\ size'[k] = size[k]
             /\ ms'[k] = ms[k] /\ task'[k] = task[k]
             /\ filled'[k] = filled[k] /\ late'[k] = late[k]
    BY <1>6, <1>9 DEF Register
  <1>12. \A k \in Created' : k = born + 1 \/ k \in Created
    BY <1>7 DEF Created
  <1>13. QED
    BY <1>6, <1>7, <1>8, <1>10, <1>11, <1>12

\* What a command may do to a stream.
Touched(k) ==
    \/ ms'[k] = ms[k] /\ late'[k] = late[k]
    \/ ms'[k] = PlayStream(ms[k]) /\ late'[k] = 0
    \/ ms'[k] = ResumeStream(ms[k]) /\ late'[k] = 0
    \/ ms'[k] = PauseStream(ms[k]) /\ late'[k] \in {0, late[k]}
    \/ ms'[k] = SeekStream(ms[k]) /\ late'[k] = late[k]

\* The other commands create and download nothing.
LEMMA CommandStep ==
    ASSUME TypeOK, Room, Command
    PROVE  /\ UNCHANGED <<born, owner, size, filled>>
           /\ Created' = Created
           /\ \A k \in Created : /\ task'[k].pc = task[k].pc
                                 /\ task'[k].off = task[k].off
                                 /\ task'[k].err = task[k].err
           /\ \A k \in Created : Touched(k)
  <1>1. UNCHANGED <<born, owner, size, filled>>
    BY DEF Command, BeginPlay, PlayFails, Stop, PlayStart, BeginSweep, EndSweep,
       SweepOne, Disconnect
  <1>2. Created' = Created
    BY <1>1 DEF Created
  <1>3. \A k \in Created : /\ task'[k].pc = task[k].pc
                           /\ task'[k].off = task[k].off
                           /\ task'[k].err = task[k].err
    <2>1. ASSUME NEW h \in Sources, Stop(h), NEW k \in Created
          PROVE  /\ task'[k].pc = task[k].pc
                 /\ task'[k].off = task[k].off
                 /\ task'[k].err = task[k].err
      <3>1. task[k] \in Tasks
        BY DEF TypeOK
      <3>2. task'[k] = task[k] \/ task'[k] = AbortTask(task[k])
        BY <2>1 DEF Stop, TypeOK
      <3>3. QED
        BY <3>1, <3>2, TaskMethods, 0 \in Nat
    <2>2. CASE UNCHANGED task
      BY <2>2
    <2>3. QED
      BY <2>1, <2>2 DEF Command, BeginPlay, PlayFails, PlayStart, BeginSweep,
         EndSweep, SweepOne, Disconnect
  <1>4. ASSUME NEW k \in Created
        PROVE  Touched(k)
    <2>1. CASE PlayStart
      BY <2>1 DEF PlayStart, TypeOK, Touched
    <2>2. ASSUME NEW c \in Sweeps, NEW g \in Streams, SweepOne(c, g)
          PROVE  Touched(k)
      BY <2>2 DEF SweepOne, Swept, Sweeps, TypeOK, Touched
    <2>3. CASE UNCHANGED <<ms, late>>
      BY <2>3 DEF Touched
    <2>4. QED
      BY <2>1, <2>2, <2>3 DEF Command, BeginPlay, PlayFails, Stop, BeginSweep,
         EndSweep, Disconnect
  <1>5. QED
    BY <1>1, <1>2, <1>3, <1>4

\* A step of a download task touches its own stream.
LEMMA DownloadStep ==
    ASSUME TypeOK, NEW g \in Created, Download(g)
    PROVE  /\ UNCHANGED <<born, owner, size, active, op>>
           /\ Created' = Created
           /\ task[g].pc \in Running
           /\ \A k \in Created \ {g} : /\ ms'[k] = ms[k] /\ task'[k] = task[k]
                                       /\ filled'[k] = filled[k]
                                       /\ late'[k] = late[k]
  <1>1. UNCHANGED <<born, owner, size, active, op>> /\ task[g].pc \in Running
    BY DEF Download, Open, Fetch, FetchFails, FetchEof, WriteChunk, Report,
       EofReport, EndTask, Cancel, Running
  <1>2. \A k \in Created \ {g} : task'[k] = task[k]
    BY DEF TypeOK, Download, Open, Fetch, FetchFails, FetchEof, WriteChunk,
       Report, EofReport, EndTask, Cancel, Goto
  <1>3. \A k \in Created \ {g} : /\ ms'[k] = ms[k]
                                 /\ filled'[k] = filled[k] /\ late'[k] = late[k]
    BY DEF TypeOK, Download, Open, Fetch, FetchFails, FetchEof, WriteChunk,
       Report, EofReport, EndTask, Cancel
  <1>4. QED
    BY <1>1, <1>2, <1>3 DEF Created
-----------------------------------------------------------------------------
(* Ended, and the registry *)

LEMMA EndedInductive ==
    TypeOK /\ Room /\ EndedIsOver /\ [Next]_vars => EndedIsOver'
  <1> SUFFICES ASSUME TypeOK, Room, EndedIsOver, [Next]_vars
               PROVE  EndedIsOver'
    OBVIOUS
  <1>1. ASSUME NEW h \in Sources, PlayCached(h) \/ PlayRegister(h)
        PROVE  EndedIsOver'
    <2>1. NewStream.state = "Initializing"
      BY DEF NewStream
    <2>2. QED
      BY <1>1, <2>1, PlayedStep DEF EndedIsOver
  <1>2. CASE Command
    <2>1. ASSUME NEW k \in Created', ms'[k].state = "Ended"
          PROVE  task'[k].pc = "done"
      <3>1. k \in Created /\ task'[k].pc = task[k].pc /\ Touched(k)
        BY <1>2, CommandStep
      <3>2. ms[k] \in MediaStreams
        BY <3>1 DEF TypeOK
      <3>3. ms'[k] = ms[k]
        BY <2>1, <3>1, <3>2, StreamFields, 0 \in Nat DEF Touched
      <3>4. QED
        BY <2>1, <3>1, <3>3 DEF EndedIsOver
    <2>2. QED
      BY <2>1 DEF EndedIsOver
  <1>3. ASSUME NEW g \in Created, Download(g)
        PROVE  EndedIsOver'
    <2>1. /\ Created' = Created /\ task[g].pc \in Running
          /\ \A k \in Created \ {g} : ms'[k] = ms[k] /\ task'[k] = task[k]
      BY <1>3, DownloadStep
    <2>2. ms[g].state # "Ended"
      BY <2>1 DEF EndedIsOver, Running
    <2>3. /\ ms[g] \in MediaStreams /\ task[g] \in Tasks
          /\ size[g] \in Nat /\ task[g].off + 1 \in Nat
      BY DEF TypeOK, Tasks
    <2>4. ms'[g].state = "Ended" => task'[g].pc = "done"
      <3>1. CASE Report(g) \/ EofReport(g)
        BY <2>2, <3>1, ReportStep
      <3>2. CASE EndTask(g)
        <4>1. task'[g] = Moved(task[g], "done") /\ "done" \in Running \cup Over
          BY <3>2 DEF EndTask, Goto, TypeOK, Over
        <4>2. QED
          BY <2>3, <4>1, MovedTask
      <3>3. CASE UNCHANGED ms
        BY <2>2, <3>3
      <3>4. QED
        BY <1>3, <3>1, <3>2, <3>3 DEF Download, Open, Fetch, FetchFails,
           FetchEof, WriteChunk, Cancel
    <2>5. QED
      BY <2>1, <2>4 DEF EndedIsOver
  <1>4. CASE UNCHANGED vars
    BY <1>4 DEF vars, EndedIsOver, Created
  <1>5. QED
    BY <1>1, <1>2, <1>3, <1>4, NextCases

\* A stream shown as Ended has no download left: its task is over, in every
\* interleaving of commands, disconnects and tasks.
THEOREM EndedTheorem == Spec => []EndedIsOver
  <1>1. Init => EndedIsOver
    BY DEF Init, EndedIsOver, Empty, Created
  <1>2. QED
    BY <1>1, InitType, TypeStep, EndedInductive, PTL DEF Spec

LEMMA NewestInductive ==
    TypeOK /\ Room /\ NewestRegistered /\ [Next]_vars => NewestRegistered'
  <1> SUFFICES ASSUME TypeOK, Room, NewestRegistered, [Next]_vars
               PROVE  NewestRegistered'
    OBVIOUS
  <1>1. ASSUME NEW h \in Sources, PlayCached(h) \/ PlayRegister(h)
        PROVE  NewestRegistered'
    <2>1. ASSUME NEW k \in Sources, active'[k] # 0
          PROVE  /\ owner'[active'[k]] = k
                 /\ \A g \in Created' : owner'[g] = k => g <= active'[k]
      <3>1. CASE k = h
        <4>1. active'[k] = born + 1 /\ owner'[born + 1] = h
          BY <1>1, <3>1, PlayedStep DEF TypeOK
        <4>2. \A g \in Created' : g <= born + 1
          BY <1>1, PlayedStep DEF Created
        <4>3. QED
          BY <3>1, <4>1, <4>2
      <3>2. CASE k # h
        <4>1. active'[k] = active[k] /\ owner'[born + 1] = h
          BY <1>1, <3>2, PlayedStep DEF TypeOK
        <4>2. active[k] \in Created
          BY <2>1, <4>1 DEF TypeOK, Created
        <4>3. /\ \A g \in Created : owner'[g] = owner[g]
              /\ \A g \in Created' : g = born + 1 \/ g \in Created
          BY <1>1, PlayedStep
        <4>4. QED
          BY <2>1, <3>2, <4>1, <4>2, <4>3 DEF NewestRegistered
      <3>3. QED
        BY <3>1, <3>2
    <2>2. QED
      BY <2>1 DEF NewestRegistered
  <1>2. CASE Command
    <2>1. UNCHANGED owner /\ Created' = Created
      BY <1>2, CommandStep
    <2>2. \A h \in Sources : active'[h] \in {0, active[h]}
      BY <1>2 DEF TypeOK, Command, BeginPlay, PlayFails, Stop, PlayStart,
         BeginSweep, EndSweep, SweepOne, Disconnect
    <2>3. QED
      BY <2>1, <2>2 DEF NewestRegistered
  <1>3. ASSUME NEW g \in Created, Download(g)
        PROVE  NewestRegistered'
    <2>1. UNCHANGED <<owner, active>> /\ Created' = Created
      BY <1>3, DownloadStep
    <2>2. QED
      BY <2>1 DEF NewestRegistered
  <1>4. CASE UNCHANGED vars
    BY <1>4 DEF vars, NewestRegistered, Created
  <1>5. QED
    BY <1>1, <1>2, <1>3, <1>4, NextCases

\* The registry refers to the youngest stream of each source.
THEOREM NewestTheorem == Spec => []NewestRegistered
  <1>1. Init => NewestRegistered
    BY DEF Init, NewestRegistered
  <1>2. QED
    BY <1>1, InitType, TypeStep, NewestInductive, PTL DEF Spec
-----------------------------------------------------------------------------
(* Pausing a qvod stream *)

\* Where the one chunk after a pause comes from: an unpaused stream has none
\* behind it, and a task about to write passed its check while unpaused.
PausePhase ==
    \A g \in Created : Kind[owner[g]] = "qvod" =>
        /\ late[g] <= 1
        /\ ~ms[g].paused => late[g] = 0
        /\ task[g].pc = "write" => late[g] = 0
        /\ task[g].pc # "eofWrite"

LEMMA PauseInductive ==
    TypeOK /\ Room /\ PausePhase /\ [Next]_vars => PausePhase'
  <1> SUFFICES ASSUME TypeOK, Room, PausePhase, [Next]_vars
               PROVE  PausePhase'
    OBVIOUS
  <1>1. ASSUME NEW h \in Sources, PlayCached(h) \/ PlayRegister(h)
        PROVE  PausePhase'
    BY <1>1, PlayedStep DEF PausePhase
  <1>2. CASE Command
    <2>1. ASSUME NEW k \in Created', Kind[owner'[k]] = "qvod"
          PROVE  /\ late'[k] <= 1
                 /\ ~ms'[k].paused => late'[k] = 0
                 /\ task'[k].pc = "write" => late'[k] = 0
                 /\ task'[k].pc # "eofWrite"
      <3>1. /\ k \in Created /\ owner'[k] = owner[k]
            /\ task'[k].pc = task[k].pc /\ Touched(k)
        BY <1>2, CommandStep
      <3>2. ms[k] \in MediaStreams /\ late[k] \in Nat
        BY <3>1 DEF TypeOK
      <3>3. /\ late'[k] \in {0, late[k]}
            /\ ~ms'[k].paused => late'[k] = 0 \/ ~ms[k].paused
        BY <3>1, <3>2, StreamFields, 0 \in Nat DEF Touched
      <3>4. QED
        BY <2>1, <3>1, <3>2, <3>3 DEF PausePhase
    <2>2. QED
      BY <2>1 DEF PausePhase
  <1>3. ASSUME NEW g \in Created, Download(g)
        PROVE  PausePhase'
    <2>1. /\ Created' = Created /\ UNCHANGED owner
          /\ \A k \in Created \ {g} : /\ ms'[k] = ms[k] /\ task'[k] = task[k]
                                      /\ late'[k] = late[k]
      BY <1>3, DownloadStep
    <2>2. /\ ms[g] \in MediaStreams /\ task[g] \in Tasks /\ late[g] \in Nat
          /\ owner[g] \in Sources /\ size[g] \in Nat /\ task[g].off + 1 \in Nat
      BY DEF TypeOK, Tasks
    <2>3. ASSUME Kind[owner[g]] = "qvod"
          PROVE  /\ late'[g] <= 1
                 /\ ~ms'[g].paused => late'[g] = 0
                 /\ task'[g].pc = "write" => late'[g] = 0
                 /\ task'[g].pc # "eofWrite"
      <3>1. CASE Fetch(g)
        <4>1. ~ms[g].paused /\ ms'[g] = ms[g] /\ late'[g] = late[g]
          BY <2>3, <3>1 DEF Fetch
        <4>2. task'[g].pc = "write"
          BY <2>2, <3>1, TaskMethods, 0 \in Nat DEF Fetch, TypeOK
        <4>3. QED
          BY <2>3, <4>1, <4>2 DEF PausePhase
      <3>2. CASE WriteChunk(g)
        <4>1. task[g].pc = "write" /\ late[g] = 0 /\ ms'[g] = ms[g]
          BY <2>3, <3>2 DEF WriteChunk, PausePhase
        <4>2. late'[g] = IF ms[g].paused THEN 1 ELSE 0
          BY <3>2, <4>1 DEF WriteChunk, TypeOK
        <4>3. task'[g] = Moved(task[g], "report") /\ "report" \in Running \cup Over
          BY <3>2, <4>1 DEF WriteChunk, Goto, TypeOK, Running
        <4>4. task'[g].pc = "report"
          BY <2>2, <4>3, MovedTask
        <4>5. QED
          BY <4>1, <4>2, <4>4
      <3>3. CASE Report(g)
        <4>1. ms'[g].paused = ms[g].paused /\ late'[g] = late[g]
          BY <3>3, ReportStep DEF Report
        <4>2. task'[g].pc \in {"end", "fetch"}
          BY <2>2, <3>3, TaskMethods DEF Report, TypeOK
        <4>3. QED
          BY <2>3, <4>1, <4>2 DEF PausePhase
      <3>4. CASE EndTask(g)
        <4>1. ms'[g].paused = ms[g].paused /\ late'[g] = late[g]
          BY <2>2, <3>4, StreamFields, 0 \in Nat DEF EndTask, TypeOK
        <4>2. task'[g] = Moved(task[g], "done") /\ "done" \in Running \cup Over
          BY <3>4 DEF EndTask, Goto, TypeOK, Over
        <4>3. task'[g].pc = "done"
          BY <2>2, <4>2, MovedTask
        <4>4. QED
          BY <2>3, <4>1, <4>3 DEF PausePhase
      <3>5. CASE Open(g) \/ Cancel(g)
        <4>1. ms'[g] = ms[g] /\ late'[g] = late[g]
          BY <3>5 DEF Open, Cancel
        <4>2. \E pc \in {"fetch", "end", "aborted"} : task'[g] = Moved(task[g], pc)
          BY <3>5 DEF Open, Cancel, Goto, TypeOK
        <4>3. {"fetch", "end", "aborted"} \subseteq Running \cup Over
          BY DEF Running, Over
        <4>4. task'[g].pc \in {"fetch", "end", "aborted"}
          BY <2>2, <4>2, <4>3, MovedTask
        <4>5. QED
          BY <2>3, <4>1, <4>4 DEF PausePhase
      <3>6. ~FetchFails(g) /\ ~FetchEof(g)
        BY <2>2, <2>3, TruncatableAssumption DEF FetchFails, FetchEof
      <3>7. CASE EofReport(g)
        <4>1. ms'[g].paused = ms[g].paused /\ late'[g] = late[g]
          BY <3>7, ReportStep DEF EofReport
        <4>2. task'[g] = Moved(task[g], "end") /\ "end" \in Running \cup Over
          BY <3>7 DEF EofReport, Goto, TypeOK, Running
        <4>3. task'[g].pc = "end"
          BY <2>2, <4>2, MovedTask
        <4>4. QED
          BY <2>3, <4>1, <4>3 DEF PausePhase
      <3>8. QED
        BY <1>3, <3>1, <3>2, <3>3, <3>4, <3>5, <3>6, <3>7 DEF Download
    <2>4. QED
      BY <2>1, <2>3 DEF PausePhase
  <1>4. CASE UNCHANGED vars
    BY <1>4 DEF vars, PausePhase, Created
  <1>5. QED
    BY <1>1, <1>2, <1>3, <1>4, NextCases

\* However commands, disconnects and the download interleave, a paused qvod
\* stream gets at most the one chunk its task was already writing.
THEOREM PauseTheorem == Spec => []PauseStopsQvod
  <1>1. Init => PausePhase
    BY DEF Init, PausePhase, Empty, Created
  <1>2. PausePhase => PauseStopsQvod
    BY DEF PausePhase, PauseStopsQvod
  <1>3. QED
    BY <1>1, <1>2, InitType, TypeStep, PauseInductive, PTL DEF Spec

\* While a pause is under way only tasks run beside it.
LEMMA HoldsInductive ==
    TypeOK /\ Room /\ PauseHolds /\ [Next]_vars => PauseHolds'
  <1> SUFFICES ASSUME TypeOK, Room, PauseHolds, [Next]_vars
               PROVE  PauseHolds'
    OBVIOUS
  <1>1. ASSUME op'.cmd # "pause" PROVE PauseHolds'
    BY <1>1 DEF PauseHolds
  <1>2. ASSUME NEW h \in Sources, PlayCached(h) \/ PlayRegister(h)
        PROVE  PauseHolds'
    BY <1>1, <1>2, PlayedStep DEF Idle, Starting
  <1>3. CASE Command
    <2>1. ASSUME NEW c \in Sweeps, BeginSweep(c) PROVE PauseHolds'
      BY <2>1 DEF BeginSweep, Registered, Sweeping, PauseHolds
    <2>2. ASSUME NEW c \in Sweeps, NEW g \in Streams, SweepOne(c, g)
          PROVE  PauseHolds'
      <3>1. op'.cmd = c /\ op'.todo = op.todo \ {g} /\ UNCHANGED active
        BY <2>2, SweepShape, SweepingType DEF SweepOne, TypeOK, Sweeping
      <3>2. CASE c = "pause"
        <4>1. ASSUME NEW k \in Registered, k \notin op.todo \ {g}
              PROVE  ms'[k].paused /\ ms'[k].state \in {"Paused", "Ended"}
          <5>1. k \in Created /\ ms[k] \in MediaStreams
            BY <4>1 DEF Registered, TypeOK, Created
          <5>2. CASE k = g
            <6>1. ms'[k] = PauseStream(ms[k])
              BY <2>2, <3>2, <5>1, <5>2 DEF SweepOne, Swept, TypeOK
            <6>2. QED
              BY <5>1, <6>1, StreamFields, 0 \in Nat
          <5>3. CASE k # g
            <6>1. ms'[k] = ms[k] /\ k \notin op.todo /\ op.cmd = "pause"
              BY <2>2, <3>2, <4>1, <5>1, <5>3 DEF SweepOne, TypeOK
            <6>2. QED
              BY <4>1, <6>1 DEF PauseHolds
          <5>4. QED
            BY <5>2, <5>3
        <4>2. Registered' = Registered
          BY <3>1 DEF Registered
        <4>3. QED
          BY <3>1, <4>1, <4>2 DEF PauseHolds
      <3>3. QED
        BY <1>1, <3>1, <3>2
    <2>3. ASSUME op'.cmd # "pause" PROVE PauseHolds'
      BY <1>1, <2>3
    <2>4. ASSUME NEW h \in Sources, BeginPlay(h) \/ PlayFails(h) \/ Stop(h)
          PROVE  PauseHolds'
      BY <1>1, <2>4 DEF BeginPlay, PlayFails, Stop, Playing, Idle
    <2>5. CASE PlayStart \/ Disconnect
      BY <1>1, <2>5 DEF PlayStart, Disconnect, Idle
    <2>6. ASSUME NEW c \in Sweeps, EndSweep(c) PROVE PauseHolds'
      BY <1>1, <2>6 DEF EndSweep, Idle
    <2>7. QED
      BY <1>3, <2>1, <2>2, <2>4, <2>5, <2>6 DEF Command
  <1>4. ASSUME NEW g \in Created, Download(g)
        PROVE  PauseHolds'
    <2>1. /\ UNCHANGED <<active, op>>
          /\ \A k \in Created \ {g} : ms'[k] = ms[k]
      BY <1>4, DownloadStep
    <2>2. Registered' = Registered /\ Registered \subseteq Created
      BY <2>1 DEF Registered, TypeOK, Created
    <2>3. /\ ms[g] \in MediaStreams /\ task[g] \in Tasks
          /\ size[g] \in Nat /\ task[g].off + 1 \in Nat
      BY DEF TypeOK, Tasks
    <2>4. ASSUME ms[g].paused, ms[g].state \in {"Paused", "Ended"}
          PROVE  ms'[g].paused /\ ms'[g].state \in {"Paused", "Ended"}
      <3>1. CASE Report(g) \/ EofReport(g)
        BY <2>4, <3>1, ReportStep
      <3>2. CASE EndTask(g)
        BY <2>3, <2>4, <3>2, StreamFields, 0 \in Nat DEF EndTask, TypeOK
      <3>3. CASE UNCHANGED ms
        BY <2>4, <3>3
      <3>4. QED
        BY <1>4, <3>1, <3>2, <3>3 DEF Download, Open, Fetch, FetchFails,
           FetchEof, WriteChunk, Cancel
    <2>5. QED
      BY <2>1, <2>2, <2>4 DEF PauseHolds
  <1>5. CASE UNCHANGED vars
    BY <1>5 DEF vars, PauseHolds, Registered
  <1>6. QED
    BY <1>2, <1>3, <1>4, <1>5, NextCases

\* A pause in progress holds: no task report turns a stream it has passed
\* back to Playing.
THEOREM PauseHoldsTheorem == Spec => []PauseHolds
  <1>1. Init => PauseHolds
    BY DEF Init, PauseHolds, Idle
  <1>2. QED
    BY <1>1, InitType, TypeStep, HoldsInductive, PTL DEF Spec
-----------------------------------------------------------------------------
(* Progress and buffer *)

Fetching == {"open", "fetch", "write", "eofWrite"}
Written  == {"report", "eofReport"}

\* What a stream has in its buffer and shows as progress, by the point its
\* task has reached; off is the first chunk the task has not reported.
PhaseOf(off, pc, n, have, shown, cut) ==
    /\ pc \in Fetching => off < n /\ have = off /\ shown <= off
    /\ pc \in Written => off < n /\ have = off + 1 /\ shown <= off
    /\ pc \in {"eofWrite", "eofReport"} => cut
    /\ have <= n /\ shown <= n
    /\ ~cut => shown <= have

Phase ==
    \A g \in Created :
        PhaseOf(task[g].off, task[g].pc, size[g], filled[g], ms[g].progress,
                owner[g] \in Truncatable)

LEMMA PhaseInductive ==
    TypeOK /\ Room /\ Phase /\ [Next]_vars => Phase'
  <1> SUFFICES ASSUME TypeOK, Room, Phase, [Next]_vars
               PROVE  Phase'
    OBVIOUS
  <1>1. ASSUME NEW h \in Sources, PlayCached(h) \/ PlayRegister(h)
        PROVE  Phase'
    <2>1. ASSUME NEW k \in Created'
          PROVE  PhaseOf(task'[k].off, task'[k].pc, size'[k], filled'[k],
                         ms'[k].progress, owner'[k] \in Truncatable)
      <3>1. CASE k = born + 1
        <4>1. /\ task'[k].off = 0 /\ filled'[k] = 0 /\ size'[k] \in Nat
              /\ task'[k].pc \in {"none", "open", "fetch", "end"}
              /\ task'[k].pc \in {"open", "fetch"} => size'[k] > 0
              /\ ms'[k].progress = 0
          BY <1>1, <3>1, PlayedStep DEF NewStream
        <4>2. QED
          BY <4>1 DEF PhaseOf, Fetching, Written
      <3>2. CASE k \in Created
        BY <1>1, <3>2, PlayedStep DEF Phase
      <3>3. QED
        BY <1>1, <3>1, <3>2, PlayedStep
    <2>2. QED
      BY <2>1 DEF Phase
  <1>2. CASE Command
    <2>1. ASSUME NEW k \in Created'
          PROVE  PhaseOf(task'[k].off, task'[k].pc, size'[k], filled'[k],
                         ms'[k].progress, owner'[k] \in Truncatable)
      <3>1. /\ k \in Created /\ owner'[k] = owner[k] /\ size'[k] = size[k]
            /\ filled'[k] = filled[k] /\ task'[k].pc = task[k].pc
            /\ task'[k].off = task[k].off /\ Touched(k)
        BY <1>2, CommandStep
      <3>2. ms'[k].progress = ms[k].progress
        BY <3>1, StreamFields, 0 \in Nat DEF Touched, TypeOK
      <3>3. QED
        BY <3>1, <3>2 DEF Phase
    <2>2. QED
      BY <2>1 DEF Phase
  <1>3. ASSUME NEW g \in Created, Download(g)
        PROVE  Phase'
    <2>1. /\ Created' = Created /\ UNCHANGED <<owner, size>>
          /\ \A k \in Created \ {g} : /\ ms'[k] = ms[k] /\ task'[k] = task[k]
                                      /\ filled'[k] = filled[k]
      BY <1>3, DownloadStep
    <2>2. /\ ms[g] \in MediaStreams /\ task[g] \in Tasks /\ filled[g] \in Nat
          /\ size[g] \in Nat /\ task[g].off \in Nat /\ ms[g].progress \in Nat
          /\ g \in DOMAIN ms /\ g \in DOMAIN task /\ g \in DOMAIN filled
      BY DEF TypeOK, Tasks, MediaStreams
    <2> DEFINE cut == owner[g] \in Truncatable
               off == task[g].off
               n == size[g]
    <2>3. PhaseOf(off, task[g].pc, n, filled[g], ms[g].progress, cut)
      BY DEF Phase
    <2> HIDE DEF cut
    <2>4. PhaseOf(task'[g].off, task'[g].pc, n, filled'[g], ms'[g].progress, cut)
      <3>1. CASE Open(g)
        <4>1. \E pc \in {"fetch", "end"} : task'[g] = Moved(task[g], pc)
          BY <2>2, <3>1 DEF Open, Goto
        <4>2. {"fetch", "end"} \subseteq Running \cup Over
          BY DEF Running
        <4>3. task'[g].pc \in {"fetch", "end"} /\ task'[g].off = off
          BY <2>2, <4>1, <4>2, MovedTask
        <4>4. task[g].pc = "open" /\ filled'[g] = filled[g] /\ ms'[g] = ms[g]
          BY <3>1 DEF Open
        <4>5. QED
          BY <2>2, <2>3, <4>3, <4>4 DEF PhaseOf, Fetching, Written
      <3>2. CASE Fetch(g)
        <4>1. task'[g].pc = "write" /\ task'[g].off = off
          BY <2>2, <3>2, TaskMethods DEF Fetch
        <4>2. task[g].pc = "fetch" /\ filled'[g] = filled[g] /\ ms'[g] = ms[g]
          BY <3>2 DEF Fetch
        <4>3. QED
          BY <2>2, <2>3, <4>1, <4>2 DEF PhaseOf, Fetching, Written
      <3>3. CASE FetchFails(g)
        <4>1. task[g].err < MaxErrors
          BY <3>3 DEF FetchFails, Room, CanFail
        <4>2. task'[g].pc \in {"end", "fetch"} /\ task'[g].off = off
          BY <2>2, <3>3, <4>1, FailedTask DEF FetchFails
        <4>3. task[g].pc = "fetch" /\ filled'[g] = filled[g] /\ ms'[g] = ms[g]
          BY <3>3 DEF FetchFails
        <4>4. QED
          BY <2>2, <2>3, <4>2, <4>3 DEF PhaseOf, Fetching, Written
      <3>4. CASE FetchEof(g)
        <4>1. task'[g] = Moved(task[g], "eofWrite") /\ "eofWrite" \in Running \cup Over
          BY <2>2, <3>4 DEF FetchEof, Goto, Running
        <4>2. task'[g].pc = "eofWrite" /\ task'[g].off = off
          BY <2>2, <4>1, MovedTask
        <4>3. /\ task[g].pc = "fetch" /\ cut
              /\ filled'[g] = filled[g] /\ ms'[g] = ms[g]
          BY <3>4 DEF FetchEof, cut
        <4>4. QED
          BY <2>2, <2>3, <4>2, <4>3 DEF PhaseOf, Fetching, Written
      <3>5. CASE WriteChunk(g)
        <4> DEFINE pc == IF task[g].pc = "write" THEN "report" ELSE "eofReport"
        <4>1. task'[g] = Moved(task[g], pc) /\ pc \in Running \cup Over
          BY <2>2, <3>5 DEF WriteChunk, Goto, Running
        <4>2. /\ task[g].pc \in {"write", "eofWrite"}
              /\ filled'[g] = off + 1 /\ ms'[g] = ms[g]
          BY <2>2, <3>5 DEF WriteChunk
        <4>3. task'[g].pc = pc /\ task'[g].off = off
          BY <2>2, <4>1, MovedTask
        <4>4. QED
          BY <2>2, <2>3, <4>2, <4>3 DEF PhaseOf, Fetching, Written
      <3>6. CASE Report(g)
        <4>1. /\ task'[g].pc = IF off + 1 = n THEN "end" ELSE "fetch"
              /\ task'[g].off = off + 1
          BY <2>2, <3>6, TaskMethods DEF Report
        <4>2. /\ task[g].pc = "report" /\ filled'[g] = filled[g]
              /\ ms'[g].progress = off + 1
          BY <3>6, ReportStep DEF Report
        <4>3. QED
          BY <2>2, <2>3, <4>1, <4>2 DEF PhaseOf, Fetching, Written
      <3>7. CASE EofReport(g)
        <4>1. task'[g] = Moved(task[g], "end") /\ "end" \in Running \cup Over
          BY <2>2, <3>7 DEF EofReport, Goto, Running
        <4>2. task'[g].pc = "end"
          BY <2>2, <4>1, MovedTask
        <4>3. /\ task[g].pc = "eofReport" /\ filled'[g] = filled[g]
              /\ ms'[g].progress = n
          BY <3>7, ReportStep DEF EofReport
        <4>4. QED
          BY <2>2, <2>3, <4>2, <4>3 DEF PhaseOf, Fetching, Written
      <3>8. CASE EndTask(g)
        <4>1. task'[g] = Moved(task[g], "done") /\ "done" \in Running \cup Over
          BY <2>2, <3>8 DEF EndTask, Goto, Over
        <4>2. task'[g].pc = "done"
          BY <2>2, <4>1, MovedTask
        <4>3. filled'[g] = filled[g] /\ ms'[g].progress = ms[g].progress
          BY <2>2, <3>8, StreamFields, 0 \in Nat DEF EndTask
        <4>4. QED
          BY <2>2, <2>3, <4>2, <4>3 DEF PhaseOf, Fetching, Written
      <3>9. CASE Cancel(g)
        <4>1. task'[g] = Moved(task[g], "aborted") /\ "aborted" \in Running \cup Over
          BY <2>2, <3>9 DEF Cancel, Goto, Over
        <4>2. task'[g].pc = "aborted"
          BY <2>2, <4>1, MovedTask
        <4>3. filled'[g] = filled[g] /\ ms'[g] = ms[g]
          BY <3>9 DEF Cancel
        <4>4. QED
          BY <2>2, <2>3, <4>2, <4>3 DEF PhaseOf, Fetching, Written
      <3>10. QED
        BY <1>3, <3>1, <3>2, <3>3, <3>4, <3>5, <3>6, <3>7, <3>8, <3>9 DEF Download
    <2>5. QED
      BY <2>1, <2>4 DEF Phase, cut
  <1>4. CASE UNCHANGED vars
    BY <1>4 DEF vars, Phase, Created
  <1>5. QED
    BY <1>1, <1>2, <1>3, <1>4, NextCases

\* What is shown as fetched is in the buffer, and the buffer stays within the
\* file, wherever the task of a stream stands.
THEOREM ProgressTheorem == Spec => []ProgressIsBuffered
  <1>1. Init => Phase
    BY DEF Init, Phase, Empty, Created
  <1>2. Phase => ProgressIsBuffered
    BY DEF Phase, PhaseOf, ProgressIsBuffered
  <1>3. QED
    BY <1>1, <1>2, InitType, TypeStep, PhaseInductive, PTL DEF Spec
=============================================================================
