------------------------------ MODULE Desktop ------------------------------
(* The desktop player (qvs-gui: app.rs, controls.rs, playlist.rs, client.rs) *)
(* and the server it commands. update() runs once per frame on the UI        *)
(* thread: it sends the play that is pending, handles the user's input,      *)
(* tells the server what the input changed, and then takes in the errors     *)
(* and status answers of the calls it spawned before. Calls run on their     *)
(* own and are answered in any order, or fail; the server may answer         *)
(* anything.                                                                 *)
EXTENDS Integers, Sequences, SequencesExt

CONSTANTS Media,      \* what can be opened
          MediaKind,  \* its kind: "qvod", "http" or "file"
          End,        \* the length of the media, in steps of ten seconds
          MaxInputs,  \* bound: inputs of the user, but for those to the task list
          MaxEntries, \* bound: entries of the task list
          MaxStatuses \* bound: answers between two frames

ASSUME EndAssumption == End \in Nat \ {0}

VARIABLE desk

Absence == "none"
States == {"Stopped", "Playing", "Paused", "Buffering", "Error", "Ended"}

\* A remote server, an embedded one, or, when its port was taken, an embedded
\* one that no client talks to.
Servers == {"remote", "embedded", "unreachable"}

DeskInit ==
    \E server \in Servers :
       desk = [server |-> server, state |-> "Stopped", playing |-> FALSE,
               stop |-> FALSE, position |-> 0, duration |-> 0,
               hash |-> Absence, pending |-> {}, decoder |-> FALSE,
               list |-> <<>>, selected |-> 0, menu |-> 0,
               calls |-> FALSE, polls |-> {}, errors |-> FALSE, statuses |-> <<>>,
               over |-> FALSE,
               inputs |-> 0, last |-> [input |-> "none", sent |-> {}]]

\* What the user may do in a frame.
Inputs ==
    [do : {"none", "space", "left", "right", "escape", "play", "stop", "menu",
           "remove", "dismiss"}]
        \cup [do : {"seek"}, to : 0 .. End]
        \cup [do : {"open"}, media : Media, decodes : BOOLEAN]
        \cup [do : {"select", "start", "take", "up", "down"}, entry : 1 .. MaxEntries]
        \cup [do : {"clear"}]

\* What PlaylistManager offers to its owner beside its own ui(), whether or not
\* a menu is open. The player does not use it.
Edits == {"start", "take", "up", "down", "clear"}
ListInputs == {"select", "menu", "remove", "dismiss"} \cup Edits

Counted(u) == u.do \notin {"none"} \cup ListInputs

Possible(d, u) ==
    /\ Counted(u) => d.inputs < MaxInputs
    /\ u.do = "open" => /\ Len(d.list) < MaxEntries
                        /\ u.decodes => MediaKind[u.media] # "qvod"
    /\ u.do \in {"select"} \cup (Edits \ {"clear"}) => u.entry <= Len(d.list)
    /\ u.do = "menu" => d.selected # 0
    /\ u.do = "remove" => d.menu \in DOMAIN d.list
    /\ u.do = "dismiss" => d.menu # 0

IsLocal(m) == MediaKind[m] = "file"

\* play_uri(): the entry is listed; a remote server is not asked for what is
\* decoded here, and cannot be asked for a local file. A play that waited for
\* a hash is replaced by the next one, not by one of a local file.
PlayUri(d, m, decodes) ==
    LET opened == [d EXCEPT !.decoder = decodes, !.hash = m, !.state = "Buffering",
                            !.list = Append(@, m)]
        asked  == [opened EXCEPT !.playing = TRUE]
        waits(n) == IsLocal(n) = IsLocal(m)
    IN  CASE d.server = "unreachable" -> opened
          [] d.server = "remote" /\ decodes -> [asked EXCEPT !.state = "Playing"]
          [] d.server = "remote" /\ ~decodes /\ IsLocal(m) ->
               [asked EXCEPT !.state = "Error", !.playing = FALSE]
          [] OTHER -> [asked EXCEPT !.pending = {n \in @ : ~waits(n)} \cup {m}]

\* reset()
Reset(d) == [d EXCEPT !.playing = FALSE, !.position = 0, !.stop = FALSE]

\* The stop button and Escape set stop_pressed, and reset() clears it.
StopPressed(d) == Reset([d EXCEPT !.stop = TRUE])

\* on_keypress()
Key(d, key) ==
    CASE key = "space" ->
           [d EXCEPT !.playing = ~@, !.state = IF d.playing THEN "Paused" ELSE "Playing"]
      [] key = "left" -> [d EXCEPT !.position = IF @ > 0 THEN @ - 1 ELSE 0]
      [] key = "right" -> [d EXCEPT !.position = IF @ < d.duration THEN @ + 1
                                                 ELSE d.duration]
      [] key = "escape" -> [StopPressed(d) EXCEPT !.state = "Stopped"]

\* Mutant: a removal takes the selection back only when the entry was the last.
TasksKeepSelection(d, u) ==
    CASE u.do = "select" -> [d EXCEPT !.selected = u.entry, !.menu = 0]
      [] u.do = "menu" -> [d EXCEPT !.menu = d.selected]
      [] u.do = "remove" -> [d EXCEPT !.list = RemoveAt(@, d.menu), !.menu = 0,
                                      !.selected = IF @ < Len(d.list) THEN @ ELSE 0]
      [] u.do = "dismiss" -> [d EXCEPT !.menu = 0]

\* PlaylistManager::ui(): the task list, and the context menu of its selected
\* entry, which is kept with the index of the entry. A click closes the menu
\* when the list is shown; as an input of its own for the clicks on the rest.
Tasks(d, u) ==
    CASE u.do = "select" -> [d EXCEPT !.selected = u.entry, !.menu = 0]
      [] u.do = "menu" -> [d EXCEPT !.menu = d.selected]
      [] u.do = "remove" -> [d EXCEPT !.list = RemoveAt(@, d.menu), !.menu = 0,
                                      !.selected = 0]
      [] u.do = "dismiss" -> [d EXCEPT !.menu = 0]

Swapped(list, i, j) == [list EXCEPT ![i] = list[j], ![j] = list[i]]

\* remove(), move_up(), move_down(), clear() and play() of the task list: the
\* selection follows its entry, the index of an open menu does not.
Edit(d, u) ==
    LET i == IF u.do = "clear" THEN 0 ELSE u.entry
        moved(j) == [d EXCEPT !.list = Swapped(@, i, j),
                              !.selected = CASE @ = i -> j [] @ = j -> i [] OTHER -> @]
    IN  CASE u.do = "start" -> [d EXCEPT !.selected = i]
          [] u.do = "take" -> [d EXCEPT !.list = RemoveAt(@, i),
                                        !.selected = CASE i < @ -> @ - 1
                                                       [] i = @ -> 0 [] OTHER -> @]
          [] u.do = "up" -> IF i > 1 THEN moved(i - 1) ELSE d
          [] u.do = "down" -> IF i < Len(d.list) THEN moved(i + 1) ELSE d
          [] u.do = "clear" -> [d EXCEPT !.list = <<>>, !.selected = 0]

\* PlayerControls::ui()
Controls(d, u) ==
    CASE u.do = "play" -> [d EXCEPT !.playing = ~@]
      [] u.do = "stop" -> StopPressed(d)
      [] u.do = "seek" -> [d EXCEPT !.position = IF u.to < d.duration THEN u.to
                                                 ELSE d.duration]

Handle(d, u) ==
    CASE u.do = "none" -> d
      [] u.do = "open" -> PlayUri(d, u.media, u.decodes)
      [] u.do \in {"space", "left", "right", "escape"} -> Key(d, u.do)
      [] u.do \in Edits -> Edit(d, u)
      [] u.do \in ListInputs \ Edits -> Tasks(d, u)
      [] OTHER -> Controls(d, u)

\* The commands a frame sends: what the input changed since its start.
Commands(before, d) ==
    IF d.server = "unreachable" \/ d.hash = Absence THEN {}
    ELSE IF d.stop THEN {"stop"}
    ELSE (IF before.playing /\ ~d.playing THEN {"pause"} ELSE {})
         \cup (IF ~before.playing /\ d.playing THEN {"resume"} ELSE {})
         \cup (IF before.position # d.position THEN {"seek"} ELSE {})

\* What answers about the stream change of the player.
Shown(d) == [state |-> d.state, playing |-> d.playing,
             position |-> d.position, duration |-> d.duration]

\* An answer about the stream; of whichever hash it is.
Answer(d, s) ==
    LET told == [d EXCEPT !.position = s.position, !.duration = s.duration] IN
    CASE s.state = "Playing" /\ d.state = "Buffering" ->
           [told EXCEPT !.state = "Playing", !.playing = TRUE]
      [] s.state \in {"Ended", "Error"} /\ d.state # "Stopped" ->
           [told EXCEPT !.state = s.state, !.playing = FALSE]
      [] s.state = "Paused" /\ d.state = "Playing" ->
           [told EXCEPT !.state = "Paused", !.playing = FALSE]
      [] OTHER -> told

\* The errors and the answers that have come.
Received(d) ==
    LET failed == IF d.errors
                  THEN [Shown(d) EXCEPT !.state = "Error", !.playing = FALSE]
                  ELSE Shown(d)
        told   == FoldLeft(Answer, failed, d.statuses)
    IN  [d EXCEPT !.state = told.state, !.playing = told.playing,
                  !.position = told.position, !.duration = told.duration,
                  !.errors = FALSE, !.statuses = <<>>]

\* What is shown follows the controls.
Settled(d) ==
    IF d.playing /\ d.state = "Paused" THEN [d EXCEPT !.state = "Playing"]
    ELSE IF ~d.playing /\ d.state = "Playing" THEN [d EXCEPT !.state = "Paused"]
    ELSE d

\* The frame reader: a frame or none yet; or its end. It is closed with
\* whatever is not to be played.
Decoded(d, ends) ==
    IF ~d.decoder \/ d.state \in {"Paused", "Buffering"} THEN d
    ELSE IF d.state # "Playing" THEN [d EXCEPT !.decoder = FALSE]
    ELSE IF ends THEN [d EXCEPT !.decoder = FALSE, !.state = "Ended", !.playing = FALSE]
    ELSE d

\* The end of a frame: what it sends, and what a test of it may look at.
Sent(d, u, plays, orders, due) ==
    [d EXCEPT
       !.calls = @ \/ plays \/ orders # {},
       !.polls = IF due /\ d.server # "unreachable" /\ d.hash # Absence
                 THEN @ \cup {d.hash} ELSE @,
       !.inputs = IF Counted(u) THEN @ + 1 ELSE @,
       !.last = [input |-> u.do, sent |-> orders]]

\* A pending play is taken out, for a client or for none.
Plays(d) == d.server # "unreachable" /\ d.pending # {}

\* The stop flag is taken back by the command it gives.
Ordered(d) == [d EXCEPT !.stop = @ /\ (d.server = "unreachable" \/ d.hash = Absence)]

\* Mutant: the answers are taken in before the commands are worked out.
FrameAnswersFirst(u, due, ends) ==
    LET told  == Received(Handle([desk EXCEPT !.pending = {}], u))
        shown == Decoded(Settled(Ordered(told)), ends)
    IN  Sent(shown, u, Plays(desk), Commands(desk, told), due)

\* update(). `due`: a second has passed since the last answer; `ends`: the
\* decoder is at its end.
Frame(u, due, ends) ==
    LET input == Handle([desk EXCEPT !.pending = {}], u)
        shown == Decoded(Settled(Received(Ordered(input))), ends)
    IN  Sent(shown, u, Plays(desk), Commands(desk, input), due)

Update(u) ==
    \E due \in BOOLEAN, ends \in BOOLEAN :
       ~desk.over /\ Possible(desk, u) /\ desk' = Frame(u, due, ends)

\* The menu's Remove, with an index that an edit has left behind the end of the
\* list: Vec::remove panics, and with it the player ends.
RemovePanics ==
    /\ ~desk.over /\ desk.menu # 0 /\ desk.menu \notin DOMAIN desk.list
    /\ desk' = [desk EXCEPT !.over = TRUE]

\* A call of ServerClient ends: with success, or with an error, of the network
\* or of the server, which is sent to the UI. One error does what many do, so
\* it is enough to know whether there are calls under way.
CallEnds ==
    /\ desk.calls /\ ~desk.over
    /\ \E more \in BOOLEAN, failed \in BOOLEAN :
         desk' = [desk EXCEPT !.calls = more, !.errors = @ \/ failed]

\* get_status() ends: with a status, or with none that changes the player.
PollEnds ==
    \E h \in {g \in desk.polls : ~desk.over} :
       \/ desk' = [desk EXCEPT !.polls = @ \ {h}]
       \/ \E state \in States \ {"Stopped"}, duration \in {0, End},
             position \in {0, End} :
             /\ Len(desk.statuses) < MaxStatuses /\ position <= duration
             /\ desk' = [desk EXCEPT
                           !.polls = @ \ {h},
                           !.statuses = Append(@, [state |-> state, position |-> position,
                                                   duration |-> duration])]

DeskNext == (\E u \in Inputs : Update(u)) \/ RemovePanics \/ CallEnds \/ PollEnds

DeskSpec == DeskInit /\ [][DeskNext]_desk

-----------------------------------------------------------------------------

\* A frame without input commands the server to nothing: what the server
\* reports is shown, and never sent back as if the user had paused, resumed
\* or moved (update's order of commands, errors and status answers).
ReportsNotEchoed == desk.last.input = "none" => desk.last.sent = {}

\* Whatever entries come, go and change their places, the entry that is selected
\* in the task list stays the same until the user picks another one (ui, remove,
\* move_up, move_down); and so does the one an open menu is for, but for the
\* owner's edits, which leave its index as it is: Remove may then take another
\* entry than the one the menu was opened on, or panic.
IndicesHold ==
    [][LET input == desk'.last.input
           same(i, j) == i \in DOMAIN desk.list /\ j # 0 => desk.list[i] = desk'.list[j]
       IN  /\ input \notin {"select", "start"} => same(desk.selected, desk'.selected)
           /\ input \notin {"menu"} \cup Edits => same(desk.menu, desk'.menu)]_desk
=============================================================================
