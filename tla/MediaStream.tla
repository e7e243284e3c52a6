---------------------------- MODULE MediaStream ----------------------------
(***************************************************************************)
(* The playback state of one stream, crates/qvs-stream/src/playback.rs.    *)
(* A stream is a record that the engine keeps behind a tokio Mutex; each   *)
(* method is one operator from the old value to the new one, since every   *)
(* caller holds the lock for exactly one method or one group of them.      *)
(*                                                                         *)
(* The position, the speed, the peer count and the seek target are data no *)
(* guard reads; what is kept is the state the client is shown, the flag    *)
(* the download loop reads, and the share of the file reported as fetched. *)
(***************************************************************************)
EXTENDS Naturals

StreamState == {"Initializing", "Buffering", "Playing", "Paused", "Seeking",
                "Ended", "Error"}

MediaStreams == [state: StreamState, paused: BOOLEAN, progress: Nat]

\* A new stream counts as paused until play() or resume().
NewStream == [state |-> "Initializing", paused |-> TRUE, progress |-> 0]

PlayStream(s) == [s EXCEPT !.state = "Playing", !.paused = FALSE]

PauseStream(s) == [s EXCEPT !.state = "Paused", !.paused = TRUE]

ResumeStream(s) == [s EXCEPT !.state = "Playing", !.paused = FALSE]

\* Seeking changes the state shown and leaves the paused flag alone.
SeekStream(s) == [s EXCEPT !.state = "Seeking"]

EndStream(s) == [s EXCEPT !.state = "Ended"]

\* Mutant: every position report shows the stream as playing.
UpdatePositionPlays(s) == [s EXCEPT !.state = "Playing"]

\* The first position report after a seek completes the seek, paused or not.
UpdatePosition(s) ==
    IF s.state = "Seeking" THEN [s EXCEPT !.state = "Playing"] ELSE s

UpdateProgress(s, p) == [s EXCEPT !.progress = p]
=============================================================================
