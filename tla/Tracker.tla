------------------------------ MODULE Tracker -------------------------------
(***************************************************************************)
(* Client/PlaybackTrackerPanel: the line that shows how much of the song   *)
(* is buffered and played, and with which the user seeks.  Three threads   *)
(* move it without a lock of its own: the window with the mouse, and       *)
(* MusicBufferer and MusicReader, which hold the mutex of MusicBuffer.     *)
(*                                                                         *)
(* A position is 0..Full; a percentage above 1 is Full + 1.                *)
(***************************************************************************)
EXTENDS GuiComponent, Integers

CONSTANTS Full,          \* the width of the panel
          Steps,         \* 1000, what WM_SEEK counts in
          StartBuffered, StartPlayed   \* what onCreate shows

ASSUME TrackerAssumption == Full \in Nat \ {0} /\ Steps \in Nat /\ {StartBuffered, StartPlayed} \subseteq 0..Full

VARIABLES buffered, played,
          mouseDown,
          mutexx,        \* of MusicBuffer
          at,            \* what each thread does
          percent,       \* with which percentage it was called, or calls; 0 outside of a call
          underway,      \* history: calls that had begun when the user last moved the tracker
          shown, trackerDirty   \* what the screen shows, and is it to be painted

position == <<buffered, played>>
calls == <<at, percent>>
screen == <<shown, trackerDirty>>
trackerVars == <<position, mouseDown, mutexx, calls, underway, screen>>

Positions == 0..Full

TrackerInit ==
    /\ buffered = StartBuffered /\ played = StartPlayed
    /\ mouseDown = FALSE
    /\ mutexx = "nobody"
    /\ at = [window |-> "idle", bufferer |-> "idle", reader |-> "idle"]
    /\ percent = [window |-> 0, bufferer |-> 0, reader |-> 0]
    /\ underway = {}
    /\ shown = played /\ trackerDirty = TRUE   \* the window has been painted

Turn(thread, from, to) == at[thread] = from /\ at' = [at EXCEPT ![thread] = to]
Lock(thread) == mutexx = "nobody" /\ mutexx' = thread
Unlock(thread) == mutexx = thread /\ mutexx' = "nobody"

\* setTrackerPercentage in two steps: may it, then the constraint.
Cut(p) == IF p > buffered THEN buffered ELSE p

Track(thread) ==
    /\ played' = Cut(percent[thread])
    /\ percent' = [percent EXCEPT ![thread] = 0]
    /\ underway' = underway \ {thread}
    /\ UNCHANGED buffered

\* The calls of the other threads that are past what they have read.
Begun == {t \in {"bufferer", "reader"} : at[t] = "track"}

-----------------------------------------------------------------------------
\* MusicBufferer: writeBuf, setPercentageBuffered
WriteBuffered ==
    /\ Turn("bufferer", "idle", "aim") /\ Lock("bufferer")
    /\ \E p \in 0..(Full + 1) : buffered' = IF p > Full THEN buffered ELSE p
    /\ UNCHANGED <<played, mouseDown, percent, underway, screen>>

WriteAim ==
    /\ Turn("bufferer", "aim", "track")
    /\ percent' = [percent EXCEPT !.bufferer = played]
    /\ UNCHANGED <<position, mouseDown, mutexx, underway, screen>>

WriteTrack ==
    /\ Turn("bufferer", "track", "idle") /\ Unlock("bufferer")
    /\ Track("bufferer")
    /\ UNCHANGED <<mouseDown, screen>>

Bufferer == WriteBuffered \/ WriteAim \/ WriteTrack

\* Mutant: it moves the tracker the user holds.
ReadPosition(p) ==
    /\ Turn("reader", "idle", "track") /\ Lock("reader")
    /\ percent' = [percent EXCEPT !.reader = p]
    /\ UNCHANGED <<position, mouseDown, underway, screen>>

\* MusicReader: readBuf.  When it finds the mouse down it leaves the tracker alone.
ReadCheck(p) ==
    /\ ~mouseDown
    /\ Turn("reader", "idle", "track") /\ Lock("reader")
    /\ percent' = [percent EXCEPT !.reader = p]
    /\ UNCHANGED <<position, mouseDown, underway, screen>>

ReadTrack ==
    /\ Turn("reader", "track", "idle") /\ Unlock("reader")
    /\ Track("reader")
    /\ UNCHANGED <<mouseDown, screen>>

Reader == (\E p \in 0..(Full + 1) : ReadCheck(p)) \/ ReadTrack

-----------------------------------------------------------------------------
\* The window.  What is compared is not what is read when it is too much.
PressTracker(p) ==
    /\ Turn("window", "idle", "press")
    /\ percent' = [percent EXCEPT !.window = IF p > buffered THEN Full + 1 ELSE p]
    /\ UNCHANGED <<position, mouseDown, mutexx, underway, screen>>

DragTracker(p) ==
    /\ mouseDown
    /\ Turn("window", "idle", "drag")
    /\ percent' = [percent EXCEPT !.window = IF p > buffered THEN Full + 1 ELSE p]
    /\ UNCHANGED <<position, mouseDown, mutexx, underway, screen>>

\* onClick marks the mouse down only when the tracker has been moved.
WindowTrack ==
    /\ \/ Turn("window", "press", "hold")
       \/ Turn("window", "drag", "idle")
    /\ played' = IF percent.window > Full THEN buffered ELSE percent.window
    /\ percent' = [percent EXCEPT !.window = 0]
    /\ underway' = Begun
    /\ UNCHANGED <<buffered, mouseDown, mutexx, screen>>

WindowHold ==
    /\ Turn("window", "hold", "idle")
    /\ mouseDown' = TRUE
    /\ underway' = Begun
    /\ UNCHANGED <<position, mutexx, percent, screen>>

\* onClickUp, also of a press elsewhere; SendMessage runs onSeek at once.
ReleaseTracker ==
    /\ Turn("window", "idle", "release")
    /\ mouseDown' = FALSE
    /\ UNCHANGED <<position, mutexx, percent, underway, screen>>

SendSeek ==
    /\ Turn("window", "release", "seek")
    /\ percent' = [percent EXCEPT !.window = (played * Steps) \div Full]
    /\ UNCHANGED <<position, mouseDown, mutexx, underway, screen>>

\* seekBuf
onSeek ==
    /\ Turn("window", "seek", "stop") /\ Lock("window")
    /\ UNCHANGED <<position, mouseDown, percent, underway, screen>>

\* stopPlaying, resumePlaying
SeekDone ==
    /\ Turn("window", "stop", "idle") /\ Unlock("window")
    /\ percent' = [percent EXCEPT !.window = 0]
    /\ UNCHANGED <<position, mouseDown, underway, screen>>

Painted ==
    IF Last(PaintedBy(<<"paint">>, FALSE)) = "paint" THEN played ELSE shown

PaintTracker ==
    /\ at.window = "idle" /\ trackerDirty
    /\ trackerDirty' = FALSE
    /\ shown' = Painted
    /\ UNCHANGED <<position, mouseDown, mutexx, calls, underway>>

TrackerStep == WindowTrack \/ WindowHold \/ SendSeek \/ SeekDone

TrackerMessage ==
    \/ \E p \in Positions : PressTracker(p) \/ DragTracker(p)
    \/ ReleaseTracker

\* Mutant: it is drawn while the user moves it.
drawAgainWhileHeld ==
    /\ mouseDown /\ ~trackerDirty /\ trackerDirty' = TRUE
    /\ UNCHANGED <<position, mouseDown, mutexx, calls, underway, shown>>

\* The thread that invalidates the panel ten times a second.
drawAgain ==
    /\ ~trackerDirty /\ trackerDirty' = TRUE
    /\ UNCHANGED <<position, mouseDown, mutexx, calls, underway, shown>>

TrackerNext == Bufferer \/ Reader \/ TrackerMessage \/ TrackerStep \/ onSeek \/ PaintTracker \/ drawAgain

\* Who holds the mutex gives it back, and it is given in the order of those who wait.
\* The user pauses now and then, which lets WM_PAINT come.
TrackerFairness ==
    /\ WF_trackerVars(WriteAim \/ WriteTrack) /\ WF_trackerVars(ReadTrack)
    /\ WF_trackerVars(TrackerStep) /\ SF_trackerVars(onSeek)
    /\ WF_trackerVars(drawAgain) /\ SF_trackerVars(PaintTracker)

-----------------------------------------------------------------------------
\* While the user holds the tracker it moves only with the mouse, or back to what is
\* buffered; a call of another thread that had begun when the user moved it may
\* undo that once.
HeldTrackerIsTheUsers ==
    [][mouseDown /\ played' # played =>
          \/ at.window \in {"press", "drag"}
          \/ played > buffered /\ played' = buffered
          \/ underway' # underway]_trackerVars

\* Once the user lets go, where the tracker was left is where the song goes on: not
\* kept by the code, the reader may move the tracker before onClickUp reads it.
SeekIsWhereReleased == [][at.window = "release" => played' = played]_trackerVars

\* A tracker that stays where it is comes to be seen there: whoever has moved it, and
\* although no one who does so has the panel painted.
TrackerIsShown ==
    []<>(shown = played) \/ []<><<played' # played>>_trackerVars
=============================================================================
