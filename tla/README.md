# CommAudio in TLA+

CommAudio streams music and voice between a Windows server and its clients (C++,
Win32 threads, semaphores, events and mutexes, Winsock). This directory models the
parts of `src/source` whose threads, connections and buffers share state, checks
them with TLC on small instances, and proves the safety of the queue, the jitter buffer,
the player, the music buffer, the microphone, the file transfers, the server and the
client's control thread for any number of threads, clients, packets and buffers.

Contents: [inventory](#inventory), [modules](#modules), [runs](#runs),
[fairness](#fairness), [proofs](#proofs),
[where the code and its documentation disagree](#where-the-code-and-its-documentation-disagree),
[what is not modelled](#what-is-not-modelled), [plan](#plan).

## Inventory

How the parts are connected:

```
server                                       client
ServerWindow - Server (accept, worker)       ConnectionWindow, ClientWindow (user interface thread)
   |            newConnHandler                    |  msgq
   v                                              v
ServerControlThread <---- TCPSocket ~~~~~~~~ TCPSocket ---sockMsgq---> ClientControlThread
   |  one multicast thread per song                                      |  setTitle, newSong, recvFile
   |  one transfer thread per file (FileTransferer) ~~~~~~~~~~~~~~~~~~> FileTransferer
   v
UDPSocket::sendWave ~~~ multicast ~~~> UDPSocket -queue-> ReceiveThread -> JitterBuffer -> MusicBufferer
                                                             |               -> MusicBuffer -> MusicReader
                                                             |               -> queue -> PlayWave
ClientWindow mic button -> MicReader -queue-> MicThread ~~~> +-> JitterBuffer per voice -> VoiceBufferer
                                                                             -> queue -> PlayWave
```

Every arrow that is a `queue` is a `MessageQueue`; `~~~` is the network. `MusicBufferer`
and `MusicReader` also move the tracker of `ClientWindow`, and `ClientControlThread` adds
songs to its list, both from their own threads.

| component | state | operations | what is hard | what makes it correct |
| --- | --- | --- | --- | --- |
| `Buffer/MessageQueue` | vector, two semaphores, mutex, event `hasMessage` | enqueue, dequeue, clear (size, peekLen read) | semaphores and event are used outside the mutex, clear runs with a timeout inside it | tokens match messages, slots are conserved, nobody pops an empty vector, no lost wakeup, a bounded FIFO channel |
| `Buffer/Heap` | array, relative zero | insert, remove, setRelativeZero, getRelativeOrder | int wrap-around; the zero moves under the elements | the first in arrival order is the root, nothing is lost |
| `Buffer/JitterBuffer`, `SynchronizationHelper` | heap, last index, strikes, semaphores, mutex, event with a delayed set | put, get | getter sleeps on the event with the mutex held; late, lost, repeated, restarted streams | exactly one timer or an open event; accepted packets are consumed in order; a jump needs consecutive rejections |
| `Client/PlayWave` | two threads, linked list of packets, device, semaphores | startPlaying, resumePlaying, stopPlaying, setVolume; play and cleanup loops | two threads hand a list over, thread handles are read without a lock, stops from several threads | nothing freed is used, every packet is reached, slots and tokens are accounted for, a stop waits for both threads |
| `Client/MusicBuffer` with `MusicBufferer`, `MusicReader` | ring of bytes, read/write index, semaphore, mutex | writeBuf, readBuf, seekBuf, newSong, stopEnqueue, resumeEnqueue | the wrap skips bytes; seek and newSong move indexes under a semaphore that counts chunks | chunks come whole, once, in order; the reader stops reading an old song |
| `Client/TCPSocket` | socket, mutex | Send, receive loop | several senders; short reads; reads on a closed connection | messages are not interleaved, lost or reordered |
| `Client/ClientControlThread`, `ConnectionWindow` | two queues, socket | requests of the window, connect, handlers of server messages | waits for two queues and for the window, whose thread waits for it | order is kept end to end, no wakeup is stale, everything arrives |
| `Server/ServerControlThread` | list of sockets and of handles, current song, multicast thread | addConnection, change song, download, disconnect, playlist by APC | lists read without a lock by index; add against change of song; old and new sender | the client that asked is served; one song at a time unless a stop is lost; a new client hears of the song |
| `Client/UDPSocket` | socket, mutex, stop flag | sendWave, stopSong, Send, receive loop | the stop flag races with the start of the next sender | see the two rows around it |
| `Client/FileTransferer` | `filesOut`, `filesIn`, `transferring` | sendFile, cancelTransfer, recvFile, a thread per file | cancel against send; songs share one connection | files grow in order and are closed |
| `Client/MicReader`, `ClientWindow` (microphone) | list of wave headers, flags, packet index | startReading, stopReading, driver callback, onMicStop, MicThread | no lock between window, driver callback and sender | no buffer is freed under the driver; the voice is sent once and in order |
| `Client/ReceiveThread`, `VoiceBufferer` | jitter buffers by source | dispatch, start of a player per voice | one thread serves all sources and may block on each | nobody in the chain depends on whom it keeps waiting, and nothing else keeps the thread for good |
| `Server/Server`, `ServerWindow` | array of connections, event; is it connected | accept loop, worker loop, disconnect, toggleConnection | accept, worker and the window share array and counter without a lock; a stopped server leaves its control thread, its sender and its lists behind | every client is handled, once, and the handler gets nothing else; the next server serves its own clients |
| `Server/Playlist` | songs by id | read a directory, look up | a restart brings another list whose ids nobody had before | a request names a song the server has |
| `Client/PlaybackTrackerPanel` | `buffered`, `played`, `mouseDown` | press, drag, release; setTrackerPercentage, setPercentageBuffered; drawAgain | three threads, no lock of its own | the user's hold is respected; what is set comes to be seen |
| `GuiScrollList`, `GuiScrollBar`, `GuiScrollListPane`, `Client/FileListItem` | places of the items, visible region, position of the bar | add an item, scroll, size, paint, click | the control thread adds while the window paints; quotients of sizes; what is on the screen is older than what is looked up | a click does what is seen under the mouse; every song can be scrolled to |
| `GuiComponent`, `GuiLinearLayout` | listeners, preferred sizes and weights | dispatch of a message, resize | a listener may end a message; sizes are rounded | components lie side by side in their container |
| `Client/ButtonPanel` | state of the mouse and of the image | press, move, leave, release, paint | a release elsewhere is not seen, nor that the mouse leaves | a held button is let go when the mouse leaves (it is not) |

The places where this bites are in `PROJECT.json` under `hazards`, with the
properties that cover each.

## Modules

| module | models | uses |
| --- | --- | --- |
| `MessageQueue` | `Buffer/MessageQueue.cpp`; each synchronisation call is a step | `BoundedFifo` |
| `BoundedFifo` | abstract: what the queue promises | |
| `MessageQueueProofs` | theorems about `MessageQueue` | `MessageQueue` |
| `Heap` | `Buffer/Heap.cpp`: the array and its zero, insert and remove in closed form, and the loops of the code to compare them with | |
| `MCHeap` | a heap in use: indexes ahead of a zero that moves | `Heap` |
| `JitterBuffer` | `Buffer/JitterBuffer.cpp`, `delayedSetEvent`; any index may be put | `Heap` |
| `JitterStream` | the stream that feeds it: loss, late and repeated packets, a new song | `JitterBuffer`, `Playout` |
| `Playout` | abstract: what the jitter buffer promises to who plays one stream | |
| `JitterProofs` | theorems about `Heap`, `MCHeap`, `JitterBuffer` and `JitterStream` | `JitterStream`, `MCHeap` |
| `PlayWave`, `MCPlayWave` | `Client/PlayWave.cpp`; symmetry of its instances | |
| `PlayWaveProofs` | theorems about `PlayWave` | `PlayWave` |
| `MusicBuffer` | `MusicBuffer`, `MusicBufferer`, `MusicReader`, the play and stop buttons, seek, change of song | |
| `MusicBufferProofs` | theorems about `MusicBuffer` | `MusicBuffer` |
| `Connection` | one direction of `Client/TCPSocket.cpp` | |
| `ClientControl` | `ClientControlThread`, `ConnectionWindow`: two `MessageQueue` instances and two `Connection` instances composed | `MessageQueue`, `Connection` |
| `ClientControlProofs` | theorems about `ClientControl` and `Connection` | `ClientControl`, `MessageQueueProofs` (two instances) |
| `ServerControl` | `ServerControlThread`, `UDPSocket::sendWave`, lookup in `Playlist` | |
| `Accept` | the accept and the worker thread of `Server/Server.cpp`, `disconnect`, `startTCP` | |
| `Server` | the server from `accept` to the song: the worker of `Accept` calls `newConnHandler`, whose `addConnection` is the worker of `ServerControl`; the button of `ServerWindow` stops it and starts another | `Accept`, `ServerControl` |
| `ServerProofs` | theorems about `ServerControl` as part of `Server` | `Server` |
| `FileTransfer` | `FileTransferer` on both sides, the save button | |
| `Tracker` | `PlaybackTrackerPanel`, and the calls of `MusicBufferer` and `MusicReader` under the mutex of `MusicBuffer` | `GuiComponent` |
| `SongList` | `GuiScrollList`, its bar and its pane, `FileListItem`, `ClientWindow::addRemoteFile` | `LinearLayout` |
| `ButtonPanel` | the play and stop buttons | `GuiComponent` |
| `GuiComponent` | which listeners a message gets to, and who paints | |
| `LinearLayout` | sizes and places along a row or a column | |
| `ClientWindow` | the three parts of the window, one at a time | `Tracker`, `SongList`, `ButtonPanel` |
| `ClientWindowProofs` | theorems about the window, and about `FileTransfer`, which its save buttons start | `ClientWindow`, `FileTransfer` |
| `Microphone` | `MicReader`, the microphone part of `ClientWindow`, `UDPSocket::Send` | |
| `Reception` | receive loop of `UDPSocket`, `ReceiveThread`, `VoiceBufferer`, `MusicBufferer`; of a player whether it runs, of a seek that it holds the mutex | |
| `Voice` | one client's `Microphone`, the network, another client's `Reception` | both |
| `VoiceProofs` | theorems about `Microphone` as part of `Voice` | `Voice` |

How state and actions correspond to the code. Variables keep the names of the
members they stand for (`canEnqueue`, `lastIndex`, `filesOut`, `readindex`, ...); a
`pc`, or a variable named after the thread (`control`, `callback`, `sender`), says
where a thread is. An action is named after the method it is the whole of, or after
the step of it (`PutLock`, `PutAccept`, ...) where other threads can run in between;
what a thread does under a mutex that all others take is one step. `PROJECT.json`
gives the lines for every definition. A definition with `Mutant:` above it is a
plausible bug and is used by no specification: put in the place of the definition
it varies, it makes TLC find one of the properties violated.

Abstractions worth knowing:
- A semaphore is a counter, a mutex the thread that has it, an event a boolean. A
  Windows mutex may be taken again by its owner; no modelled path does so.
- Payloads are model values, packets are known by their index, a byte of music by
  the number of its chunk and its place in it. Integers are `MaxInt`-wide and wrap
  around (`Heap!Wrap`); the proofs and runs never rely on them being large.
- A component that is used, not studied, is replaced by its contract: the queues of
  `PlayWave`, `MusicBuffer`, `Microphone` and `Reception` are the channel that
  `ImplementsBoundedFifo` proves of `MessageQueue`. Only `ClientControl` composes the
  real queue, because its control thread polls `hasMessage` on two of them.
- The Windows side (sound driver, sockets, network) is external: what it may do is
  read off from how the code uses it.
- `ClientWindow` has one thread and one mouse for all its parts, which share nothing
  else. `focus` is the part a behaviour is about; the product of the three would only
  multiply their states.
- A double is a fraction (`SongList`) or one of a few positions (`Tracker`). A position
  of the bar of 0/0 is `NaN`; made an int it is some number below everything (`Far`).
- What the screen shows is state (`shown`, `drawn`, `buttonShown`): `WM_PAINT` comes some
  time after a part was invalidated. `RedrawWindow` with `RDW_ERASENOW` paints nothing
  that was not invalid, so it is left out.
- In `ServerControl` a song is known by its id. `playlist`, `udpSocket` are the ones of
  the last start; `sendWave` keeps the socket it was called on (`via`). Only a client
  that got a list asks for a song of it.
- In `ServerControl` reading a vector is one step though another thread may be
  growing it: a torn read of a `std::vector` has no outcome one could model.

## Runs

| run | module | bounds | what it shows |
| --- | --- | --- | --- |
| `queue` | MessageQueue | 2 producers, 1 consumer, 1 clearer, capacity 2, 2 messages | tokens and slots are conserved in every interleaving, nobody pops an empty vector, no lost wakeup; implements `BoundedFifo`; `clear` returns |
| `heap` | MCHeap | 4-bit indexes, at most 6 elements | closed forms equal the loops; the root is the first in arrival order across the wrap-around; nothing is lost |
| `jitter` | JitterStream | 3-bit indexes, capacity 2, one late or repeated packet, one restart | elements and slots are counted by the semaphores, a non-empty buffer is open or has exactly one timer, a jump needs more than the limit of rejections in a row |
| `stream_in_order` | JitterStream | 4-bit indexes, capacity 3, losses only | elements are ahead, what was accepted is consumed; implements `Playout`: each get moves on by one index and plays the first packet that is there |
| `playwave` | MCPlayWave | 2 callers, 3 packets, 2 devices, list of 2 | no use after free, slots and tokens of the list, a stop leaves no thread |
| `playwave_leak` | MCPlayWave | 1 caller, 2 packets, list of 1 | finding: a packet that nobody frees |
| `music` | MusicBuffer | 2 chunks and 1 byte of buffer, 3 chunks written, 1 change of song | tokens match chunks, chunks are whole and in order around the wrap, the reader is not left waiting |
| `server` | Server | 2 clients, a playlist of 2 songs and one of 1, 2 senders, 1 request each, clients apart, 1 stop and start | every client that was accepted is added once, before and after a restart, the right client is served after disconnects, nobody is forgotten, two songs are sent at once only when a stop was lost, a new client is told of the very song that is played |
| `transfer` | FileTransfer | 2 clients, 2 songs, 2 parts, 2 clicks each | files grow in order without a hole and are closed in the end, cancelled or not |
| `client` | ClientControl | 1 song, 1 announcement, 2 clicks, room for 1 request and 2 messages, whole reads | order is kept from two server threads to the handler, the polling thread is never woken for nothing, everything arrives unless the player does not return or the window and the control thread wait for each other |
| `voice` | Voice | 2 buffers, 4 in all, 1 stop, every listener queue holds 1 packet, the device may fail to open | headers match the driver's buffers, the voice is sent once, in order and numbered from its stops on; only a voice whose player did not open, or the music while a seek keeps its mutex, keeps the receiving thread for good |
| `window` | ClientWindow | 2 songs, list that is a pixel shorter than both songs or just fits them, tracker of 4 positions, 2 buttons, the mouse presses and drags the bar at 2 heights | clicks do what is seen under the mouse, every song can be scrolled to, panels fit, a held tracker is moved by its user, and is painted where it is |

Why these bounds are enough. Every queue and semaphore is small enough to be full
and to be empty in most states, so that each wait really waits; two threads per
role are what the races need (an interleaving of three enqueuers decomposes into
pairs, and the proofs cover any number). The heap has three levels, which is what
trickling left and right needs. The jitter buffer's indexes wrap around within a
run, its window is as large as the capacity, as in the code (5000 and 5000 there).
The ring of `music` wraps on the third chunk and leaves one byte out, which the
real one (100 MB, chunks of `AUDIO_BUFFER_LENGTH`) also does. The list of `window` is one pixel shorter than what is added to it, or just fits it, so
that the bar appears, disappears and loses its way to go (the divisor of its position
is 0); with two songs one of them is cut off at the top or below. The
tracker has positions below, at and above what is buffered. Two parts per file make
a first, a last and, cancelled in between, an incomplete file. In `voice` a stop finds
buffers unfilled, filled, in the callback and in the queue. Bounds that are
not sizes of the code (`MaxWritten`, `MaxClicks`, `MaxStops`, `MaxRequests`, ...) are
guards named in the modules; where they let the system run dry the configuration
turns the deadlock check off.

Assumptions that a passing run makes, each named as a constant or a guard:
- `client` reads whole messages (`ShortReads = FALSE`); otherwise `OrderIsKept` fails, see below.
  The queue of requests has room for one and the user makes two, so that the window waits for
  room. `EverythingArrives` names the two ways in which the control thread may stand still for ever:
  in `stopPlaying`, `newSong` and `startPlaying` (`InPlayer`: `PlayWave` and `MusicBuffer`
  may not return, see `MCPlayWaveStop.cfg` and `MusicBufferSeek.cfg`), and with the window
  (`WaitForEachOther`, see `ClientControlBlocked.cfg`).
- `server` gives up the wait for an old sender after five seconds, as the code does, but not before a
  sender in its loop that can see the flag has looked at it: a loop that sends a packet and sleeps
  takes milliseconds. It lets a client come only when the one before has its room in the array
  (`Apart = TRUE`), and computes where a socket is stored after `accept` returned
  (`TargetFirst = FALSE`; C++ leaves the order open). The server is stopped only when no
  client is between `accept` and the handler and none asks for something, though a song
  may be sent (`Stops = "at rest"`), and its accept thread has ended when the next one
  starts; that a new `UDPSocket` can bind the port of the old one, which is still open, is
  assumed too (the code ends the program if not). `TypeOK` of every module holds under
  the configuration of its run as well; no run lists it, as the other invariants say more.
- `window` is larger than its fixed panels (`SizeAssumption`): the code sets a minimum size of 700 by
  325 (`ClientWindow.cpp:68`), which `GuiComponent` enforces (lines 377-380), and the panels take 500
  by 128. It looks at clicks where the list begins at or above the top of
  its pane (`region.top >= 0`: a list that fits can be dragged down), and not at a pane
  that was painted while an added item was not in its place (`torn`). What `totalHeight`
  holds before the first item, which no constructor sets, is `StrayHeights`.
- `stream_in_order` has no late packets, `jitter` and `stream_in_order` start the
  uninitialised `strikes` at 0 (`StrayStrikes`).
- `music` claims `ChunksInOrder` only while no change of song has skipped unread chunks
  (`moved`), and never lets the writer lap the reader (`MaxUnread`): the code does not
  look, and loses what a player paused for 100 MB leaves behind.
- `voice` looks for `StopEnds` in no run that passes: see `MicrophoneStop.cfg`. Whether the player of a
  voice starts is open, as nobody looks at what `startPlaying` returns (`ReceiveThread.cpp:148`), and so
  is whether a seek ends. One speaker that does not open keeps music and voices of all others
  from being received, once its queue and jitter buffer are full; a player that runs is
  taken to play its queue (that it may lose slots is `MCPlayWaveLeak.cfg`).
- `PlayWave` closes the device after it has given the mutex back, and clears the handle after
  that: both are steps, and a device that another caller opens in between loses its handle.

## Fairness

Fairness is on whole threads and on single steps inside a call, never on a user, the
network or a caller. Weak fairness says that a running thread is scheduled, and that a
sleep or a timeout ends. Strong fairness is used for steps that wait for a semaphore or
a mutex that others take too: Windows queues the waiters of a dispatcher object, so a
waiter is not overtaken for ever. In `JitterStream` the sender goes on sending and not
all packets are lost (`SF` on `Deliver`): without it the last element of a stream would
wait for ever for the packet before it, which is how the code behaves when a stream
ends. In `PlayWave` and `Voice` the device plays what it has; in `Voice` the `MusicBufferer` gets the mutex of
`MusicBuffer` when it is free again and again (`SF`), and nothing says that a seek gives it back. In
`ClientControl` nothing says that a call of the player returns. In `ClientControl` the
server goes on with a message it has begun. In `Tracker` whoever holds the mutex of
`MusicBuffer` gives it back, `drawAgain` goes on for ever, and `WM_PAINT`, which Windows
sends when a thread has nothing else to do, comes because the user pauses now and then
(`SF`).

## Proofs

Each module `...Proofs` extends the module it is about and proves safety for every value
of the constants that satisfies the assumptions named in the modules (`ThreadAssumption`,
`CapacityAssumption`, `SizeAssumption`, ...: sets are disjoint, model values differ, sizes
are at least what the code divides by). Of the window, `SizeAssumption` says that it is
larger than its panels of fixed size, as its minimum size makes it, and `ItemAssumption` that the buttons of an item are inside it, as those of the code are
(`Side` 36, `SaveRight` 56, `PlayRight` 100); `TrackerAssumption` is about types only. TLC checks the same assumptions in each run. Where
a theorem needs more, it says so in an `ASSUME` of its own:

| theorem | states | needs |
| --- | --- | --- |
| `MessageQueueProofs!TypeCorrect`, `Conservation`, `SlotsAreConserved`, `PopsAreSafe`, `WakeupsAreKept` | `TypeOK`, `TokensMatchMessages`, `SlotsConserved`, `NeverPopsEmpty`, `NoLostWakeup` | |
| `ImplementsBoundedFifo` | `Spec => Fifo!Spec`, with `messages` as the channel and the consumer's `node` as what it has taken | |
| `PollersFindMessages` | a poller never sleeps in `dequeue`; `hasMessage` is what `MessageQueue.h` says | `OneTakes`: one consumer, and no `clear` |
| `JitterProofs!BufferIsTyped`, `ElementsAddUp`, `OpenExactlyWhenFilled` | `TypeOK`, `ElementsAreCounted`, `OpenOrDelayed` | |
| `StreamImplementsBuffer`, `StreamIsCountedAndOpen` | the stream is a use of the buffer, so the above hold of it | |
| `JumpsNeedStrikes` | `JumpNeedsStrikes`, an action property | `StrayStrikes = {0}` |
| `InsertKeepsHeap`, `RemoveKeepsHeap`, `RootIsFirst` | heap order, for a heap of any size, any order by a rank, and repeated elements; what is in the heap afterwards is what was in it, with the new element or without the root | |
| `TheRootComesFirst` | `RootComesFirst`, of the stream and of the heap in use | `OneStream` for the stream, `Span \in 0..MaxInt` for the use |
| `ElementsAreKept`, `TheLoopsAreComputed` | `KeepsElements` (an action property), `LoopsAreComputed`, of the jitter buffer whatever is put, and of the heap in use | |
| `NoneIsLeftBehind` | `ElementsAreAhead` | `OneStream` |
| `StreamIsPlayedInOrder` | `StreamSpec => IsPlayout`: the elements of the heap as what is `here`, the packet in `put` as the one that is `coming`, `lastIndex` as the time | `OneStream` |
| `PlayWaveProofs!PlayerIsTyped`, `StopLeavesNoThread`, `ListAddsUp`, `FreedIsNotUsed` | `TypeOK`, `StopWaitsForThreads`, `ListIsAccounted`, `NothingFreedIsUsed` | finitely many packets |
| `MusicBufferProofs!TokensAreCounted`, `ChunksAreInOrder` | `TokensMatchChunks`, `ChunksInOrder` | |
| `ClientWindowProofs!FilesAreTyped`, `FilesArriveInOrder` | `TypeOK`, `FilesGrowInOrder` | |
| `PanelsLieInTheWindow`, `ClicksHitWhatIsSeen` | `PanelsFit`, `ClicksAreOnWhatIsSeen` | |
| `EverySongIsInReach` | `EverySongCanBeShown` | `ManyPixels` |
| `TheTrackerIsTheUsers` | `HeldTrackerIsTheUsers`, an action property | |
| `ServerProofs!SongsOverlapOnlyAfterALostStop` | `OnlyALostStopLetsSongsOverlap` | |
| `TheRightClientIsServed` | `ServedClientHasAsked` | |
| `ClientsAreHandledOnce` | `HandledOnce` and `NextIsNew` of `Accept`, the safety half of `EveryClientIsHandled` | `Orderly` |
| `VoiceProofs!HeadersAreTheDrivers`, `VoiceIsSentInOrder` | `HeadersMatchDriver`, `VoiceIsInOrder` | the first: `Buffers > 1` |
| `ClientControlProofs!ClientImplementsQueues` | the client is two message queues | |
| `ControlNeverSleepsInAQueue` | `ControlFindsMessage` | |
| `OrderIsAlwaysKept` | `OrderIsKept` | `ShortReads = FALSE` |

The additional assumptions. `ShortReads = FALSE` and `StrayStrikes = {0}` are
those of the runs; without them the properties are false, as the table of
[disagreements](#where-the-code-and-its-documentation-disagree) shows. `OneStream` is that of
`stream_in_order` for any sizes: one thread puts and others get, packets are lost but neither late nor repeated,
there is one song, and the sender is no further ahead than the buffer is large. With late packets
`ElementsAreAhead` is false (`JitterStreamLate.cfg`). `Span \in 0..MaxInt` says that no index is more than half
of the circle ahead, where before and after could not be told apart; the buffer's window is far below. `Orderly` is `Apart`, `~TargetFirst` and `Stops # "ever"`, that is, run `server`:
clients come one after another, and the server is stopped only while none comes; the code
assures neither, and `AcceptTogether.cfg` and `AcceptStop.cfg` show what happens otherwise. `OneTakes` is how the
control thread, `PlayWave` and `MicThread` use their queues, except that `PlayWave` clears.
The code has ten buffers; with a single one, `HeadersMatchDriver` is false (the driver may
have completed the only buffer of a recording that goes on), which the proof brought to
light: the list of headers then says nothing about who has it.
`ManyPixels` is `MaxSongs * ItemHeight <= L * (L - ItemHeight)` for a pane of height `L`: the bar has no
more places than its pane has pixels, so one pixel moves a list of height `C` by about `C / L`, and when
that is more than the pane is higher than an item, some songs are passed over. It holds for several
thousand songs in a pane of 600 pixels; the code has no limit to derive it from.

The invariants. No property is inductive alone; each proof says what has to be known with it.
All of them were checked with TLC on the configurations of the runs before they were proved.

- `MessageQueue` (`IInv`): types, mutual exclusion and both conservation laws hold only
  together. That `canEnqueue` stays within the capacity follows from slot conservation, that
  a popped vector is not empty from token conservation, and both need the thread inside the
  vector to be alone. A step moves one thread from one label to the next, so the proof
  first shows how the cardinality of each set of threads (`Posting`, `Claimed`, `Reserved`,
  `Freeing`) changes, then that the counters change with them. For the poller (`EventFollows`)
  the event may be set on an empty vector only between a pop and its reset.
- `JitterBuffer` (`IInv`, `OpenInv`): the same kind of counting, with `Insert` and `Remove` shown
  to change the length of the heap by one and to keep its elements' types; then that
  whoever is about to take finds the event open.
- `Heap`: `Upwards`, the way from an element to the root, is a recursive function; that its
  recursion has exactly one solution is shown with the least set that holds an element and
  the parents of its members (`Way`, `UpwardsIs`), and from there on only the facts of
  `UpwardsGoesOn` and `UpwardsIsAPath` are used. `insert` and `remove` move the elements of one
  way by one place each; the proofs say for each place where its element came from (`src`)
  and compare it with that of its parent. That nothing is lost is a bijection between the
  places before and after (`Rearranges`, `SameCount`); as the loops only swap, it holds in whatever
  order the array is (`SiftedRearranges`, `TrickledRearranges`), and `HeapStep` is the step for
  which `HeapStepKeeps` concludes it, of the jitter buffer as of the heap in use. In use (`UseInv`) the heap is ordered by
  the distance to the zero, and stays so when the zero moves by one, as long as it does not
  pass an element (`ZeroMoves`). The loops `heapify` and `trickleDown` are recursive functions
  too: `Sifted` and `Trickled` say what they do from any element on and solve their equations
  (`SiftedGoesOn`, `TrickledGoesOn`), and no other function does, by the least element or the
  least rest of the way at which it would differ (`HeapifyIs`, `TrickleDownIs`).
- `JitterStream` (`AheadInv`): the elements in the buffer, the packet the receiver is putting and
  the one to be sent next follow the reader in this order, within the window; and the heap is
  ordered by the distance to the reader, although its zero, set at the last `get`, may be
  one index behind. The indexes lie on a circle (`Round`), and `NearerIsBefore` shows that
  `comapreIndexes` puts the nearer of two indexes first wherever the circle wraps around,
  as long as both are within half of it.
- That the stream implements `Playout` adds no invariant. `TakeIsPlay` reads off `AheadInv` that the root is
  the nearest element, and off `AheadInv'` that the index that is due is no longer in the heap, taken or
  not; what else is there before and after an insert or a remove is counted (`HeldIsCounted`). That a packet
  is never refused is `AheadIsInWindow`.
- `PlayWave` (`PlayerInv`): types; what thread handles, flags and threads say of each other;
  slots, tokens and packets in balance; and the list. `NothingFreedIsUsed` is about what is
  reached from a packet over the links. `ListInv` says it without recursion (there is a
  sequence of allocated packets, each once, that the links follow from the packet the
  cleanup thread waits for to the last one), and `FreedIsNotUsed` gets from the one to the
  other by the smallest number of links at which it would fail (`Least`, from
  `FS_StrictSubsetOrderingWellFounded` and `WFMin`).
- `MusicBuffer` (`Counted`, `OrderInv`): the writer is at an element's begin, the reader is at
  the one as many behind as there are unread chunks, and each element in between holds its
  chunk. The arithmetic of the ring, modulo included, is in `PosIs`, `WriteIs`, `ReadIs`.
- `FileTransfer` (`FileInv`): the packets of a song on a connection are the parts between
  those that arrived and those that were sent, each once and in order (`InFlight`), whatever
  packets of other songs lie between them.
- `ClientWindow`, the tracker (`TrackerInv`): what the bufferer is about to write is what the tracker says, and the
  reader has found the mouse up, unless the user came between their reading and their writing
  (`CallsAreOld`); only who has the mutex of `MusicBuffer` is between the two (`OneMoves`).
- The panels: what is left for the components without a preferred size is positive and divided
  by weight, rounded down. No row has more than five components, so `SumTo`, a recursive
  function, is written out once (`SumIs`), the shares add up to no more than the room (`SharesAre`,
  `SharesOfRows`), and components of positive sizes that add up to no more than it lie in it
  (`PlacesLieIn`).
- The list (`ClickInv`): items are placed one below the other, also while the control thread adds
  one, except the last until it is moved to its place (`ItemsInv`); and a valid picture of the pane
  shows every item it can show where it is now, and of the width that a click is looked up
  with (`DrawnInv`). Then what is seen under the mouse is the first item that is found there, or
  one that was never painted, which has no width and so no button (`ClickHits`). Each
  quotient of a product of sizes is only known to be a whole number (`TimesIsInt`), which is all
  that these properties need.
- The bar (`SizedInv`, `BarInv`): the size of the list is that of its items, also while one is added, and a tracker
  that was painted since is the part of its bar that the pane is of the list, unless its position is
  0/0. The rest is arithmetic of quotients: `PixelIsEnough` says that with `ManyPixels` the list moves, for each
  pixel the tracker moves, by no more than what the pane has beyond an item, and `SomePixelShows` picks the pixel
  for a song: the last one that does not move the list beyond it (`DraggedTo` says where the list is then).
- `Server` (`SongInv`, `ServeInv`): of the threads that are not done, all but the one created last have lost
  their stop; while the control thread waits for that one, its flag is set or it has lost its
  stop too; and before the next is created, whoever is not done has lost it; sockets and handles are in the same
  order, and the handles begin with those the control thread waits on.
- `Accept`, as part of the server (`DoorInv`): at most two clients are between `accept` and the handler, one in
  the thread that accepts or in the slot that is not counted yet (`Room`), and one in the slot
  counted last; neither has been handled, and they differ (`Arriving`). Which of them there are follows
  from where the two threads are and from the event (`Phases`), which also gives the length of the array,
  so that each store and each `realloc` hits the slot it should.
- `Microphone` (`DeviceInv`, `HeadersMatchDriver`, `BuffersAreInOrder`, `NumbersInv`): all places
  of a buffer between the driver and the network, joined, are the numbers of the buffers that
  were given out.
- `ClientControl`: the steps of the client are steps of two message queues or leave them
  alone, so `TypeOK`, `NeverPopsEmpty` and `WokenPollerFindsMessage` of each are instances of
  the theorems of `MessageQueueProofs` (`MsgqProofs`, `SockqProofs`), and nothing of the queue is
  proved twice. Downwards (`DownInv`), every message is at one stage between the server's thread
  and the handler, and what is on the wire is a path, unit by unit, from the reader's
  place in the stream to the writer's. Upwards (`UpInv`), requests are numbered by clicks, and
  each is above those ahead of it.

Only model-checked:

- Liveness (`ClearReturns`, `AcceptedIsConsumed`, `ChunksAreRead`, `RequestsAreServed`,
  `NewClientIsTold`, `EveryClientIsHandled`, `OpenFilesAreClosed`, `EverythingArrives`,
  `VoiceGetsThrough`, `TrackerIsShown`), which the proof system does not reach under fairness. Of
  `EveryClientIsHandled` the part that is not liveness is proved (`ClientsAreHandledOnce`).

Every invariant of the runs, every action property and both refinements are proved.

## Where the code and its documentation disagree

One is a run with a finding (`playwave_leak`). The others have a
configuration of their own, or one in which the property or constants named here take the
place of its own; TLC finds the property violated in each.

| configuration | property | what the code does |
| --- | --- | --- |
| `MCPlayWaveLeak.cfg` | `EveryPacketIsReached` | `PlayWave.cpp:456`: the cleanup thread ends before it invalidates its handle; a packet added in between is neither linked nor given a thread |
| `MusicBufferSong.cfg` | `OldSongIsNotRead` | `MusicBuffer.cpp:256`: `newSong` leaves the tokens of unread chunks |
| `MessageQueue.cfg`, of | `HasMessageIsNotEmpty` | `MessageQueue.cpp:219`: `clear` empties the queue and leaves `hasMessage` set; `MessageQueue.h` says it is unset when the queue is empty |
| `JitterStreamLate.cfg` | `ElementsAreAhead` | `JitterBuffer.cpp:207-222`: the window accepts a packet that was already consumed; it is never the next one, and is played as padding again and again |
| `JitterStream.cfg`, of | `PutReportsAcceptance` | `JitterBuffer.cpp:103`: the result is computed after the unlock, and `get` may have moved the window |
| `JitterStreamLate.cfg`, with `StrayStrikes = {0, 2}` and `MaxAhead = 5` | `JumpNeedsStrikes` | the constructor leaves `strikes` uninitialised: the first rejection may jump |
| `MCPlayWaveLeak.cfg`, of | `StopWaitsForAThread` | `PlayWave.cpp:495`: the handle is read again after its thread made it invalid; `INVALID_HANDLE_VALUE` is the handle of the process itself, and the wait never ends |
| `MCPlayWaveStop.cfg` | `StopReturns` | `PlayWave.cpp:318,368`: the play thread waits for a message (after a `clear` that left `hasMessage` set) or a slot, not for its stop |
| `MusicBufferSeek.cfg` | `SeekReturns` | `MusicBuffer.cpp:219`: `seekBuf` holds the mutex the reader needs while it waits for a play thread that needs the reader |
| `ServerControlTold.cfg` | `LastToldIsCurrent` | `ServerControlThread.cpp:114`: `addConnection` sends a song it has read earlier |
| `ServerControlSenders.cfg` | `OneSongIsSent` | `UDPSocket.cpp:667` sets the flag "to stop sending music in the case of a change of song"; line 524 clears it after the thread was started, and the wait for the thread gives up after five seconds (`ServerControlThread.cpp:191`) |
| `AcceptTogether.cfg` | `ClientsAreHandled` | `Server.cpp:108`: the accept thread stores at a count that the worker increments later; two clients close together use one slot twice, and the handler gets the empty one after it |
| `AcceptStop.cfg` | `ClientsAreHandled` | `Server.cpp:209-219`: `disconnect` sets the count to 0 while the worker thread is between counting a client and calling the handler, which then gets another slot, or memory before the array |
| `Server.cfg`, with `Stops = "ever"` | `SongIsFound` | `ServerControlThread.cpp:193-201`: a request that a client of the old server had sent names a song that the new playlist has not; `getSong` returns NULL, and the control thread reads it |
| `ClientWindowSeek.cfg` | `SeekIsWhereReleased` | `PlaybackTrackerPanel.cpp:187-194`: `onClickUp` clears `mouseDown` before it reads `played`; a thread may move the tracker in between, and the song goes on there |
| `ClientWindow.cfg`, of | `BarReachesEverySong` | `GuiScrollBar.cpp:159-165`: dragging the bar of a list that just fits its pane sets its position to 0/0, which stays when another song is added: until the next drag the tracker is a pixel too long, and a list that is one pixel longer than its pane has no way to go |
| `AcceptTogether.cfg`, with `Apart` and `TargetFirst` `TRUE` | `ClientsAreHandled` | `Server.cpp:108,171`: a target computed before `accept` points into the array that `realloc` has moved, or to the slot of the client before |
| `FileTransfer.cfg`, with one song and `MaxClicks = 1`, of | `DownloadsStart` | `FileTransferer.cpp:89`: a song that was ever sent is never sent again, to no client |
| `ClientControlKnown.cfg` | `AnnouncedSongIsKnown` | the worker of the server announces the song before the control thread sends the list |
| `ClientControlKnown.cfg`, of | `CloseFindsSocket` | closing the window while the control thread still connects uses an uninitialised pointer |
| `ClientControlReads.cfg` | `OrderIsKept` | `TCPSocket.cpp:226-247`: a read that returns less than was asked for is taken for whole |
| `ClientControlBlocked.cfg` | `NobodyWaitsForEver` | the window blocks in `enqueue` on a full queue while the control thread waits for the window to set its title |
| `ClientWindow.cfg`, of | `HeldButtonIsUnpressed` | `ButtonPanel.cpp:275`: `onMouseLeave` looks at `!mouseDown`, where its comment (lines 267-268) says "un-press the button if the mouse leaves"; and nobody asks Windows to report that it does |
| `MicrophoneStop.cfg` | `StopEnds` | `MicReader.cpp:336`: the callback looks at `recording` before the stop and adds a buffer after `waveInReset`: `waveInClose` then fails for ever |

Seen while modelling, and part of the models, but not a configuration:
- `get` returns 1 always, also when it padded, where its comment says 0 (`JitterBuffer.cpp:108`);
  nobody looks at it.
- When `lastIndex` jumps to a new song, the elements of the old one stay in the heap.
- `recvFile` opens files with mode `"w"`, text mode on Windows; the last packet of a
  transfer repeats the last part.
- After a connection has closed, the receive loop enqueues its last header again and
  again (`OrderIsKept` claims nothing then).
- A microphone that does not open leaves `recording` set, and after the next click
  `requestingRecorderStop` too: the button is dead from then on.
- `waveInReset` reports buffers that were never filled, and they are sent as voice.
- `UDPSocket::Send` and `sendtoGroup` return without `ReleaseMutex` when the socket
  call fails. The thread that got the mutex may take it again; on the server each song
  has its own thread, and the first `sendtoGroup` of the next one finds the mutex
  abandoned and drops its packet.
- After a restart the sender of the old server goes on with the old `UDPSocket`; `stopSong`
  sets the flag of the new one, so that the next change waits its five seconds and then
  two songs are sent at once. A new client is told of the old song, which its list has not.
- `setTrackerPercentage` looks at `mouseDown` before it writes: a call that had begun may
  move the tracker away from under the user once, although the comment says "If false,
  events will not be able to disrupt mouse movement" (`PlaybackTrackerPanel.cpp:141`).
  `HeldTrackerIsTheUsers` says what is left of that.
- A list that fits its pane can be dragged down: the region then begins above 0, an item
  that falls below its end is painted no more, and a click where it would be still counts.
- The receive loop of `UDPSocket` ends for good at the first error of `WSARecvFrom`.

## What is not modelled

- `ClientControlThread::disconnect`, `ServerControlThread::stop`, `ReceiveThread::stop`,
  `VoiceBufferer::stop`, `sendPlaylistToAll`, `MessageQueue::peekLen`,
  `MusicBufferer::clearBuffer`: nothing calls them, or only the destructor of an object
  that is never destroyed. `WaveSend` and an older `sendWave` are commented out.
- The first start of a server: `Init` is a server that has been started. The threads of an
  old server that are still busy when the next one starts.
- `ServerWindow::receiveMessage`, `receive` and `receiveCallback`: nothing
  calls the first, which starts the others. `Server::startUDP`,
  `submitCompletionRoutine`: nothing calls them. A
  client that is accepted before `sct->start()` (`ServerWindow.cpp:515`) has its APC
  queued to a thread that is not there, and never gets the playlist.
- `Playlist`: how a directory and the headers of its files are read.
- The rest of `GuiLibrary` (windows, dialogs, text boxes, lists and menus of Windows), the
  look of the panels and of `ServerWindow`: calls of Windows in a row on one thread, with
  no state of their own that another part reads. `GuiTableLayout` is used by nobody. The
  cursor and the highlight of the item under the mouse.
- That a send on `UDPSocket` fails: the mutex is not given back then, see above.
- Failures to create threads, semaphores or sockets: the code goes on as if nothing
  had happened.
- Sound itself: formats, volume, resampling.

## Plan

Done, in this order: queue and its proof; heap; jitter buffer and stream; player; music
buffer; server control; transfers; client control over the composed connection and
queues; voice; the server's accept, composed with server control; the client's window;
stop and start of the server.

Proved: the queue; the heap, the jitter buffer and its stream; the player; the music buffer; the
transfers; when two songs are sent at once, the right client on the server, and that its handler gets every client at most once; the microphone on its
way; order and wakeups of the client's control thread; the panels, clicks and tracker
of the client's window, and how far its list can be scrolled; that the jitter buffer implements
an abstract player.

Next: `UDPSocket`'s mutex, with sends that fail, and the abandoned mutex on the server.
