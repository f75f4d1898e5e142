----------------------------- MODULE Microphone -----------------------------
(***************************************************************************)
(* Client/MicReader between the window, the sound driver and the thread    *)
(* that sends the voice (ClientWindow::MicThread).  The window starts and  *)
(* stops the recording; the driver fills the buffers it was given in turn  *)
(* and calls waveInProc, on one thread, for each of them and for the close *)
(* of the device; the callback enqueues what was recorded, gives the       *)
(* driver another buffer while the recording lasts, and frees the front of *)
(* wavHeaders.                                                             *)
(*                                                                         *)
(* Buffers are numbered in the order of addBuffer, and what is recorded    *)
(* into one is known by its number.  micMQueue is the bounded channel that *)
(* a MessageQueue implements.  The driver is external.                     *)
(***************************************************************************)
EXTENDS Naturals, Sequences, FiniteSets

CONSTANTS Buffers,      \* buffers a recording starts with, 10 in the code
          MaxBuffers,   \* bound: buffers the driver is given in all
          Capacity,     \* of micMQueue
          MaxStops,     \* bound: recordings that are stopped
          OpenFails,    \* may waveInOpen fail
          NoBuffer

ASSUME BuffersAssumption == Buffers \in Nat \ {0} /\ Capacity \in Nat \ {0}
ASSUME BoundAssumption == MaxBuffers \in Nat /\ MaxStops \in Nat /\ OpenFails \in BOOLEAN
ASSUME NoBufferAssumption == NoBuffer \notin Nat

VARIABLES recording, requestingRecorderStop,   \* of the window
          micRecording,    \* MicReader::recording
          stopping,        \* where the window is in stopReading
          stops,           \* calls of onMicStop
          given,           \* buffers the driver was given so far
          mic,             \* the device
          empty, full,     \* the driver's buffers: to be filled, to be reported
          wavHeaders,
          callback, completed,   \* what waveInProc does, with which buffer
          micMQueue,
          sender, counted, data, \* the sending thread: its step, the index it read, the buffer it sends
          index,           \* voicePacket.index
          sent             \* history: the packets handed to the socket

window == <<recording, requestingRecorderStop, stopping, stops>>
driver == <<mic, empty, full>>
reader == <<micRecording, wavHeaders, given>>
report == <<callback, completed>>
voice  == <<sender, counted, data, sent>>
vars   == <<window, driver, reader, report, micMQueue, voice, index>>

Init ==
    /\ recording = FALSE /\ requestingRecorderStop = FALSE
    /\ stopping = "no" /\ stops = 0
    /\ micRecording = FALSE /\ wavHeaders = <<>> /\ given = 0
    /\ mic = "closed" /\ empty = <<>> /\ full = <<>>
    /\ callback = "idle" /\ completed = NoBuffer
    /\ micMQueue = <<>>
    /\ sender = "read" /\ counted = 0 /\ data = NoBuffer
    /\ index = 0 /\ sent = <<>>

Numbered(from, n) == [i \in 1..n |-> from + i]

-----------------------------------------------------------------------------
\* addBuffer, n times
AddBuffers(n) ==
    /\ given' = given + n
    /\ empty' = empty \o Numbered(given, n)
    /\ wavHeaders' = wavHeaders \o Numbered(given, n)

\* onClickMic, startReading and readIn.  The flags stay when the device does not open.
startReading ==
    /\ stopping = "no" /\ ~requestingRecorderStop /\ ~recording
    /\ given + Buffers <= MaxBuffers
    /\ recording' = TRUE
    /\ micRecording' = TRUE
    /\ \/ (micRecording \/ OpenFails) /\ UNCHANGED <<wavHeaders, given, driver>>
       \/ ~micRecording /\ mic' = "open" /\ AddBuffers(Buffers) /\ UNCHANGED full
    /\ UNCHANGED <<requestingRecorderStop, stopping, stops, report, micMQueue, voice, index>>

\* Mutant: the numbers start again at the click as well.
stopReadingRestarts ==
    /\ stopping = "no" /\ ~requestingRecorderStop /\ recording
    /\ stops < MaxStops
    /\ requestingRecorderStop' = TRUE
    /\ micRecording' = FALSE
    /\ stopping' = IF micRecording THEN "reset" ELSE "no"
    /\ index' = 0
    /\ UNCHANGED <<recording, stops, wavHeaders, given, driver, report, micMQueue, voice>>

\* onClickMic and stopReading
stopReading ==
    /\ stopping = "no" /\ ~requestingRecorderStop /\ recording
    /\ stops < MaxStops
    /\ requestingRecorderStop' = TRUE
    /\ micRecording' = FALSE
    /\ stopping' = IF micRecording THEN "reset" ELSE "no"
    /\ UNCHANGED <<recording, stops, wavHeaders, given, driver, report, micMQueue, voice, index>>

\* waveInReset reports every buffer, filled or not, and stops the device.
Reset ==
    /\ stopping = "reset"
    /\ stopping' = "close"
    /\ mic' = IF mic = "open" THEN "stopped" ELSE mic
    /\ full' = full \o empty
    /\ empty' = <<>>
    /\ UNCHANGED <<recording, requestingRecorderStop, stops, reader, report, micMQueue, voice, index>>

\* waveInClose fails as long as the device has buffers, and the loop calls it again.
Close ==
    /\ stopping = "close"
    /\ empty = <<>> /\ full = <<>>
    /\ stopping' = "no"
    /\ mic' = IF mic = "stopped" THEN "closing" ELSE mic
    /\ UNCHANGED <<recording, requestingRecorderStop, stops, empty, full, reader, report, micMQueue,
                   voice, index>>

Window == Reset \/ Close

-----------------------------------------------------------------------------
\* The driver fills a buffer.
Fill ==
    /\ mic = "open" /\ empty # <<>> /\ given < MaxBuffers
    /\ full' = Append(full, Head(empty))
    /\ empty' = Tail(empty)
    /\ UNCHANGED <<window, mic, reader, report, micMQueue, voice, index>>

\* waveInProc, WIM_DATA
DataCall ==
    /\ callback = "idle" /\ full # <<>>
    /\ callback' = "enqueue"
    /\ completed' = Head(full)
    /\ full' = Tail(full)
    /\ UNCHANGED <<window, mic, empty, reader, micMQueue, voice, index>>

\* Mutant: what finds the queue full is dropped.
DataEnqueueTries ==
    /\ callback = "enqueue"
    /\ callback' = "check"
    /\ micMQueue' = IF Len(micMQueue) < Capacity THEN Append(micMQueue, completed) ELSE micMQueue
    /\ UNCHANGED <<window, driver, reader, completed, voice, index>>

DataEnqueue ==
    /\ callback = "enqueue"
    /\ Len(micMQueue) < Capacity
    /\ callback' = "check"
    /\ micMQueue' = Append(micMQueue, completed)
    /\ UNCHANGED <<window, driver, reader, completed, voice, index>>

\* Mutant: a buffer is freed only when another takes its place.
DataCheckSkips ==
    /\ callback = "check"
    /\ callback' = IF micRecording THEN "add" ELSE "idle"
    /\ UNCHANGED <<window, driver, reader, completed, micMQueue, voice, index>>

DataCheck ==
    /\ callback = "check"
    /\ callback' = IF micRecording THEN "add" ELSE "free"
    /\ UNCHANGED <<window, driver, reader, completed, micMQueue, voice, index>>

DataAdd ==
    /\ callback = "add"
    /\ callback' = "free"
    /\ AddBuffers(1)
    /\ UNCHANGED <<window, mic, full, micRecording, completed, micMQueue, voice, index>>

DataFree ==
    /\ callback = "free"
    /\ callback' = "idle"
    /\ completed' = NoBuffer
    /\ wavHeaders' = IF wavHeaders = <<>> THEN <<>> ELSE Tail(wavHeaders)
    /\ UNCHANGED <<window, driver, micRecording, given, micMQueue, voice, index>>

\* WIM_CLOSE
CloseCall ==
    /\ callback = "idle" /\ mic = "closing"
    /\ callback' = "notify"
    /\ mic' = "closed"
    /\ micRecording' = FALSE
    /\ wavHeaders' = <<>>
    /\ UNCHANGED <<window, empty, full, given, completed, micMQueue, voice, index>>

\* SendMessage returns when the window has called onMicStop.
onMicStop ==
    /\ callback = "notify" /\ stopping = "no"
    /\ callback' = "idle"
    /\ recording' = FALSE /\ requestingRecorderStop' = FALSE
    /\ stops' = stops + 1
    /\ index' = 0
    /\ UNCHANGED <<stopping, driver, reader, completed, micMQueue, voice>>

waveInProc ==
    DataCall \/ DataEnqueue \/ DataCheck \/ DataAdd \/ DataFree \/ CloseCall \/ onMicStop

-----------------------------------------------------------------------------
\* MicThread: ++voicePacket.index reads and writes what onMicStop also writes.
SenderGoto(from, to) == sender = from /\ sender' = to

IndexRead ==
    /\ SenderGoto("read", "write")
    /\ counted' = index
    /\ UNCHANGED <<window, driver, reader, report, micMQueue, data, sent, index>>

IndexWrite ==
    /\ SenderGoto("write", "dequeue")
    /\ index' = counted + 1
    /\ counted' = 0
    /\ UNCHANGED <<window, driver, reader, report, micMQueue, data, sent>>

VoiceDequeue ==
    /\ SenderGoto("dequeue", "send")
    /\ micMQueue # <<>>
    /\ data' = Head(micMQueue)
    /\ micMQueue' = Tail(micMQueue)
    /\ UNCHANGED <<window, driver, reader, report, counted, sent, index>>

\* Mutant: the thread ends with the recording.
SendWhileRecording ==
    /\ SenderGoto("send", IF recording THEN "read" ELSE "ended")
    /\ sent' = Append(sent, [index |-> index, buffer |-> data])
    /\ data' = NoBuffer
    /\ UNCHANGED <<window, driver, reader, report, micMQueue, counted, index>>

\* UDPSocket::Send; whether the packet gets through is not known here.
Send ==
    /\ SenderGoto("send", "read")
    /\ sent' = Append(sent, [index |-> index, buffer |-> data])
    /\ data' = NoBuffer
    /\ UNCHANGED <<window, driver, reader, report, micMQueue, counted, index>>

MicThread == IndexRead \/ IndexWrite \/ VoiceDequeue \/ Send

-----------------------------------------------------------------------------
Next == startReading \/ stopReading \/ Window \/ Fill \/ waveInProc \/ MicThread

Spec == Init /\ [][Next]_vars

\* The threads run; nobody has to speak or to click.
FairSpec == Spec /\ WF_vars(Window) /\ WF_vars(waveInProc) /\ WF_vars(MicThread)

-----------------------------------------------------------------------------
InCallback == callback \in {"enqueue", "check", "add", "free"}
Held(condition, buffer) == IF condition THEN <<buffer>> ELSE <<>>

\* The header that waveInProc frees, the front of wavHeaders, is the one that was
\* completed, and the headers behind it are the buffers the driver has, in its
\* order: none is freed while the driver fills it, and none is left over.
HeadersMatchDriver ==
    callback # "notify" => wavHeaders = Held(InCallback, completed) \o full \o empty

\* Every buffer is on its way once, and in the order of the recording: sent, with
\* the sending thread, in the queue, in the callback, or with the driver.
BuffersAreInOrder ==
    LET out == [i \in DOMAIN sent |-> sent[i].buffer]
    IN  out \o Held(sender = "send", data) \o micMQueue \o Held(callback = "enqueue", completed)
            \o full \o empty = Numbered(0, given)

\* The numbers of the packets go up by one, but for one restart, at 0 or 1, for
\* each recording that was stopped: whatever was still on its way, and whether the
\* restart falls into the increment or not.
Restarts == {i \in 2..Len(sent) : sent[i].index # sent[i - 1].index + 1}
NumbersRestartAtStops ==
    /\ Cardinality(Restarts) <= stops
    /\ \A i \in Restarts : sent[i].index \in {0, 1}

\* The voice is sent once and in order, and its numbers restart only for a recording
\* that was stopped.
VoiceIsInOrder == BuffersAreInOrder /\ NumbersRestartAtStops

\* "Wait for the device to close": a stop comes to its end, and the button works again.
StopEnds == requestingRecorderStop ~> ~requestingRecorderStop
=============================================================================
