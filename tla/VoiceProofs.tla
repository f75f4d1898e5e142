----------------------------- MODULE VoiceProofs -----------------------------
(***************************************************************************)
(* The microphone and the thread that sends the voice, for any number of   *)
(* buffers, recordings and messages in the queue: the headers the callback *)
(* frees are those the driver is done with, what is recorded is sent once  *)
(* and in order, and the numbers of the packets restart at stops only.     *)
(***************************************************************************)
EXTENDS Voice, SequenceTheorems, FiniteSetTheorems, TLAPS

Numbers == Nat \cup {NoBuffer}   \* a buffer, or none

Unreported == Len(full) + Len(empty)

\* Every variable has its type.
MicTyped ==
    /\ recording \in BOOLEAN /\ requestingRecorderStop \in BOOLEAN /\ micRecording \in BOOLEAN
    /\ stopping \in {"no", "reset", "close"} /\ stops \in Nat
    /\ given \in Nat
    /\ mic \in {"closed", "open", "stopped", "closing"}
    /\ empty \in Seq(Numbers) /\ full \in Seq(Numbers) /\ wavHeaders \in Seq(Numbers)
    /\ callback \in {"idle", "enqueue", "check", "add", "free", "notify"}
    /\ completed \in Numbers
    /\ micMQueue \in Seq(Numbers)
    /\ sender \in {"read", "write", "dequeue", "send"}
    /\ counted \in Nat /\ data \in Numbers /\ index \in Nat
    /\ sent \in Seq([index : Nat, buffer : Numbers])

\* What the window, the device and the callback know of each other.  A device
\* with more than one buffer has one left when the callback adds another, so
\* it cannot have been closed in between.
DeviceInv ==
    /\ ~recording => mic = "closed" /\ stopping = "no" /\ callback = "idle"
    /\ micRecording => recording /\ ~requestingRecorderStop
    /\ requestingRecorderStop => recording
    /\ stopping # "no" \/ mic \in {"stopped", "closing"} \/ callback = "notify" => requestingRecorderStop
    /\ mic \in {"closed", "closing"} => full = <<>> /\ empty = <<>> /\ callback # "add"
    /\ mic = "closed" => callback \in {"idle", "notify"}
    /\ callback = "notify" => mic = "closed" /\ wavHeaders = <<>>
    /\ callback = "add" => Unreported = Buffers - 1
    /\ micRecording /\ callback \in {"enqueue", "check"} => Unreported = Buffers - 1
    /\ micRecording /\ mic = "open" /\ callback \in {"idle", "free"} => Unreported = Buffers

MicInv == MicTyped /\ DeviceInv

\* Buffers that are added are numbered on.
LEMMA NumberedIsSeq ==
    \A a, n \in Nat : Numbered(a, n) \in Seq(Nat) /\ Numbered(a, n) \in Seq(Numbers) /\ Len(Numbered(a, n)) = n
<1> SUFFICES ASSUME NEW a \in Nat, NEW n \in Nat
             PROVE  Numbered(a, n) \in Seq(Nat) /\ Numbered(a, n) \in Seq(Numbers) /\ Len(Numbered(a, n)) = n
  OBVIOUS
<1>1. Numbered(a, n) \in [1..n -> Nat] /\ Nat \subseteq Numbers
  BY DEF Numbered, Numbers
<1>2. QED
  BY <1>1

\* The numbers up to n + k are those up to n and the k behind them.
LEMMA NumberedGoesOn ==
    \A n, k \in Nat : Numbered(0, n + k) = Numbered(0, n) \o Numbered(n, k)
<1> SUFFICES ASSUME NEW n \in Nat, NEW k \in Nat
             PROVE  Numbered(0, n + k) = Numbered(0, n) \o Numbered(n, k)
  OBVIOUS
<1>1. /\ Numbered(0, n) \in Seq(Nat) /\ Numbered(n, k) \in Seq(Nat) /\ Numbered(0, n + k) \in Seq(Nat)
      /\ Len(Numbered(0, n)) = n /\ Len(Numbered(n, k)) = k /\ Len(Numbered(0, n + k)) = n + k
  BY NumberedIsSeq
<1>2. \A a, m \in Nat : \A i \in 1..m : Numbered(a, m)[i] = a + i
  BY DEF Numbered
<1>3. /\ Numbered(0, n) \o Numbered(n, k) \in Seq(Nat)
      /\ Len(Numbered(0, n) \o Numbered(n, k)) = n + k
      /\ \A i \in 1..(n + k) : (Numbered(0, n) \o Numbered(n, k))[i] =
            IF i <= n THEN Numbered(0, n)[i] ELSE Numbered(n, k)[i - n]
  BY <1>1, ConcatProperties
<1>4. ASSUME NEW i \in 1..(n + k) PROVE Numbered(0, n + k)[i] = (Numbered(0, n) \o Numbered(n, k))[i]
  <2>1. Numbered(0, n + k)[i] = i
    BY <1>2
  <2>2. CASE i <= n
    <3>1. Numbered(0, n)[i] = i
      BY <1>2, <2>2
    <3>2. QED
      BY <1>3, <2>1, <2>2, <3>1
  <2>3. CASE ~(i <= n)
    <3>1. i - n \in 1..k
      BY <2>3
    <3>2. Numbered(n, k)[i - n] = n + (i - n)
      BY <1>2, <3>1
    <3>3. QED
      BY <1>3, <2>1, <2>3, <3>2
  <2>4. QED
    BY <2>2, <2>3
<1>5. QED
  BY <1>1, <1>3, <1>4, SeqEqual

\* What one of the steps does is one of these.
LEMMA NextCases ==
    ASSUME Next
    PROVE  \/ startReading \/ stopReading \/ Reset \/ Close \/ Fill
           \/ DataCall \/ DataEnqueue \/ DataCheck \/ DataAdd \/ DataFree \/ CloseCall \/ onMicStop
           \/ IndexRead \/ IndexWrite \/ VoiceDequeue \/ Send
BY DEF Next, Window, waveInProc, MicThread

\* Adding buffers extends the driver's buffers and the headers alike.
LEMMA AddedBuffers ==
    ASSUME MicTyped, NEW n \in Nat, AddBuffers(n)
    PROVE  /\ given' \in Nat
           /\ empty' \in Seq(Numbers) /\ Len(empty') = Len(empty) + n
           /\ wavHeaders' \in Seq(Numbers)
<1>1. Numbered(given, n) \in Seq(Numbers) /\ Len(Numbered(given, n)) = n
  BY NumberedIsSeq DEF MicTyped
<1>2. empty \in Seq(Numbers) /\ wavHeaders \in Seq(Numbers) /\ given \in Nat
  BY DEF MicTyped
<1>3. /\ empty \o Numbered(given, n) \in Seq(Numbers) /\ wavHeaders \o Numbered(given, n) \in Seq(Numbers)
      /\ Len(empty \o Numbered(given, n)) = Len(empty) + n
  BY <1>1, <1>2, ConcatProperties
<1>4. QED
  BY <1>2, <1>3 DEF AddBuffers

\* Every step keeps the types of the microphone.
LEMMA NextMicTyped ==
    ASSUME MicTyped, Next
    PROVE  MicTyped'
<1> USE DEF MicTyped, window, driver, reader, report, voice
<1>0. Buffers \in Nat
  BY BuffersAssumption
<1>1. CASE startReading
  <2>1. CASE UNCHANGED <<wavHeaders, given, driver>>
    BY <1>1, <2>1 DEF startReading
  <2>2. CASE mic' = "open" /\ AddBuffers(Buffers) /\ UNCHANGED full
    BY <1>0, <1>1, <2>2, AddedBuffers DEF startReading
  <2>3. QED
    BY <1>1, <2>1, <2>2 DEF startReading
<1>2. CASE stopReading
  BY <1>2 DEF stopReading
<1>3. CASE Reset
  <2>1. full' \in Seq(Numbers)
    BY <1>3, ConcatProperties DEF Reset
  <2>2. QED
    BY <1>3, <2>1 DEF Reset
<1>4. CASE Close
  BY <1>4 DEF Close
<1>5. CASE Fill
  BY <1>5 DEF Fill
<1>6. CASE DataCall
  BY <1>6 DEF DataCall
<1>7. CASE DataEnqueue
  BY <1>7 DEF DataEnqueue
<1>8. CASE DataCheck
  BY <1>8 DEF DataCheck
<1>9. CASE DataAdd
  BY <1>9, AddedBuffers DEF DataAdd
<1>10. CASE DataFree
  BY <1>10 DEF DataFree, Numbers
<1>11. CASE CloseCall
  <2>1. wavHeaders' = <<>> /\ mic' = "closed" /\ callback' = "notify"
    BY <1>11 DEF CloseCall
  <2>2. UNCHANGED <<window, empty, full, given, completed, micMQueue, voice, index>>
    BY <1>11 DEF CloseCall
  <2>3. /\ wavHeaders' \in Seq(Numbers)
        /\ mic' \in {"closed", "open", "stopped", "closing"}
        /\ callback' \in {"idle", "enqueue", "check", "add", "free", "notify"}
    BY <2>1
  <2>4. micRecording' = FALSE
    BY <1>11 DEF CloseCall
  <2>5. micRecording' \in BOOLEAN
    BY <2>4, Zenon
  <2>6. QED
    BY <2>2, <2>3, <2>5
<1>12. CASE onMicStop
  <2>1. stops' = stops + 1 /\ index' = 0 /\ callback' = "idle"
    BY <1>12 DEF onMicStop
  <2>2. UNCHANGED <<stopping, driver, reader, completed, micMQueue, voice>>
    BY <1>12 DEF onMicStop
  <2>3. /\ stops' \in Nat /\ index' \in Nat
        /\ callback' \in {"idle", "enqueue", "check", "add", "free", "notify"}
    BY <2>1
  <2>4. recording' = FALSE /\ requestingRecorderStop' = FALSE
    BY <1>12 DEF onMicStop
  <2>5. recording' \in BOOLEAN /\ requestingRecorderStop' \in BOOLEAN
    BY <2>4, Zenon
  <2>6. QED
    BY <2>2, <2>3, <2>5
<1>13. CASE IndexRead
  BY <1>13 DEF IndexRead, SenderGoto
<1>14. CASE IndexWrite
  BY <1>14 DEF IndexWrite, SenderGoto
<1>15. CASE VoiceDequeue
  BY <1>15 DEF VoiceDequeue, SenderGoto
<1>16. CASE Send
  <2>1. [index |-> index, buffer |-> data] \in [index : Nat, buffer : Numbers]
    OBVIOUS
  <2>2. QED
    BY <1>16, <2>1 DEF Send, SenderGoto, Numbers
<1>17. QED
  BY NextCases, <1>1, <1>2, <1>3, <1>4, <1>5, <1>6, <1>7, <1>8, <1>9, <1>10, <1>11, <1>12, <1>13, <1>14,
     <1>15, <1>16

\* Every step keeps what the flags say of device and buffers.
LEMMA NextDeviceInv ==
    ASSUME Buffers > 1, MicInv, Next
    PROVE  DeviceInv'
<1> USE DEF DeviceInv, Unreported, window, driver, reader, report, voice
<1>0. /\ Buffers \in Nat /\ Len(full) \in Nat /\ Len(empty) \in Nat
      /\ full \in Seq(Numbers) /\ empty \in Seq(Numbers) /\ DeviceInv
  BY BuffersAssumption DEF MicInv, MicTyped
<1>1. CASE startReading
  <2>1. ~recording /\ recording' /\ micRecording' /\ ~requestingRecorderStop' /\ stopping' = "no" /\ callback' = "idle"
    BY <1>0, <1>1 DEF startReading
  <2>2. full = <<>> /\ empty = <<>> /\ mic = "closed" /\ ~micRecording
    BY <1>0, <2>1
  <2>3. CASE UNCHANGED <<wavHeaders, given, driver>>
    BY <1>0, <2>1, <2>2, <2>3
  <2>4. CASE mic' = "open" /\ AddBuffers(Buffers) /\ UNCHANGED full
    <3>1. Len(full') = 0 /\ Len(empty') = Buffers
      BY <1>0, <2>2, <2>4, AddedBuffers DEF MicInv
    <3>2. QED
      BY <1>0, <2>1, <2>4, <3>1
  <2>5. QED
    BY <1>1, <2>2, <2>3, <2>4 DEF startReading
<1>2. CASE stopReading
  BY <1>0, <1>2 DEF stopReading
<1>3. CASE Reset
  <2>1. Len(full') = Len(full) + Len(empty) /\ Len(empty') = 0 /\ full' = full \o empty /\ empty' = <<>>
    BY <1>0, <1>3, ConcatProperties DEF Reset
  <2>2. full = <<>> /\ empty = <<>> => full' = <<>>
    BY <2>1
  <2>3. /\ mic' = (IF mic = "open" THEN "stopped" ELSE mic) /\ stopping = "reset" /\ stopping' = "close"
        /\ UNCHANGED <<recording, requestingRecorderStop, micRecording, wavHeaders, callback>>
    BY <1>3 DEF Reset
  <2>4. QED
    BY <1>0, <2>1, <2>2, <2>3
<1>4. CASE Close
  <2>1. /\ stopping = "close" /\ stopping' = "no" /\ full = <<>> /\ empty = <<>>
        /\ mic' = (IF mic = "stopped" THEN "closing" ELSE mic)
        /\ UNCHANGED <<recording, requestingRecorderStop, micRecording, wavHeaders, callback, full, empty>>
    BY <1>4 DEF Close
  <2>2. callback # "add"
    BY <1>0, <2>1
  <2>3. QED
    BY <1>0, <2>1, <2>2
<1>5. CASE Fill
  <2>1. /\ mic = "open" /\ Len(full') = Len(full) + 1 /\ Len(empty') = Len(empty) - 1
        /\ UNCHANGED <<recording, requestingRecorderStop, micRecording, stopping, wavHeaders, callback, mic>>
    BY <1>0, <1>5 DEF Fill
  <2>2. QED
    BY <1>0, <2>1
<1>6. CASE DataCall
  <2>1. /\ callback = "idle" /\ callback' = "enqueue" /\ full # <<>> /\ Len(full') = Len(full) - 1
        /\ UNCHANGED <<recording, requestingRecorderStop, micRecording, stopping, wavHeaders, mic, empty>>
    BY <1>0, <1>6 DEF DataCall
  <2>2. mic \in {"open", "stopped"}
    BY <1>0, <2>1 DEF MicInv, MicTyped
  <2>3. QED
    BY <1>0, <2>1, <2>2
<1>7. CASE DataEnqueue
  BY <1>0, <1>7 DEF DataEnqueue
<1>8. CASE DataCheck
  BY <1>0, <1>8 DEF DataCheck
<1>9. CASE DataAdd
  <2>1. Len(empty') = Len(empty) + 1 /\ full' = full
    BY <1>9, AddedBuffers DEF DataAdd, MicInv
  <2>2. QED
    BY <1>0, <1>9, <2>1 DEF DataAdd
<1>10. CASE DataFree
  BY <1>0, <1>10 DEF DataFree
<1>11. CASE CloseCall
  BY <1>0, <1>11 DEF CloseCall
<1>12. CASE onMicStop
  BY <1>0, <1>12 DEF onMicStop
<1>13. CASE IndexRead \/ IndexWrite \/ VoiceDequeue \/ Send
  <2>1. UNCHANGED <<window, driver, reader, report>>
    <3>1. CASE IndexRead
      BY <3>1 DEF IndexRead
    <3>2. CASE IndexWrite
      BY <3>2 DEF IndexWrite
    <3>3. CASE VoiceDequeue
      BY <3>3 DEF VoiceDequeue
    <3>4. CASE Send
      BY <3>4 DEF Send
    <3>5. QED
      BY <1>13, <3>1, <3>2, <3>3, <3>4
  <2>2. QED
    BY <1>0, <2>1
<1>14. QED
  BY NextCases, <1>1, <1>2, <1>3, <1>4, <1>5, <1>6, <1>7, <1>8, <1>9, <1>10, <1>11, <1>12, <1>13

-----------------------------------------------------------------------------
\* How the driver's buffers move between the queues they are in.
LEMMA Joined ==
    \A a, b, c \in Seq(Numbers) :
        a \o b \in Seq(Numbers) /\ (a \o b) \o c = a \o (b \o c) /\ <<>> \o a = a /\ a \o <<>> = a
BY ConcatProperties, ConcatAssociative, ConcatEmptySeq

\* Appending an element is joining a sequence of one.
LEMMA JoinedAtEnd ==
    \A s \in Seq(Numbers) : \A e \in Numbers : <<e>> \in Seq(Numbers) /\ Append(s, e) = s \o <<e>>
BY AppendIsConcat

\* A sequence is its head and its tail.
LEMMA HeadGoesFirst ==
    \A s \in Seq(Numbers) : s # <<>> =>
        Head(s) \in Numbers /\ Tail(s) \in Seq(Numbers) /\ s = <<Head(s)>> \o Tail(s)
<1> SUFFICES ASSUME NEW s \in Seq(Numbers), s # <<>>
             PROVE  Head(s) \in Numbers /\ Tail(s) \in Seq(Numbers) /\ s = <<Head(s)>> \o Tail(s)
  OBVIOUS
<1> DEFINE one == <<Head(s)>>
           t == Tail(s)
<1>1. /\ Head(s) \in Numbers /\ t \in Seq(Numbers) /\ Len(t) = Len(s) - 1 /\ Len(s) \in Nat
      /\ \A i \in 1..Len(t) : t[i] = s[i + 1]
  BY HeadTailProperties, LenProperties
<1>2. one \in Seq(Numbers) /\ Len(one) = 1 /\ one[1] = s[1]
  BY <1>1
<1> HIDE DEF one, t
<1>3. /\ one \o t \in Seq(Numbers) /\ Len(one \o t) = Len(s)
      /\ \A i \in 1..Len(s) : (one \o t)[i] = IF i <= 1 THEN one[i] ELSE t[i - 1]
  <2>1. /\ one \o t \in Seq(Numbers) /\ Len(one \o t) = Len(one) + Len(t)
        /\ \A i \in 1..Len(one) + Len(t) : (one \o t)[i] = IF i <= Len(one) THEN one[i] ELSE t[i - Len(one)]
    <3>1. one \in Seq(Numbers) /\ t \in Seq(Numbers)
      BY <1>1, <1>2
    <3>2. QED
      BY <3>1, ConcatProperties, Zenon
  <2>2. Len(one) + Len(t) = Len(s)
    BY <1>1, <1>2
  <2>3. QED
    BY <1>2, <2>1, <2>2
<1>4. ASSUME NEW i \in 1..Len(s) PROVE s[i] = (one \o t)[i]
  <2>1. CASE i = 1
    BY <1>2, <1>3, <2>1
  <2>2. CASE i # 1
    BY <1>1, <1>3, <2>2
  <2>3. QED
    BY <2>1, <2>2
<1>5. s = one \o t
  BY <1>3, <1>4, SeqEqual
<1>6. QED
  BY <1>1, <1>5 DEF one, t

\* Removing the front of a list of headers leaves the rest.
LEMMA FrontIsFreed ==
    \A s \in Seq(Numbers) : \A e \in Numbers : <<e>> \o s # <<>> /\ Tail(<<e>> \o s) = s
<1> SUFFICES ASSUME NEW s \in Seq(Numbers), NEW e \in Numbers
             PROVE  <<e>> \o s # <<>> /\ Tail(<<e>> \o s) = s
  OBVIOUS
<1> DEFINE w == <<e>> \o s
<1>1. <<e>> \in Seq(Numbers) /\ Len(<<e>>) = 1 /\ Len(s) \in Nat
  OBVIOUS
<1>2. /\ w \in Seq(Numbers) /\ Len(w) = 1 + Len(s)
      /\ \A i \in 1..(1 + Len(s)) : w[i] = IF i <= 1 THEN <<e>>[i] ELSE s[i - 1]
  BY <1>1, ConcatProperties
<1> HIDE DEF w
<1>3. w # <<>>
  BY <1>1, <1>2
<1>4. Tail(w) \in Seq(Numbers) /\ Len(Tail(w)) = Len(s) /\ \A i \in 1..Len(Tail(w)) : Tail(w)[i] = w[i + 1]
  BY <1>1, <1>2, <1>3, HeadTailProperties
<1>5. \A i \in 1..Len(Tail(w)) : Tail(w)[i] = s[i]
  BY <1>1, <1>2, <1>4
<1>6. Tail(w) = s
  BY <1>4, <1>5, SeqEqual
<1>7. QED
  BY <1>3, <1>6 DEF w

\* Before the first recording there is neither header nor buffer.
LEMMA HeadersMatchInit ==
    ASSUME Init
    PROVE  HeadersMatchDriver
BY DEF Init, HeadersMatchDriver, Held, InCallback

\* Every step keeps headers and the buffers of the driver in step.
LEMMA NextHeadersMatch ==
    ASSUME MicInv, HeadersMatchDriver, Next
    PROVE  HeadersMatchDriver'
<1> DEFINE held == Held(InCallback, completed)
<1>1. /\ full \in Seq(Numbers) /\ empty \in Seq(Numbers) /\ wavHeaders \in Seq(Numbers)
      /\ completed \in Numbers /\ given \in Nat /\ held \in Seq(Numbers) /\ <<>> \in Seq(Numbers)
  BY DEF MicInv, MicTyped, Held
<1>2. callback # "notify" => wavHeaders = (held \o full) \o empty
  BY DEF HeadersMatchDriver
<1> HIDE DEF held
<1>3. ASSUME NEW n \in Nat, AddBuffers(n), UNCHANGED full, held' = held, callback # "notify"
      PROVE  HeadersMatchDriver'
  <2>1. Numbered(given, n) \in Seq(Numbers)
    BY <1>1, NumberedIsSeq
  <2>2. wavHeaders' = ((held \o full) \o empty) \o Numbered(given, n) /\ empty' = empty \o Numbered(given, n)
    BY <1>2, <1>3 DEF AddBuffers
  <2>3. wavHeaders' = (held \o full) \o empty'
    <3>1. held \o full \in Seq(Numbers)
      BY <1>1, Joined
    <3> DEFINE new == Numbered(given, n)
               front == held \o full
    <3>2. new \in Seq(Numbers) /\ front \in Seq(Numbers) /\ empty \in Seq(Numbers)
      BY <1>1, <2>1, <3>1
    <3> HIDE DEF new, front
    <3>3. (front \o empty) \o new = front \o (empty \o new)
      BY <3>2, Joined
    <3>4. QED
      BY <2>2, <3>3 DEF new, front
  <2>4. wavHeaders' = (held' \o full') \o empty'
    BY <1>3, <2>3
  <2>5. QED
    BY <2>4 DEF HeadersMatchDriver, held
<1>4. ASSUME UNCHANGED <<driver, wavHeaders, completed>>, callback # "notify", InCallback' = InCallback
      PROVE  HeadersMatchDriver'
  <2>1. held' = held /\ full' = full /\ empty' = empty /\ wavHeaders' = wavHeaders
    BY <1>4 DEF driver, held, Held
  <2>2. wavHeaders' = (held' \o full') \o empty'
    BY <1>2, <1>4, <2>1
  <2>3. QED
    BY <2>2 DEF HeadersMatchDriver, held
<1>5. CASE UNCHANGED <<driver, wavHeaders, report>>
  <2>1. held' = held /\ full' = full /\ empty' = empty /\ wavHeaders' = wavHeaders /\ callback' = callback
    BY <1>5 DEF driver, report, held, Held, InCallback
  <2>2. callback' # "notify" => wavHeaders' = (held' \o full') \o empty'
    BY <1>2, <2>1
  <2>3. QED
    BY <2>2 DEF HeadersMatchDriver, held
<1>6. CASE startReading
  <2>1. ~recording /\ callback = "idle" /\ UNCHANGED report
    BY <1>6 DEF startReading, MicInv, DeviceInv
  <2>2. held' = held /\ Buffers \in Nat
    BY <2>1, BuffersAssumption DEF report, held, Held, InCallback
  <2>3. CASE UNCHANGED <<wavHeaders, given, driver>>
    BY <1>5, <2>1, <2>3
  <2>4. CASE AddBuffers(Buffers) /\ UNCHANGED full
    BY <1>3, <2>1, <2>2, <2>4
  <2>5. QED
    BY <1>6, <2>3, <2>4 DEF startReading
<1>7. CASE stopReading \/ Close
  <2>1. UNCHANGED <<driver, wavHeaders, report>> \/ Close
    BY <1>7 DEF stopReading
  <2>2. ASSUME Close PROVE HeadersMatchDriver'
    <3>1. /\ full' = full /\ empty' = empty /\ wavHeaders' = wavHeaders
          /\ callback' = callback /\ completed' = completed
      BY <2>2 DEF Close, reader, report
    <3>2. held' = held
      BY <3>1 DEF held, Held, InCallback
    <3>3. callback' # "notify" => wavHeaders' = (held' \o full') \o empty'
      BY <1>2, <3>1, <3>2
    <3>4. QED
      BY <3>3 DEF HeadersMatchDriver, held
  <2>3. QED
    BY <1>5, <2>1, <2>2
<1>8. CASE Reset
  <2>1. /\ full' = full \o empty /\ empty' = <<>>
        /\ wavHeaders' = wavHeaders /\ callback' = callback /\ completed' = completed
    BY <1>8 DEF Reset, reader, report
  <2>2. held' = held
    BY <2>1 DEF held, Held, InCallback
  <2>3. callback # "notify" => wavHeaders = (held \o (full \o empty)) \o <<>>
    <3>1. held \o (full \o empty) \in Seq(Numbers) /\ (held \o full) \o empty = held \o (full \o empty)
      BY <1>1, Joined
    <3>2. (held \o (full \o empty)) \o <<>> = held \o (full \o empty)
      BY <3>1, Joined
    <3>3. QED
      BY <1>2, <3>1, <3>2
  <2>4. callback' # "notify" => wavHeaders' = (held' \o full') \o empty'
    BY <2>1, <2>2, <2>3
  <2>5. QED
    BY <2>4 DEF HeadersMatchDriver, held
<1>9. CASE Fill
  <2>1. /\ empty # <<>> /\ full' = Append(full, Head(empty)) /\ empty' = Tail(empty)
        /\ wavHeaders' = wavHeaders /\ callback' = callback /\ completed' = completed
    BY <1>9 DEF Fill, reader, report
  <2>2. held' = held
    BY <2>1 DEF held, Held, InCallback
  <2>3. Head(empty) \in Numbers /\ Tail(empty) \in Seq(Numbers) /\ empty = <<Head(empty)>> \o Tail(empty)
    BY <1>1, <2>1, HeadGoesFirst
  <2>4. full' = full \o <<Head(empty)>> /\ <<Head(empty)>> \in Seq(Numbers)
    BY <1>1, <2>1, <2>3, JoinedAtEnd
  <2>5. (held \o full) \o empty = (held \o full') \o empty'
    <3> DEFINE h == <<Head(empty)>>
               t == Tail(empty)
    <3>1. h \in Seq(Numbers) /\ t \in Seq(Numbers) /\ held \o full \in Seq(Numbers) /\ empty = h \o t
      BY <1>1, <2>3, <2>4, Joined
    <3> HIDE DEF h, t
    <3>2. (held \o full) \o (h \o t) = ((held \o full) \o h) \o t
      BY <3>1, Joined
    <3>3. (held \o full) \o h = held \o (full \o h)
      BY <1>1, <3>1, Joined
    <3>4. QED
      BY <2>1, <2>4, <3>1, <3>2, <3>3 DEF h, t
  <2>6. callback' # "notify" => wavHeaders' = (held' \o full') \o empty'
    BY <1>2, <2>1, <2>2, <2>5
  <2>7. QED
    BY <2>6 DEF HeadersMatchDriver, held
<1>10. CASE DataCall
  <2>1. /\ callback = "idle" /\ full # <<>> /\ completed' = Head(full) /\ full' = Tail(full)
        /\ empty' = empty /\ wavHeaders' = wavHeaders /\ callback' = "enqueue"
    BY <1>10 DEF DataCall, reader
  <2>2. held = <<>> /\ held' = <<Head(full)>>
    BY <2>1 DEF held, Held, InCallback
  <2>3. full = held' \o full'
    BY <1>1, <2>1, <2>2, HeadGoesFirst
  <2>4. wavHeaders = full \o empty
    BY <1>1, <1>2, <2>1, <2>2, Joined
  <2>5. wavHeaders' = (held' \o full') \o empty'
    BY <2>1, <2>3, <2>4
  <2>6. QED
    BY <2>5 DEF HeadersMatchDriver, held
<1>11. CASE DataEnqueue \/ DataCheck
  BY <1>4, <1>11 DEF DataEnqueue, DataCheck, InCallback, driver, reader
<1>12. CASE DataAdd
  <2>1. callback = "add" /\ callback' = "free" /\ completed' = completed /\ full' = full /\ AddBuffers(1)
    BY <1>12 DEF DataAdd
  <2>2. held' = held
    BY <2>1 DEF held, Held, InCallback
  <2>3. QED
    BY <1>3, <2>1, <2>2
<1>13. CASE DataFree
  <2>1. /\ callback = "free" /\ callback' = "idle" /\ full' = full /\ empty' = empty
        /\ wavHeaders' = IF wavHeaders = <<>> THEN <<>> ELSE Tail(wavHeaders)
    BY <1>13 DEF DataFree, driver
  <2>2. held = <<completed>> /\ held' = <<>>
    BY <2>1 DEF held, Held, InCallback
  <2>3. wavHeaders = <<completed>> \o (full \o empty) /\ full \o empty \in Seq(Numbers)
    <3>1. full \o empty \in Seq(Numbers) /\ (held \o full) \o empty = held \o (full \o empty)
      BY <1>1, Joined
    <3>2. wavHeaders = (held \o full) \o empty
      BY <1>2, <2>1
    <3>3. QED
      BY <2>2, <3>1, <3>2
  <2>4. wavHeaders' = full \o empty
    BY <1>1, <2>1, <2>3, FrontIsFreed
  <2>5. wavHeaders' = (held' \o full') \o empty'
    BY <1>1, <2>1, <2>2, <2>4, Joined
  <2>6. QED
    BY <2>5 DEF HeadersMatchDriver, held
<1>14. CASE CloseCall
  BY <1>14 DEF CloseCall, HeadersMatchDriver
<1>15. CASE onMicStop
  <2>1. callback = "notify" /\ callback' = "idle" /\ UNCHANGED <<driver, reader, completed>>
    BY <1>15 DEF onMicStop
  <2>2. full = <<>> /\ empty = <<>> /\ wavHeaders = <<>>
    BY <2>1 DEF MicInv, DeviceInv
  <2>3. held' = <<>> /\ full' = <<>> /\ empty' = <<>> /\ wavHeaders' = <<>>
    BY <2>1, <2>2 DEF driver, reader, held, Held, InCallback
  <2>4. wavHeaders' = (held' \o full') \o empty'
    BY <2>3
  <2>5. QED
    BY <2>4 DEF HeadersMatchDriver, held
<1>16. CASE IndexRead \/ IndexWrite \/ VoiceDequeue \/ Send
  BY <1>5, <1>16 DEF IndexRead, IndexWrite, VoiceDequeue, Send, driver, reader, report
<1>17. QED
  BY NextCases, <1>6, <1>7, <1>8, <1>9, <1>10, <1>11, <1>12, <1>13, <1>14, <1>15, <1>16

-----------------------------------------------------------------------------
\* The way of the buffers, from those that are sent to those that are still empty.
Out == [i \in DOMAIN sent |-> sent[i].buffer]
Sending == Held(sender = "send", data)
InHand == Held(callback = "enqueue", completed)
Line(a, b, c, d, e, f) == a \o (b \o (c \o (d \o (e \o f))))
OnTheirWay == Line(Out, Sending, micMQueue, InHand, full, empty)

\* Joining is associative.
LEMMA Regrouped ==
    \A a, b, c \in Seq(Numbers) : (a \o b) \o c = a \o (b \o c)
BY ConcatAssociative

\* Taking the head into the hand leaves what is joined as it is.
LEMMA TakenFromFront ==
    \A s, r \in Seq(Numbers) : s # <<>> => s \o r = <<Head(s)>> \o (Tail(s) \o r)
<1> SUFFICES ASSUME NEW s \in Seq(Numbers), NEW r \in Seq(Numbers), s # <<>>
             PROVE  s \o r = <<Head(s)>> \o (Tail(s) \o r)
  OBVIOUS
<1> DEFINE h == <<Head(s)>>
           t == Tail(s)
<1>1. t \in Seq(Numbers) /\ h \in Seq(Numbers) /\ s = h \o t
  BY HeadGoesFirst, JoinedAtEnd
<1> HIDE DEF h, t
<1>2. (h \o t) \o r = h \o (t \o r)
  BY <1>1, Joined
<1>3. QED
  BY <1>1, <1>2 DEF h, t

\* Putting what is in the hand at the end leaves what is joined as it is.
LEMMA PutAtEnd ==
    \A s, r \in Seq(Numbers) : \A e \in Numbers : s \o (<<e>> \o r) = Append(s, e) \o r
<1> SUFFICES ASSUME NEW s \in Seq(Numbers), NEW r \in Seq(Numbers), NEW e \in Numbers
             PROVE  s \o (<<e>> \o r) = Append(s, e) \o r
  OBVIOUS
<1> DEFINE one == <<e>>
<1>1. one \in Seq(Numbers) /\ Append(s, e) = s \o one
  BY JoinedAtEnd
<1> HIDE DEF one
<1>2. s \o (one \o r) = (s \o one) \o r
  BY <1>1, Joined
<1>3. QED
  BY <1>1, <1>2 DEF one

\* Line is the six sequences joined.
LEMMA JoinedInLine ==
    \A a, b, c, d, e, f :
        {a, b, c, d, e, f} \subseteq Seq(Numbers) =>
        Line(a, b, c, d, e, f) = a \o b \o c \o d \o e \o f /\ a \o b \o c \o d \o e \in Seq(Numbers)
<1> TAKE a, b, c, d, e, f
<1>0. HAVE {a, b, c, d, e, f} \subseteq Seq(Numbers)
<1>a. a \in Seq(Numbers) /\ b \in Seq(Numbers)
  BY <1>0
<1>c. c \in Seq(Numbers)
  BY <1>0
<1>d. d \in Seq(Numbers)
  BY <1>0
<1>e. e \in Seq(Numbers) /\ f \in Seq(Numbers)
  BY <1>0
<1> DEFINE ab == a \o b
           abc == ab \o c
           abcd == abc \o d
           abcde == abcd \o e
           ef == e \o f
           def == d \o ef
           cdef == c \o def
<1>1. ab \in Seq(Numbers) /\ ef \in Seq(Numbers)
  BY <1>a, <1>e, ConcatProperties
<1> HIDE DEF ab, ef
<1>2. abc \in Seq(Numbers) /\ def \in Seq(Numbers)
  BY <1>1, <1>c, <1>d, ConcatProperties
<1> HIDE DEF abc, def
<1>3. abcd \in Seq(Numbers) /\ cdef \in Seq(Numbers)
  BY <1>2, <1>c, <1>d, ConcatProperties
<1> HIDE DEF abcd, cdef
<1>4. abcde \in Seq(Numbers)
  BY <1>3, <1>e, ConcatProperties
<1>5. abcd \o ef = (abcd \o e) \o f
  BY <1>3, <1>e, Regrouped DEF ef
<1>6. abc \o def = abcd \o ef
  BY <1>1, <1>2, <1>d, Regrouped DEF def, abcd
<1>7. ab \o cdef = abc \o def
  BY <1>1, <1>2, <1>c, Regrouped DEF cdef, abc
<1>8. a \o (b \o cdef) = ab \o cdef
  BY <1>3, <1>a, Regrouped DEF ab
<1>9. a \o (b \o cdef) = abcde \o f
  BY <1>5, <1>6, <1>7, <1>8
<1>10. QED
  BY <1>4, <1>9 DEF ab, abc, abcd, ef, def, cdef, Line

\* What is joined to the last sequence is joined to the line.
LEMMA JoinedBehind ==
    \A a, b, c, d, e, f, n :
        {a, b, c, d, e, f, n} \subseteq Seq(Numbers) =>
        Line(a, b, c, d, e, f \o n) = Line(a, b, c, d, e, f) \o n
<1> TAKE a, b, c, d, e, f, n
<1>0. HAVE {a, b, c, d, e, f, n} \subseteq Seq(Numbers)
<1> DEFINE all == a \o b \o c \o d \o e
           fn == f \o n
<1>1. f \in Seq(Numbers) /\ n \in Seq(Numbers) /\ {a, b, c, d, e, f} \subseteq Seq(Numbers)
  <2>1. f \in Seq(Numbers) /\ n \in Seq(Numbers)
    BY <1>0
  <2>2. {a, b, c, d, e, f} \subseteq Seq(Numbers)
    BY <1>0, Zenon
  <2>3. QED
    BY <2>1, <2>2
<1>2. fn \in Seq(Numbers)
  BY <1>1, ConcatProperties
<1> HIDE DEF fn
<1>3. {a, b, c, d, e, fn} \subseteq Seq(Numbers)
  BY <1>0, <1>2
<1>4. Line(a, b, c, d, e, f) = all \o f /\ all \in Seq(Numbers)
  BY <1>1, JoinedInLine
<1>5. Line(a, b, c, d, e, fn) = all \o fn
  BY <1>3, JoinedInLine
<1> HIDE DEF all
<1>6. all \o (f \o n) = (all \o f) \o n
  BY <1>1, <1>4, Regrouped
<1>7. QED
  BY <1>4, <1>5, <1>6 DEF fn

\* The places a buffer passes on its way are typed.
LEMMA WayIsTyped ==
    ASSUME MicTyped
    PROVE  /\ Out \in Seq(Numbers) /\ Sending \in Seq(Numbers) /\ micMQueue \in Seq(Numbers)
           /\ InHand \in Seq(Numbers) /\ full \in Seq(Numbers) /\ empty \in Seq(Numbers)
           /\ given \in Nat /\ completed \in Numbers /\ data \in Numbers
           /\ <<>> \in Seq(Numbers)
<1>1. sent \in Seq([index : Nat, buffer : Numbers])
  BY DEF MicTyped
<1>2. DOMAIN sent = 1..Len(sent) /\ Len(sent) \in Nat /\ \A i \in 1..Len(sent) : sent[i].buffer \in Numbers
  <2>1. DOMAIN sent = 1..Len(sent) /\ Len(sent) \in Nat
    BY <1>1, LenProperties
  <2>2. \A i \in 1..Len(sent) : sent[i] \in [index : Nat, buffer : Numbers]
    BY <1>1, ElementOfSeq
  <2>3. QED
    BY <2>1, <2>2
<1>3. Out \in [1..Len(sent) -> Numbers]
  BY <1>2 DEF Out
<1>4. Out \in Seq(Numbers)
  BY <1>2, <1>3
<1>5. QED
  BY <1>4 DEF MicTyped, Sending, InHand, Held

\* Sending appends the buffer to what has gone out.
LEMMA OutGrows ==
    ASSUME MicTyped, sent' = Append(sent, [index |-> index, buffer |-> data])
    PROVE  Out' = Append(Out, data)
<1> DEFINE packet == [index |-> index, buffer |-> data]
           R == [index : Nat, buffer : Numbers]
<1>1. packet \in R /\ sent \in Seq(R) /\ packet.buffer = data
  BY DEF MicTyped
<1> HIDE DEF packet, R
<1>2. /\ sent' \in Seq(R) /\ Len(sent') = Len(sent) + 1 /\ Len(sent) \in Nat
      /\ \A i \in 1..Len(sent) : sent'[i] = sent[i]
      /\ sent'[Len(sent) + 1] = packet
  BY <1>1, AppendProperties, LenProperties DEF packet
<1>3. DOMAIN sent = 1..Len(sent) /\ DOMAIN sent' = 1..(Len(sent) + 1)
  BY <1>1, <1>2, LenProperties
<1>4. Out' = [i \in 1..(Len(sent) + 1) |-> sent'[i].buffer] /\ Out = [i \in 1..Len(sent) |-> sent[i].buffer]
  BY <1>3 DEF Out
<1>5. Out \in Seq(Numbers) /\ Len(Out) = Len(sent) /\ data \in Numbers
  BY <1>2, <1>4, WayIsTyped
<1>6. /\ Append(Out, data) \in Seq(Numbers) /\ Len(Append(Out, data)) = Len(sent) + 1
      /\ \A i \in 1..Len(sent) : Append(Out, data)[i] = Out[i]
      /\ Append(Out, data)[Len(sent) + 1] = data
  BY <1>5, AppendProperties
<1>7. \A i \in 1..(Len(sent) + 1) : Append(Out, data)[i] = sent'[i].buffer
  BY <1>1, <1>2, <1>4, <1>6
<1>8. Append(Out, data) = [i \in 1..(Len(sent) + 1) |-> Append(Out, data)[i]]
  BY <1>6, LenProperties
<1>9. QED
  BY <1>4, <1>7, <1>8

\* The order of the buffers, said of all places on their way at once.
LEMMA OrderIsAlongTheWay ==
    ASSUME MicTyped
    PROVE  BuffersAreInOrder <=> OnTheirWay = Numbered(0, given)
<1>1. OnTheirWay = Out \o Sending \o micMQueue \o InHand \o full \o empty
  <2>1. {Out, Sending, micMQueue, InHand, full, empty} \subseteq Seq(Numbers)
    BY WayIsTyped
  <2>2. QED
    BY <2>1, JoinedInLine DEF OnTheirWay
<1>2. QED
  BY <1>1 DEF BuffersAreInOrder, Out, Sending, InHand

\* Before the first recording nothing is on its way.
LEMMA OrderInit ==
    ASSUME Init
    PROVE  BuffersAreInOrder
<1>1. Numbered(0, 0) = <<>>
  BY NumberedIsSeq, EmptySeq
<1>2. Out = <<>>
  BY DEF Init, Out
<1>3. Out \o <<>> \o <<>> \o <<>> \o <<>> \o <<>> = <<>>
  BY <1>2
<1>4. QED
  BY <1>1, <1>3 DEF Init, BuffersAreInOrder, Out, Held

\* Every step keeps the buffers in the order in which the driver got them.
LEMMA NextOrder ==
    ASSUME MicTyped, BuffersAreInOrder, Next
    PROVE  BuffersAreInOrder'
<1>1. MicTyped /\ MicTyped'
  BY NextMicTyped
<1>2. /\ Out \in Seq(Numbers) /\ Sending \in Seq(Numbers) /\ micMQueue \in Seq(Numbers)
      /\ InHand \in Seq(Numbers) /\ full \in Seq(Numbers) /\ empty \in Seq(Numbers)
      /\ given \in Nat /\ completed \in Numbers /\ data \in Numbers
  BY <1>1, WayIsTyped
<1>3. OnTheirWay = Numbered(0, given)
  BY <1>1, OrderIsAlongTheWay
<1>4. OnTheirWay' = Numbered(0, given') => BuffersAreInOrder'
  <2>1. (BuffersAreInOrder <=> OnTheirWay = Numbered(0, given))'
    BY <1>1, OrderIsAlongTheWay, PTL
  <2>2. QED
    BY <2>1
<1> SUFFICES OnTheirWay' = Numbered(0, given')
  BY <1>4
<1>5. ASSUME UNCHANGED <<Out, Sending, micMQueue, InHand, driver, given>>
      PROVE  OnTheirWay' = Numbered(0, given')
  <2>1. full' = full /\ empty' = empty
    BY <1>5 DEF driver
  <2>2. OnTheirWay' = OnTheirWay
    BY <1>5, <2>1 DEF OnTheirWay, Line
  <2>3. QED
    BY <1>3, <1>5, <2>2
<1>6. ASSUME UNCHANGED <<callback, completed, voice>>
      PROVE  UNCHANGED <<Out, Sending, InHand>>
  BY <1>6 DEF voice, Out, Sending, InHand, Held
<1>7. ASSUME NEW n \in Nat, AddBuffers(n), UNCHANGED <<Out, Sending, micMQueue, InHand, full>>
      PROVE  OnTheirWay' = Numbered(0, given')
  <2> DEFINE new == Numbered(given, n)
  <2>1. new \in Seq(Numbers)
    BY <1>2, NumberedIsSeq
  <2>2. empty' = empty \o new /\ given' = given + n
    BY <1>7 DEF AddBuffers
  <2>3. Numbered(0, given') = Numbered(0, given) \o new
    BY <1>2, <2>2, NumberedGoesOn
  <2> HIDE DEF new
  <2>4. {Out, Sending, micMQueue, InHand, full, empty, new} \subseteq Seq(Numbers)
    BY <1>2, <2>1
  <2>5. Line(Out, Sending, micMQueue, InHand, full, empty \o new) = OnTheirWay \o new
    BY <2>4, JoinedBehind DEF OnTheirWay
  <2>6. OnTheirWay' = Line(Out, Sending, micMQueue, InHand, full, empty \o new)
    BY <1>7, <2>2 DEF OnTheirWay, Line
  <2>7. QED
    BY <1>3, <2>3, <2>5, <2>6
<1>8. CASE startReading
  <2>1. UNCHANGED <<Out, Sending, InHand, micMQueue>>
    BY <1>6, <1>8 DEF startReading, report
  <2>2. Buffers \in Nat
    BY BuffersAssumption
  <2>3. QED
    BY <1>5, <1>7, <1>8, <2>1, <2>2 DEF startReading
<1>9. CASE stopReading \/ Close
  <2>1. UNCHANGED <<callback, completed, voice>> /\ full' = full /\ empty' = empty /\ UNCHANGED <<micMQueue, given>>
    BY <1>9 DEF stopReading, Close, report, reader, driver
  <2>2. OnTheirWay' = OnTheirWay
    BY <1>6, <2>1 DEF OnTheirWay, Line
  <2>3. QED
    BY <1>3, <2>1, <2>2
<1>10. CASE Reset
  <2>1. /\ UNCHANGED <<callback, completed, voice, micMQueue, given>>
        /\ full' = full \o empty /\ empty' = <<>>
    BY <1>10 DEF Reset, report, reader
  <2>2. full' \o empty' = full \o empty
    BY <1>2, <2>1, Joined
  <2>3. OnTheirWay' = OnTheirWay
    BY <1>6, <2>1, <2>2 DEF OnTheirWay, Line
  <2>4. QED
    BY <1>3, <2>1, <2>3
<1>11. CASE Fill
  <2>1. /\ UNCHANGED <<callback, completed, voice, micMQueue, given>>
        /\ empty # <<>> /\ full' = Append(full, Head(empty)) /\ empty' = Tail(empty)
    BY <1>11 DEF Fill, report, reader
  <2>2. Head(empty) \in Numbers /\ empty' \in Seq(Numbers) /\ empty = <<Head(empty)>> \o empty'
    BY <1>2, <2>1, HeadGoesFirst
  <2>3. full \o (<<Head(empty)>> \o empty') = Append(full, Head(empty)) \o empty'
    BY <1>2, <2>2, PutAtEnd, Zenon
  <2>4. full' \o empty' = full \o empty
    BY <2>1, <2>2, <2>3
  <2>5. OnTheirWay' = OnTheirWay
    BY <1>6, <2>1, <2>4 DEF OnTheirWay, Line
  <2>6. QED
    BY <1>3, <2>1, <2>5
<1>12. CASE DataCall
  <2>1. /\ callback = "idle" /\ callback' = "enqueue" /\ full # <<>> /\ completed' = Head(full) /\ full' = Tail(full)
        /\ UNCHANGED <<voice, micMQueue, given, empty>>
    BY <1>12 DEF DataCall, reader
  <2>2. InHand = <<>> /\ InHand' = <<Head(full)>>
    BY <2>1 DEF InHand, Held
  <2>3. UNCHANGED <<Out, Sending>>
    BY <2>1 DEF voice, Out, Sending, Held
  <2>4. full \o empty = <<Head(full)>> \o (Tail(full) \o empty)
    BY <1>2, <2>1, TakenFromFront
  <2>5. full \o empty \in Seq(Numbers)
    BY <1>2, Joined
  <2>6. InHand' \o (full' \o empty') = InHand \o (full \o empty)
    BY <2>1, <2>2, <2>4, <2>5, Joined
  <2>7. OnTheirWay' = OnTheirWay
    BY <2>1, <2>3, <2>6 DEF OnTheirWay, Line
  <2>8. QED
    BY <1>3, <2>1, <2>7
<1>13. CASE DataEnqueue
  <2>1. /\ callback = "enqueue" /\ callback' = "check" /\ micMQueue' = Append(micMQueue, completed)
        /\ UNCHANGED <<voice, given, empty, full>>
    BY <1>13 DEF DataEnqueue, reader, driver
  <2>2. InHand = <<completed>> /\ InHand' = <<>>
    BY <2>1 DEF InHand, Held
  <2>3. UNCHANGED <<Out, Sending>>
    BY <2>1 DEF voice, Out, Sending, Held
  <2>4. full \o empty \in Seq(Numbers)
    BY <1>2, Joined
  <2>5. micMQueue \o (<<completed>> \o (full \o empty)) = Append(micMQueue, completed) \o (full \o empty)
    BY <1>2, <2>4, PutAtEnd, Zenon
  <2>6. InHand' \o (full' \o empty') = full \o empty
    BY <2>1, <2>2, <2>4, Joined
  <2>7. micMQueue' \o (InHand' \o (full' \o empty')) = micMQueue \o (InHand \o (full \o empty))
    BY <2>1, <2>2, <2>5, <2>6
  <2>8. OnTheirWay' = OnTheirWay
    BY <2>3, <2>7 DEF OnTheirWay, Line
  <2>9. QED
    BY <1>3, <2>1, <2>8
<1>14. CASE DataCheck \/ DataFree \/ CloseCall \/ onMicStop
  <2>1. InHand = <<>> /\ InHand' = <<>>
    BY <1>14 DEF DataCheck, DataFree, CloseCall, onMicStop, InHand, Held
  <2>2. UNCHANGED <<voice, micMQueue, full, empty, given>>
    BY <1>14 DEF DataCheck, DataFree, CloseCall, onMicStop, driver, reader
  <2>3. UNCHANGED <<Out, Sending>>
    BY <2>2 DEF voice, Out, Sending, Held
  <2>4. OnTheirWay' = OnTheirWay
    BY <2>1, <2>2, <2>3 DEF OnTheirWay, Line
  <2>5. QED
    BY <1>3, <2>2, <2>4
<1>15. CASE DataAdd
  <2>1. UNCHANGED <<voice, micMQueue, full>> /\ AddBuffers(1)
    BY <1>15 DEF DataAdd
  <2>2. InHand = <<>> /\ InHand' = <<>>
    BY <1>15 DEF DataAdd, InHand, Held
  <2>3. UNCHANGED <<Out, Sending>>
    BY <2>1 DEF voice, Out, Sending, Held
  <2>4. QED
    BY <1>7, <2>1, <2>2, <2>3
<1>16. CASE IndexRead \/ IndexWrite
  <2>1. UNCHANGED <<micMQueue, driver, given, callback, completed, sent>> /\ sender # "send" /\ sender' # "send"
    BY <1>16 DEF IndexRead, IndexWrite, SenderGoto, reader, report
  <2>2. UNCHANGED <<Out, Sending, InHand>>
    BY <2>1 DEF Out, Sending, InHand, Held
  <2>3. QED
    BY <1>5, <2>1, <2>2
<1>17. CASE VoiceDequeue
  <2>1. /\ sender = "dequeue" /\ sender' = "send" /\ micMQueue # <<>>
        /\ data' = Head(micMQueue) /\ micMQueue' = Tail(micMQueue)
        /\ UNCHANGED <<given, full, empty, callback, completed, sent>>
    BY <1>17 DEF VoiceDequeue, SenderGoto, driver, reader, report
  <2>2. Sending = <<>> /\ Sending' = <<Head(micMQueue)>>
    BY <2>1 DEF Sending, Held
  <2>3. UNCHANGED <<Out, InHand>>
    BY <2>1 DEF Out, InHand, Held
  <2> DEFINE rest == InHand \o (full \o empty)
  <2>4. rest \in Seq(Numbers) /\ rest' = rest
    BY <1>2, <2>1, <2>3, Joined
  <2> HIDE DEF rest
  <2>5. micMQueue \o rest = <<Head(micMQueue)>> \o (Tail(micMQueue) \o rest)
    BY <1>2, <2>1, <2>4, TakenFromFront
  <2>6. <<>> \o (micMQueue \o rest) = micMQueue \o rest
    BY <1>2, <2>4, Joined
  <2>7. Sending' \o (micMQueue' \o rest') = Sending \o (micMQueue \o rest)
    BY <2>1, <2>2, <2>4, <2>5, <2>6
  <2>8. OnTheirWay' = OnTheirWay
    BY <2>3, <2>7 DEF OnTheirWay, Line, rest
  <2>9. QED
    BY <1>3, <2>1, <2>8
<1>18. CASE Send
  <2>1. /\ sender = "send" /\ sender' = "read" /\ sent' = Append(sent, [index |-> index, buffer |-> data])
        /\ UNCHANGED <<given, full, empty, callback, completed, micMQueue>>
    BY <1>18 DEF Send, SenderGoto, driver, reader, report
  <2>2. Sending = <<data>> /\ Sending' = <<>>
    BY <2>1 DEF Sending, Held
  <2>3. UNCHANGED InHand
    BY <2>1 DEF InHand, Held
  <2>4. Out' = Append(Out, data)
    BY <1>1, <2>1, OutGrows
  <2> DEFINE rest == micMQueue \o (InHand \o (full \o empty))
  <2>5. rest \in Seq(Numbers) /\ rest' = rest
    <3>1. full \o empty \in Seq(Numbers)
      BY <1>2, Joined
    <3>2. InHand \o (full \o empty) \in Seq(Numbers)
      BY <1>2, <3>1, Joined
    <3>3. QED
      BY <1>2, <2>1, <2>3, <3>2, Joined
  <2> HIDE DEF rest
  <2>6. Out \o (<<data>> \o rest) = Append(Out, data) \o rest /\ <<>> \o rest = rest
    <3>1. <<>> \o rest = rest
      BY <1>2, <2>5, Joined
    <3>2. Out \o (<<data>> \o rest) = Append(Out, data) \o rest
      BY <1>2, <2>5, PutAtEnd, Zenon
    <3>3. QED
      BY <3>1, <3>2
  <2>7. Out' \o (Sending' \o rest') = Out \o (Sending \o rest)
    BY <2>2, <2>4, <2>5, <2>6
  <2>8. OnTheirWay' = OnTheirWay
    BY <2>7 DEF OnTheirWay, Line, rest
  <2>9. QED
    BY <1>3, <2>1, <2>8
<1>19. QED
  BY NextCases, <1>8, <1>9, <1>10, <1>11, <1>12, <1>13, <1>14, <1>15, <1>16, <1>17, <1>18

-----------------------------------------------------------------------------
LastNumber == IF sent = <<>> THEN 0 ELSE sent[Len(sent)].index
RestartIsDue == Cardinality(Restarts) < stops

\* The next packet goes on from the last one, or a stop is still to be accounted for.
NextNumber ==
    /\ sender = "read" => index = LastNumber \/ (index = 0 /\ RestartIsDue)
    /\ sender = "write" => counted = LastNumber \/ (counted = 0 /\ RestartIsDue)
    /\ sender \in {"dequeue", "send"} => index = LastNumber + 1 \/ (index \in {0, 1} /\ RestartIsDue)

NumbersInv == NumbersRestartAtStops /\ NextNumber

\* The stops of a recording can be counted.
LEMMA RestartsAreFinite ==
    ASSUME MicTyped
    PROVE  IsFiniteSet(Restarts) /\ Cardinality(Restarts) \in Nat
<1>1. Len(sent) \in Nat
  BY LenProperties DEF MicTyped
<1>2. IsFiniteSet(2..Len(sent))
  BY <1>1, FS_Interval
<1>3. Restarts \subseteq 2..Len(sent)
  BY DEF Restarts
<1>4. IsFiniteSet(Restarts)
  BY <1>2, <1>3, FS_Subset
<1>5. QED
  BY <1>4, FS_CardinalityType

\* Before the first recording no packet is numbered.
LEMMA NumbersInit ==
    ASSUME Init
    PROVE  NumbersInv
<1>1. sent = <<>> /\ index = 0 /\ sender = "read" /\ stops = 0
  BY DEF Init
<1>2. Restarts = {}
  BY <1>1 DEF Restarts
<1>3. Cardinality(Restarts) = 0
  BY <1>2, FS_EmptySet
<1>4. NumbersRestartAtStops
  BY <1>1, <1>2, <1>3 DEF NumbersRestartAtStops
<1>5. NextNumber
  <2>1. LastNumber = 0 /\ sender # "write" /\ sender \notin {"dequeue", "send"}
    BY <1>1 DEF LastNumber
  <2>2. QED
    BY <1>1, <2>1 DEF NextNumber
<1>6. QED
  BY <1>4, <1>5 DEF NumbersInv

\* A packet is a restart only if it does not go on from the last one.
LEMMA RestartsGrow ==
    ASSUME MicTyped, sent' = Append(sent, [index |-> index, buffer |-> data])
    PROVE  /\ LastNumber' = index
           /\ \A i \in Restarts : sent'[i] = sent[i]
           /\ sent'[Len(sent) + 1].index = index
           /\ Restarts' = IF sent = <<>> \/ index = LastNumber + 1 THEN Restarts ELSE Restarts \cup {Len(sent) + 1}
           /\ sent = <<>> => Restarts = {}
<1> DEFINE packet == [index |-> index, buffer |-> data]
           R == [index : Nat, buffer : Numbers]
           n == Len(sent)
<1>1. packet \in R /\ sent \in Seq(R) /\ packet.index = index
  BY DEF MicTyped
<1> HIDE DEF packet, R
<1>2. /\ sent' \in Seq(R) /\ Len(sent') = n + 1 /\ n \in Nat
      /\ \A i \in 1..n : sent'[i] = sent[i]
      /\ sent'[n + 1] = packet
  BY <1>1, AppendProperties, LenProperties DEF packet
<1>3. sent = <<>> <=> n = 0
  BY <1>1, EmptySeq
<1>4. sent' # <<>>
  BY <1>2, EmptySeq
<1> HIDE DEF n
<1>5. LastNumber' = index
  BY <1>1, <1>2, <1>4 DEF LastNumber
<1>6. /\ \A i : i \in Restarts <=> i \in 2..n /\ sent[i].index # sent[i - 1].index + 1
      /\ \A i : i \in Restarts' <=> i \in 2..(n + 1) /\ sent'[i].index # sent'[i - 1].index + 1
  BY <1>2 DEF Restarts, n
<1>7. \A i \in Restarts : sent'[i] = sent[i]
  BY <1>2, <1>6
<1>8. sent = <<>> => Restarts = {} /\ Restarts' = {}
  BY <1>3, <1>6
<1>9. ASSUME sent # <<>>
      PROVE  Restarts' = IF index = LastNumber + 1 THEN Restarts ELSE Restarts \cup {n + 1}
  <2>1. n \in Nat \ {0}
    BY <1>2, <1>3, <1>9
  <2>2. LastNumber = sent[n].index /\ sent'[n] = sent[n] /\ sent'[n + 1].index = index
    BY <1>1, <1>2, <1>9, <2>1 DEF LastNumber, n
  <2>3. n + 1 \in Restarts' <=> index # LastNumber + 1
    <3>1. n + 1 \in 2..(n + 1) /\ (n + 1) - 1 = n
      BY <2>1
    <3>2. n + 1 \in Restarts' <=> sent'[n + 1].index # sent'[n].index + 1
      BY <1>6, <3>1
    <3>3. QED
      BY <2>2, <3>2
  <2>4. \A i \in 2..n : sent'[i] = sent[i] /\ sent'[i - 1] = sent[i - 1]
    BY <1>2, <2>1
  <2>5. \A i \in 2..n : i \in Restarts' <=> i \in Restarts
    <3> TAKE i \in 2..n
    <3>1. i \in 2..(n + 1)
      BY <2>1
    <3>2. QED
      BY <1>6, <2>4, <3>1
  <2>6. Restarts \subseteq 2..n /\ Restarts' \subseteq (2..n) \cup {n + 1} /\ n + 1 \notin 2..n
    BY <1>6, <2>1
  <2>7. CASE index = LastNumber + 1
    <3>1. \A i : i \in Restarts' <=> i \in Restarts
      BY <2>3, <2>5, <2>6, <2>7
    <3>2. QED
      BY <2>7, <3>1
  <2>8. CASE index # LastNumber + 1
    <3>1. \A i : i \in Restarts' <=> i \in Restarts \cup {n + 1}
      BY <2>3, <2>5, <2>6, <2>8
    <3>2. Restarts' = Restarts \cup {n + 1}
      BY <3>1
    <3>3. QED
      BY <2>8, <3>2
  <2>9. QED
    BY <2>7, <2>8
<1>10. QED
  BY <1>1, <1>2, <1>5, <1>7, <1>8, <1>9 DEF n

\* Every step keeps packets numbered from the last stop on.
LEMMA NextNumbers ==
    ASSUME MicTyped, NumbersInv, Next
    PROVE  NumbersInv'
<1>1. /\ Cardinality(Restarts) \in Nat /\ IsFiniteSet(Restarts) /\ stops \in Nat /\ index \in Nat
      /\ counted \in Nat /\ Len(sent) \in Nat
  BY RestartsAreFinite, LenProperties DEF MicTyped
<1>2. /\ Cardinality(Restarts) <= stops /\ \A i \in Restarts : sent[i].index \in {0, 1}
      /\ NextNumber
  BY DEF NumbersInv, NumbersRestartAtStops
<1>3. ASSUME sent' = sent
      PROVE  Restarts' = Restarts /\ LastNumber' = LastNumber
  BY <1>3 DEF Restarts, LastNumber
<1>4. ASSUME sent' = sent, stops' \in Nat, stops' >= stops
      PROVE  NumbersRestartAtStops' /\ (RestartIsDue => RestartIsDue')
  BY <1>1, <1>2, <1>3, <1>4 DEF NumbersRestartAtStops, RestartIsDue
<1>5. CASE UNCHANGED <<stops, voice, index>>
  <2>1. UNCHANGED <<stops, index, sender, counted, sent>>
    BY <1>5 DEF voice
  <2>2. NumbersRestartAtStops' /\ LastNumber' = LastNumber /\ (RestartIsDue => RestartIsDue')
    BY <1>1, <1>3, <1>4, <2>1
  <2>3. QED
    BY <1>2, <2>1, <2>2 DEF NumbersInv, NextNumber
<1>6. CASE onMicStop
  <2>1. stops' = stops + 1 /\ index' = 0 /\ UNCHANGED <<sender, counted, sent>>
    BY <1>6 DEF onMicStop, voice
  <2>2. NumbersRestartAtStops' /\ LastNumber' = LastNumber
    BY <1>1, <1>3, <1>4, <2>1
  <2>3. RestartIsDue'
    BY <1>1, <1>2, <1>3, <2>1 DEF RestartIsDue
  <2>4. QED
    BY <1>2, <2>1, <2>2, <2>3 DEF NumbersInv, NextNumber
<1>7. CASE IndexRead
  <2>1. sender = "read" /\ sender' = "write" /\ counted' = index /\ UNCHANGED <<sent, stops, index>>
    BY <1>7 DEF IndexRead, SenderGoto, window
  <2>2. NumbersRestartAtStops' /\ LastNumber' = LastNumber /\ (RestartIsDue => RestartIsDue')
    BY <1>1, <1>3, <1>4, <2>1
  <2>3. QED
    BY <1>2, <2>1, <2>2 DEF NumbersInv, NextNumber
<1>8. CASE IndexWrite
  <2>1. sender = "write" /\ sender' = "dequeue" /\ index' = counted + 1 /\ UNCHANGED <<sent, stops>>
    BY <1>8 DEF IndexWrite, SenderGoto, window
  <2>2. NumbersRestartAtStops' /\ LastNumber' = LastNumber /\ (RestartIsDue => RestartIsDue')
    BY <1>1, <1>3, <1>4, <2>1
  <2>3. QED
    BY <1>2, <2>1, <2>2 DEF NumbersInv, NextNumber
<1>9. CASE VoiceDequeue
  <2>1. sender = "dequeue" /\ sender' = "send" /\ UNCHANGED <<sent, stops, index>>
    BY <1>9 DEF VoiceDequeue, SenderGoto, window
  <2>2. NumbersRestartAtStops' /\ LastNumber' = LastNumber /\ (RestartIsDue => RestartIsDue')
    BY <1>1, <1>3, <1>4, <2>1
  <2>3. QED
    BY <1>2, <2>1, <2>2 DEF NumbersInv, NextNumber
<1>10. CASE Send
  <2>1. /\ sender = "send" /\ sender' = "read" /\ sent' = Append(sent, [index |-> index, buffer |-> data])
        /\ UNCHANGED <<stops, index>>
    BY <1>10 DEF Send, SenderGoto, window
  <2>2. /\ LastNumber' = index
        /\ \A i \in Restarts : sent'[i] = sent[i]
        /\ sent'[Len(sent) + 1].index = index
        /\ Restarts' = IF sent = <<>> \/ index = LastNumber + 1 THEN Restarts ELSE Restarts \cup {Len(sent) + 1}
        /\ sent = <<>> => Restarts = {}
    BY <2>1, RestartsGrow
  <2>3. index = LastNumber + 1 \/ (index \in {0, 1} /\ RestartIsDue)
    BY <1>2, <2>1 DEF NextNumber
  <2>4. NumbersRestartAtStops'
    <3>1. CASE Restarts' = Restarts
      BY <1>2, <2>1, <2>2, <3>1 DEF NumbersRestartAtStops
    <3>2. CASE Restarts' # Restarts
      <4>1. Restarts' = Restarts \cup {Len(sent) + 1} /\ index \in {0, 1} /\ RestartIsDue
        BY <2>2, <2>3, <3>2
      <4>2. \/ Cardinality(Restarts \cup {Len(sent) + 1}) = Cardinality(Restarts)
            \/ Cardinality(Restarts \cup {Len(sent) + 1}) = Cardinality(Restarts) + 1
        BY <1>1, FS_AddElement, Zenon
      <4>3. Cardinality(Restarts') <= stops
        BY <1>1, <4>1, <4>2 DEF RestartIsDue
      <4>4. \A i \in Restarts' : sent'[i].index \in {0, 1}
        BY <1>2, <2>2, <4>1
      <4>5. QED
        BY <2>1, <4>3, <4>4 DEF NumbersRestartAtStops
    <3>3. QED
      BY <3>1, <3>2
  <2>5. NextNumber'
    <3>1. sender' # "write" /\ sender' \notin {"dequeue", "send"} /\ index' = LastNumber'
      BY <2>1, <2>2
    <3>2. QED
      BY <3>1 DEF NextNumber
  <2>6. QED
    BY <2>4, <2>5 DEF NumbersInv
<1>11. CASE startReading \/ stopReading \/ Reset \/ Close \/ Fill
  BY <1>5, <1>11 DEF startReading, stopReading, Reset, Close, Fill, window
<1>12. CASE DataCall \/ DataEnqueue \/ DataCheck \/ DataAdd \/ DataFree \/ CloseCall
  BY <1>5, <1>12 DEF DataCall, DataEnqueue, DataCheck, DataAdd, DataFree, CloseCall, window
<1>13. QED
  BY NextCases, <1>6, <1>7, <1>8, <1>9, <1>10, <1>11, <1>12

-----------------------------------------------------------------------------
\* The microphone as constructed is typed.
LEMMA MicTypedInit ==
    ASSUME Init
    PROVE  MicTyped
<1>1. recording \in BOOLEAN /\ requestingRecorderStop \in BOOLEAN /\ micRecording \in BOOLEAN
  <2>1. recording = FALSE /\ requestingRecorderStop = FALSE /\ micRecording = FALSE
    BY DEF Init
  <2>2. QED
    BY <2>1, Zenon
<1>2. <<>> \in Seq(Numbers) /\ <<>> \in Seq([index : Nat, buffer : Numbers])
  BY EmptySeq
<1>3. QED
  BY <1>1, <1>2 DEF Init, MicTyped, Numbers

\* Before the first recording the device is closed.
LEMMA DeviceInit ==
    ASSUME Init
    PROVE  DeviceInv
BY DEF Init, DeviceInv

\* The listener does not disturb the microphone: every step of the two is one of
\* the microphone and its threads, or leaves them as they are.
LEMMA VoiceIsAMicrophone == VoiceSpec => Spec
<1>1. VoiceInit => Init
  BY DEF VoiceInit
<1>2. [VoiceNext]_<<vars, listener>> => [Next]_vars
  BY DEF VoiceNext, Talk, Listen, MusicArrives
<1>3. QED
  BY <1>1, <1>2, PTL DEF VoiceSpec, Spec

\* With more than one buffer, the header the callback frees is the one that is
\* done, whenever the window stops the recording: no header is freed under the
\* driver, and none is left over (MicReader::waveInProc).
THEOREM HeadersAreTheDrivers ==
    ASSUME Buffers > 1
    PROVE  VoiceSpec => []HeadersMatchDriver
<1> DEFINE HInv == MicInv /\ HeadersMatchDriver
<1>1. Init => HInv
  BY MicTypedInit, DeviceInit, HeadersMatchInit DEF MicInv
<1>2. HInv /\ [Next]_vars => HInv'
  <2> SUFFICES ASSUME HInv, [Next]_vars
               PROVE  HInv'
    OBVIOUS
  <2>1. CASE Next
    BY <2>1, NextMicTyped, NextDeviceInv, NextHeadersMatch DEF MicInv
  <2>2. CASE UNCHANGED vars
    BY <2>2 DEF MicInv, MicTyped, DeviceInv, Unreported, HeadersMatchDriver, Held, InCallback,
       vars, window, driver, reader, report, voice
  <2>3. QED
    BY <2>1, <2>2
<1>3. HInv => HeadersMatchDriver
  OBVIOUS
<1>4. Spec => []HeadersMatchDriver
  BY <1>1, <1>2, <1>3, PTL DEF Spec
<1>5. QED
  BY <1>4, VoiceIsAMicrophone

\* However the recording is started and stopped, every buffer is sent once and in
\* the order of the recording, and the numbers of the packets restart at 0 or 1, at
\* most once for each stop (MicReader, ClientWindow::MicThread and onMicStop).
THEOREM VoiceIsSentInOrder == VoiceSpec => []VoiceIsInOrder
<1> DEFINE VInv == MicTyped /\ BuffersAreInOrder /\ NumbersInv
<1>1. Init => VInv
  BY MicTypedInit, OrderInit, NumbersInit
<1>2. VInv /\ [Next]_vars => VInv'
  <2> SUFFICES ASSUME VInv, [Next]_vars
               PROVE  VInv'
    OBVIOUS
  <2>1. CASE Next
    BY <2>1, NextMicTyped, NextOrder, NextNumbers
  <2>2. CASE UNCHANGED vars
    <3>1. UNCHANGED <<window, driver, reader, report, micMQueue, voice, index>>
      BY <2>2 DEF vars
    <3>2. MicTyped'
      BY <3>1 DEF MicTyped, window, driver, reader, report, voice
    <3>3. BuffersAreInOrder'
      BY <3>1 DEF BuffersAreInOrder, Held, driver, reader, report, voice
    <3>4. NumbersInv'
      BY <3>1 DEF NumbersInv, NumbersRestartAtStops, Restarts, NextNumber, LastNumber, RestartIsDue,
         window, voice
    <3>5. QED
      BY <3>2, <3>3, <3>4
  <2>3. QED
    BY <2>1, <2>2
<1>3. VInv => VoiceIsInOrder
  BY DEF VoiceIsInOrder, NumbersInv
<1>4. Spec => []VoiceIsInOrder
  BY <1>1, <1>2, <1>3, PTL DEF Spec
<1>5. QED
  BY <1>4, VoiceIsAMicrophone
=============================================================================
