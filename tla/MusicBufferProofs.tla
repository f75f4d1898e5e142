------------------------- MODULE MusicBufferProofs -------------------------
(***************************************************************************)
(* The music buffer for any size, any number of chunks and songs: the      *)
(* semaphore counts what was not read, and as long as readindex only moves *)
(* over what was read, every chunk is read whole and in order, around the  *)
(* end of the buffer.                                                      *)
(***************************************************************************)
EXTENDS MusicBuffer, TLAPS

\* The chunks that fit, and where each starts.
Slots  == Size \div ElementSize
Pos(n) == n * ElementSize

\* The sizes: the ring holds Slots whole elements and less than one more.
LEMMA Layout ==
    /\ ElementSize \in Nat \ {0} /\ Size \in Nat /\ Slots \in Nat \ {0}
    /\ Size = Pos(Slots) + ElementSize - 1
    /\ MaxUnread \in 1..Slots
<1>1. ElementSize \in Nat \ {0} /\ Size \in Nat /\ Size % ElementSize = ElementSize - 1 /\ Size > ElementSize
  BY SizeAssumption
<1>2. Slots \in Int /\ Size = ElementSize * Slots + (Size % ElementSize)
  BY <1>1 DEF Slots
<1>3. Slots > 0
  BY <1>1, <1>2
<1>4. QED
  BY <1>1, <1>2, <1>3, BoundAssumption DEF Pos, Slots

\* Where elements begin: Pos goes up by ElementSize, so that elements do not overlap.
LEMMA PosIs ==
    /\ Pos(0) = 0
    /\ \A n \in Nat : Pos(n) \in Nat /\ Pos(n + 1) = Pos(n) + ElementSize
    /\ \A m, n \in Nat : m < n => Pos(m) + ElementSize <= Pos(n)
<1>1. ElementSize \in Nat
  BY SizeAssumption
<1>2. \A m, n \in Nat : m < n => Pos(m) + ElementSize <= Pos(n)
  <2> SUFFICES ASSUME NEW m \in Nat, NEW n \in Nat, m < n
               PROVE  Pos(m) + ElementSize <= Pos(n)
    OBVIOUS
  <2>1. n - m - 1 \in Nat
    OBVIOUS
  <2>2. Pos(n) = Pos(m) + ElementSize + (n - m - 1) * ElementSize
    BY <1>1 DEF Pos
  <2>3. (n - m - 1) * ElementSize \in Nat
    BY <1>1, <2>1
  <2>4. Pos(m) \in Nat
    BY <1>1 DEF Pos
  <2>5. QED
    BY <1>1, <2>2, <2>3, <2>4
<1>3. QED
  BY <1>1, <1>2 DEF Pos
-----------------------------------------------------------------------------
Threads == {Window, Control}

Counted ==
    /\ canRead \in Nat /\ written \in Nat /\ reads \in Nat
    /\ bufferer \in {"write", "post"} /\ reader \in {"check", "token", "read", "enqueue"}
    /\ moved \in BOOLEAN
    /\ Unread <= MaxUnread
    /\ TokensMatchChunks

\* The slot of the buffer n slots after the first one, once around at most.
Slot(n) == IF n < Slots THEN n ELSE n - Slots

\* An index that is at slot n: behind the last slot it is at the first one, too.
AtSlot(index, n) == index = Pos(n) \/ (n = 0 /\ index = Pos(Slots))

Holds(n, k) == \A j \in 1..ElementSize : buffer[Pos(n) + j - 1] = Bytes(k)[j]

\* The writer is at a slot.  As long as readindex only moved over what was read,
\* the reader is too, and what it has not read lies in the slots from there up
\* to the writer.
OrderInv ==
    /\ DOMAIN buffer = 0..(Size - 1)
    /\ \E n \in 0..(Slots - 1) : AtSlot(writeindex, n)
    /\ ~moved => \E n \in 0..(Slots - 1) :
          /\ AtSlot(readindex, n)
          /\ AtSlot(writeindex, Slot(n + Unread))
          /\ \A d \in 0..(Unread - 1) : Holds(Slot(n + d), reads + 1 + d)
    /\ ChunksInOrder

\* What the two threads of the buffer work with, and who else touches it.
BufferUnchanged ==
    UNCHANGED <<buffer, writeindex, readindex, written, reads, moved, canRead, bufferer, reader, chunk>>

\* The steps by what they do to the ring: all others leave it alone.
LEMMA NextIs ==
    ASSUME [Next]_vars
    PROVE  \/ WriteBuf \/ WritePost \/ ReadCheck \/ ReadToken \/ ReadBuf \/ ReadEnqueue
           \/ \E c \in Threads : SeekTo(c) \/ newSong(c)
           \/ BufferUnchanged
<1> USE DEF buf, read, BufferUnchanged
<1>1. CASE UNCHANGED vars
  BY <1>1 DEF vars
<1>2. CASE Play
  BY <1>2 DEF Play, PlayStops, PlayMessage, PlayDequeue
<1>3. CASE onClickPlay \/ onClickStop \/ onSeek \/ onChangeStream
  BY <1>3 DEF onClickPlay, onClickStop, onSeek, onChangeStream
<1>4. ASSUME NEW c \in Threads, Stop(c) \/ Join(c) \/ Start(c) \/ Clear(c) \/ SeekLock(c) \/ SeekUnlock(c)
      PROVE  BufferUnchanged
  BY <1>4 DEF Stop, Join, Start, Clear, SeekLock, SeekUnlock
<1>5. QED
  BY <1>1, <1>2, <1>3, <1>4 DEF Next, Reader, Steps, Threads

\* The empty ring has no tokens.
LEMMA CountedInit ==
    ASSUME Init
    PROVE  Counted
<1>1. written = 0 /\ reads = 0 /\ canRead = 0 /\ bufferer = "write" /\ reader = "check" /\ moved = FALSE
  BY DEF Init
<1>2. moved \in BOOLEAN
  BY <1>1, Zenon
<1>3. QED
  BY <1>1, <1>2, BoundAssumption DEF Counted, Unread, TokensMatchChunks, Count

\* Every step keeps tokens and unread chunks equal.
LEMMA NextCounted ==
    ASSUME Counted, [Next]_vars
    PROVE  Counted'
<1> USE DEF Counted, TokensMatchChunks, Count, Unread, read
<1>1. CASE WriteBuf
  BY <1>1, Layout DEF WriteBuf
<1>2. CASE WritePost
  BY <1>2 DEF WritePost, buf
<1>3. CASE ReadCheck
  BY <1>3 DEF ReadCheck, buf
<1>4. CASE ReadToken
  BY <1>4 DEF ReadToken, buf
<1>5. CASE ReadBuf
  BY <1>5, Layout DEF ReadBuf
<1>6. CASE ReadEnqueue
  BY <1>6 DEF ReadEnqueue, buf
<1>7. CASE BufferUnchanged
  BY <1>7 DEF BufferUnchanged
<1>8. ASSUME NEW c \in Threads, SeekTo(c)
      PROVE  Counted'
  <2>1. moved' = TRUE
    BY <1>8 DEF SeekTo
  <2>2. moved' \in BOOLEAN
    BY <2>1, Zenon
  <2>3. QED
    BY <1>8, <2>2 DEF SeekTo
<1>9. ASSUME NEW c \in Threads, newSong(c)
      PROVE  Counted'
  <2>1. moved' = (moved \/ Unread # 0)
    BY <1>9 DEF newSong
  <2>2. moved' \in BOOLEAN
    BY <2>1
  <2>3. QED
    BY <1>9, <2>2 DEF newSong
<1>10. QED
  BY NextIs, <1>1, <1>2, <1>3, <1>4, <1>5, <1>6, <1>7, <1>8, <1>9

\* canRead counts the chunks nobody has read, wherever the threads are and
\* whatever seekBuf and newSong do to the indexes.
THEOREM TokensAreCounted == Spec => []TokensMatchChunks
<1>1. Counted => TokensMatchChunks
  BY DEF Counted
<1>2. QED
  BY <1>1, CountedInit, NextCounted, PTL DEF Spec

-----------------------------------------------------------------------------
\* In the empty ring nothing is unread.
LEMMA OrderInit ==
    ASSUME Init
    PROVE  OrderInv
<1>1. 0 \in 0..(Slots - 1) /\ Pos(0) = 0 /\ Slots > 0
  BY Layout, PosIs
<1>2. DOMAIN buffer = 0..(Size - 1) /\ writeindex = 0 /\ readindex = 0 /\ Unread = 0 /\ reader = "check"
  BY DEF Init, Unread
<1>3. AtSlot(writeindex, 0) /\ AtSlot(readindex, 0) /\ Slot(0 + Unread) = 0
  BY <1>1, <1>2 DEF AtSlot, Slot
<1>4. \A d \in 0..(Unread - 1) : Holds(Slot(0 + d), reads + 1 + d)
  BY <1>2
<1>5. QED
  BY <1>1, <1>2, <1>3, <1>4 DEF OrderInv, ChunksInOrder

\* Where an index that is at a slot goes with the next chunk, and where the
\* bytes of the chunk are: none is left before the wrap.
LEMMA Advance ==
    ASSUME NEW n \in 0..(Slots - 1), NEW index, AtSlot(index, n)
    PROVE  /\ index + ElementSize > Size => n = 0 /\ index = Pos(Slots) /\ BeforeWrap(index) = 0
           /\ index + ElementSize <= Size => index = Pos(n)
           /\ Pos(n) \in Nat /\ Pos(n) + ElementSize <= Size /\ Pos(n) + ElementSize = Pos(n + 1)
           /\ index \in Nat /\ Slot(n + 1) \in 0..(Slots - 1) /\ AtSlot(Pos(n) + ElementSize, Slot(n + 1))
<1>1. /\ ElementSize \in Nat \ {0} /\ Size \in Nat /\ Slots \in Nat \ {0}
      /\ Size = Pos(Slots) + ElementSize - 1 /\ n \in Nat /\ n < Slots
  BY Layout
<1>2. /\ Pos(n) \in Nat /\ Pos(Slots) \in Nat /\ Pos(n) + ElementSize <= Pos(Slots)
      /\ Pos(n + 1) = Pos(n) + ElementSize /\ Pos(0) = 0
  BY <1>1, PosIs
<1>3. CASE index = Pos(n)
  BY <1>1, <1>2, <1>3 DEF AtSlot, Slot, BeforeWrap
<1>4. CASE n = 0 /\ index = Pos(Slots)
  BY <1>1, <1>2, <1>4 DEF AtSlot, Slot, BeforeWrap
<1>5. QED
  BY <1>3, <1>4 DEF AtSlot

\* What writeBuf does to the ring: one element is replaced, the index goes behind it.
LEMMA WriteIs ==
    ASSUME WriteBuf, DOMAIN buffer = 0..(Size - 1), NEW m \in 0..(Slots - 1), AtSlot(writeindex, m)
    PROVE  /\ DOMAIN buffer' = 0..(Size - 1)
           /\ writeindex' = Pos(m) + ElementSize
           /\ \A i \in 0..(Size - 1) :
                 buffer'[i] = IF i \in Pos(m)..(Pos(m) + ElementSize - 1)
                              THEN Bytes(written + 1)[i - Pos(m) + 1] ELSE buffer[i]
<1> DEFINE data == Bytes(written + 1)
           w == BeforeWrap(writeindex)
<1>1. IF writeindex + ElementSize > Size
      THEN /\ buffer' = Copied(Copied(buffer, writeindex, data, w), 0, SubSeq(data, w + 1, ElementSize), ElementSize - w)
           /\ writeindex' = ElementSize - w
      ELSE /\ buffer' = Copied(buffer, writeindex, data, ElementSize)
           /\ writeindex' = writeindex + ElementSize
  BY DEF WriteBuf
<1>2. \A i \in 1..ElementSize : SubSeq(data, 1, ElementSize)[i] = data[i]
  BY Layout
<1> HIDE DEF data
<1>3. /\ ElementSize \in Nat /\ Size \in Nat /\ Pos(m) \in Nat /\ Pos(0) = 0
      /\ writeindex + ElementSize > Size => m = 0 /\ writeindex = Pos(Slots) /\ w = 0
      /\ writeindex + ElementSize <= Size => writeindex = Pos(m)
      /\ writeindex \in Nat
  <2>1. ElementSize \in Nat /\ Size \in Nat /\ Pos(0) = 0
    BY Layout, PosIs
  <2>2. QED
    BY <2>1, Advance
<1>4. CASE writeindex + ElementSize > Size
  <2>1. buffer' = Copied(Copied(buffer, writeindex, data, 0), 0, SubSeq(data, 1, ElementSize), ElementSize)
    BY <1>1, <1>3, <1>4
  <2>2. DOMAIN Copied(buffer, writeindex, data, 0) = 0..(Size - 1)
    BY DEF Copied
  <2>3. \A i \in 0..(Size - 1) : Copied(buffer, writeindex, data, 0)[i] = buffer[i]
    BY <1>3 DEF Copied
  <2>4. DOMAIN buffer' = 0..(Size - 1)
    BY <2>1, <2>2 DEF Copied
  <2>5. \A i \in 0..(Size - 1) :
           buffer'[i] = IF i \in 0..(0 + ElementSize - 1) THEN SubSeq(data, 1, ElementSize)[i - 0 + 1] ELSE buffer[i]
    BY <2>1, <2>2, <2>3 DEF Copied
  <2>6. writeindex' = Pos(m) + ElementSize /\ Pos(m) = 0
    BY <1>1, <1>3, <1>4
  <2>7. ASSUME NEW i \in 0..(Size - 1)
        PROVE  buffer'[i] = IF i \in Pos(m)..(Pos(m) + ElementSize - 1) THEN data[i - Pos(m) + 1] ELSE buffer[i]
    <3>1. CASE i \in 0..(ElementSize - 1)
      <4>1. i - 0 + 1 \in 1..ElementSize /\ i \in 0..(0 + ElementSize - 1) /\ i - Pos(m) + 1 = i - 0 + 1
        BY <1>3, <2>6, <3>1
      <4>2. i \in Pos(m)..(Pos(m) + ElementSize - 1)
        BY <1>3, <2>6, <3>1
      <4>3. QED
        BY <1>2, <2>5, <4>1, <4>2
    <3>2. CASE i \notin 0..(ElementSize - 1)
      BY <1>3, <2>5, <2>6, <3>2
    <3>3. QED
      BY <3>1, <3>2
  <2>8. QED
    BY <2>4, <2>6, <2>7 DEF data
<1>5. CASE writeindex + ElementSize <= Size
  <2>1. buffer' = Copied(buffer, Pos(m), data, ElementSize) /\ writeindex' = Pos(m) + ElementSize
    BY <1>1, <1>3, <1>5
  <2>2. QED
    BY <1>3, <2>1 DEF Copied, data
<1>6. QED
  BY <1>3, <1>4, <1>5

\* After writeBuf the element written holds the new chunk, and every other one what it held.
LEMMA WriteHolds ==
    ASSUME WriteBuf, DOMAIN buffer = 0..(Size - 1), NEW m \in 0..(Slots - 1), AtSlot(writeindex, m),
           NEW n \in 0..(Slots - 1), NEW k
    PROVE  /\ n = m /\ k = written + 1 => Holds(n, k)'
           /\ n # m /\ Holds(n, k) => Holds(n, k)'
<1>1. /\ ElementSize \in Nat /\ Size \in Nat /\ Pos(m) \in Nat /\ Pos(n) \in Nat
      /\ Pos(n) + ElementSize <= Size
      /\ n # m => Pos(m) + ElementSize <= Pos(n) \/ Pos(n) + ElementSize <= Pos(m)
  <2>1. n \in Nat /\ m \in Nat /\ Slots \in Nat /\ n < Slots /\ Size = Pos(Slots) + ElementSize - 1
        /\ ElementSize \in Nat \ {0} /\ Size \in Nat
    BY Layout
  <2>2. n # m => n < m \/ m < n
    BY <2>1
  <2>3. Pos(m) \in Nat /\ Pos(n) \in Nat /\ Pos(Slots) \in Nat /\ Pos(n) + ElementSize <= Pos(Slots)
    BY <2>1, PosIs
  <2>4. n < m => Pos(n) + ElementSize <= Pos(m)
    BY <2>1, PosIs
  <2>5. m < n => Pos(m) + ElementSize <= Pos(n)
    BY <2>1, PosIs
  <2>6. QED
    BY <2>1, <2>2, <2>3, <2>4, <2>5
<1>2. \A i \in 0..(Size - 1) :
         buffer'[i] = IF i \in Pos(m)..(Pos(m) + ElementSize - 1)
                      THEN Bytes(written + 1)[i - Pos(m) + 1] ELSE buffer[i]
  BY WriteIs
<1>3. \A j \in 1..ElementSize : Pos(n) + j - 1 \in 0..(Size - 1)
  BY <1>1
<1>4. ASSUME n = m, k = written + 1, NEW j \in 1..ElementSize
      PROVE  buffer'[Pos(n) + j - 1] = Bytes(k)[j]
  <2>1. Pos(n) + j - 1 \in Pos(m)..(Pos(m) + ElementSize - 1) /\ (Pos(n) + j - 1) - Pos(m) + 1 = j
    BY <1>1, <1>4
  <2>2. QED
    BY <1>2, <1>3, <1>4, <2>1
<1>5. ASSUME n # m, Holds(n, k), NEW j \in 1..ElementSize
      PROVE  buffer'[Pos(n) + j - 1] = Bytes(k)[j]
  <2>1. Pos(n) + j - 1 \notin Pos(m)..(Pos(m) + ElementSize - 1)
    BY <1>1, <1>5
  <2>2. QED
    BY <1>2, <1>3, <1>5, <2>1 DEF Holds
<1>6. QED
  BY <1>4, <1>5 DEF Holds

\* What readBuf takes out: the chunk the element holds.
LEMMA ReadIs ==
    ASSUME ReadBuf, DOMAIN buffer = 0..(Size - 1), NEW n \in 0..(Slots - 1), AtSlot(readindex, n)
    PROVE  /\ readindex' = Pos(n) + ElementSize
           /\ \A k : Holds(n, k) => chunk' = Bytes(k)
<1> DEFINE r == BeforeWrap(readindex)
<1>1. IF readindex + ElementSize > Size
      THEN /\ chunk' = [i \in 1..ElementSize |-> At(IF i <= r THEN readindex + i - 1 ELSE i - r - 1)]
           /\ readindex' = ElementSize - r
      ELSE /\ chunk' = [i \in 1..ElementSize |-> At(readindex + i - 1)]
           /\ readindex' = readindex + ElementSize
  BY DEF ReadBuf
<1>2. /\ ElementSize \in Nat /\ Size \in Nat /\ Pos(n) \in Nat /\ Pos(0) = 0 /\ readindex \in Nat
      /\ Pos(n) + ElementSize <= Size
      /\ readindex + ElementSize > Size => n = 0 /\ r = 0
      /\ readindex + ElementSize <= Size => readindex = Pos(n)
  <2>1. ElementSize \in Nat /\ Size \in Nat /\ Pos(0) = 0
    BY Layout, PosIs
  <2>2. QED
    BY <2>1, Advance
<1> HIDE DEF r
<1>3. readindex' = Pos(n) + ElementSize
  BY <1>1, <1>2
<1>4. chunk' = [i \in 1..ElementSize |-> buffer[Pos(n) + i - 1]]
  <2>1. \A i \in 1..ElementSize : Pos(n) + i - 1 \in 0..(Size - 1)
    BY <1>2
  <2>2. \A i \in 1..ElementSize : At(Pos(n) + i - 1) = buffer[Pos(n) + i - 1]
    BY <2>1 DEF At
  <2>3. CASE readindex + ElementSize > Size
    <3>1. \A i \in 1..ElementSize : (IF i <= r THEN readindex + i - 1 ELSE i - r - 1) = Pos(n) + i - 1
      BY <1>2, <2>3
    <3>2. chunk' = [i \in 1..ElementSize |-> At(IF i <= r THEN readindex + i - 1 ELSE i - r - 1)]
      BY <1>1, <2>3
    <3>3. QED
      BY <2>2, <3>1, <3>2
  <2>4. CASE readindex + ElementSize <= Size
    <3>1. chunk' = [i \in 1..ElementSize |-> At(Pos(n) + i - 1)]
      BY <1>1, <1>2, <2>4
    <3>2. QED
      BY <2>2, <3>1
  <2>5. QED
    BY <1>2, <2>3, <2>4
<1>5. ASSUME NEW k, Holds(n, k) PROVE chunk' = Bytes(k)
  <2>1. \A i \in 1..ElementSize : buffer[Pos(n) + i - 1] = Bytes(k)[i]
    BY <1>5 DEF Holds
  <2>2. Bytes(k) = [i \in 1..ElementSize |-> Bytes(k)[i]]
    BY DEF Bytes
  <2>3. QED
    BY <1>4, <2>1, <2>2
<1>6. QED
  BY <1>3, <1>5

\* Every step keeps the unread chunks in the ring, one behind the other.
LEMMA NextOrder ==
    ASSUME Counted, OrderInv, [Next]_vars
    PROVE  OrderInv'
<1> DEFINE Unreads(n) ==
             /\ AtSlot(readindex, n)
             /\ AtSlot(writeindex, Slot(n + Unread))
             /\ \A d \in 0..(Unread - 1) : Holds(Slot(n + d), reads + 1 + d)
<1>1. /\ Unread \in 0..Slots /\ Slots \in Nat \ {0} /\ written = reads + Unread /\ reads \in Nat /\ written \in Nat
      /\ DOMAIN buffer = 0..(Size - 1) /\ moved \in BOOLEAN /\ Unread <= MaxUnread /\ MaxUnread \in 1..Slots
  BY Layout DEF Counted, Unread, OrderInv, TokensMatchChunks, Count
<1>2. PICK m \in 0..(Slots - 1) : AtSlot(writeindex, m)
  BY DEF OrderInv
<1>3. CASE WriteBuf
  <2>1. /\ DOMAIN buffer' = 0..(Size - 1)
        /\ \A q \in 0..(Slots - 1) : AtSlot(writeindex, q) => AtSlot(writeindex', Slot(q + 1))
    <3>1. DOMAIN buffer' = 0..(Size - 1)
      BY <1>1, <1>2, <1>3, WriteIs
    <3>2. ASSUME NEW q \in 0..(Slots - 1), AtSlot(writeindex, q) PROVE AtSlot(writeindex', Slot(q + 1))
      <4>1. writeindex' = Pos(q) + ElementSize
        BY <1>1, <1>3, <3>2, WriteIs
      <4>2. QED
        BY <3>2, <4>1, Advance
    <3>3. QED
      BY <3>1, <3>2
  <2>2. \E n \in 0..(Slots - 1) : AtSlot(writeindex', n)
    BY <1>2, <2>1, Advance
  <2>3. Unread' = Unread + 1 /\ Unread < MaxUnread /\ UNCHANGED <<reads, moved, reader, chunk, readindex>>
    BY <1>1, <1>3 DEF WriteBuf, Unread, read
  <2>4. ASSUME ~moved PROVE \E n \in 0..(Slots - 1) : Unreads(n)'
    <3>1. PICK n \in 0..(Slots - 1) : Unreads(n)
      BY <2>4 DEF OrderInv
    <3>2. /\ Slot(n + Unread) \in 0..(Slots - 1) /\ Slot(Slot(n + Unread) + 1) = Slot(n + (Unread + 1))
          /\ \A d \in 0..(Unread - 1) : Slot(n + d) \in 0..(Slots - 1) /\ Slot(n + d) # Slot(n + Unread)
      BY <1>1, <2>3 DEF Slot
    <3>3. AtSlot(writeindex', Slot(n + Unread'))
      BY <2>1, <2>3, <3>1, <3>2
    <3>4. ASSUME NEW d \in 0..Unread, NEW k, k = reads + 1 + d PROVE Holds(Slot(n + d), k)'
      <4>1. CASE d = Unread
        <5>1. k = written + 1
          BY <1>1, <3>4, <4>1
        <5> DEFINE q == Slot(n + Unread)
        <5>2. PICK x \in 0..(Slots - 1) : x = q /\ AtSlot(writeindex, x)
          BY <3>1, <3>2
        <5>3. Holds(x, k)'
          BY <1>1, <1>3, <5>1, <5>2, WriteHolds
        <5>4. x = Slot(n + d)
          BY <4>1, <5>2
        <5>5. QED
          BY <5>3, <5>4
      <4>2. CASE d # Unread
        <5>1. d \in 0..(Unread - 1)
          BY <1>1, <4>2
        <5>2. PICK y \in 0..(Slots - 1) : y = Slot(n + d)
          BY <3>2, <5>1
        <5>3. PICK x \in 0..(Slots - 1) : x = Slot(n + Unread) /\ AtSlot(writeindex, x)
          BY <3>1, <3>2
        <5>4. Holds(y, k) /\ y # x
          BY <3>1, <3>2, <3>4, <5>1, <5>2, <5>3
        <5>5. Holds(y, k)'
          BY <1>1, <1>3, <5>3, <5>4, WriteHolds
        <5>6. QED
          BY <5>2, <5>5
      <4>3. QED
        BY <4>1, <4>2
    <3>5. \A d \in 0..(Unread' - 1) : Holds(Slot(n + d), reads + 1 + d)'
      <4> SUFFICES ASSUME NEW d \in 0..(Unread' - 1) PROVE Holds(Slot(n + d), reads + 1 + d)'
        OBVIOUS
      <4>1. d \in 0..Unread
        BY <1>1, <2>3
      <4>2. PICK k : k = reads + 1 + d
        OBVIOUS
      <4>3. Holds(Slot(n + d), k)' /\ k = reads' + 1 + d
        BY <2>3, <3>4, <4>1, <4>2
      <4>4. QED
        BY <4>3
    <3>6. AtSlot(readindex', n)
      BY <2>3, <3>1
    <3>7. Unreads(n)'
      BY <3>3, <3>5, <3>6
    <3>8. QED
      BY <3>7
  <2>5. ChunksInOrder'
    BY <2>3 DEF OrderInv, ChunksInOrder
  <2>6. QED
    BY <2>1, <2>2, <2>3, <2>4, <2>5 DEF OrderInv
<1>4. CASE ReadBuf
  <2>1. /\ UNCHANGED <<buffer, writeindex, written, moved>> /\ reads' = reads + 1 /\ Unread' = Unread - 1 /\ Unread > 0
    BY <1>1, <1>4 DEF ReadBuf, Unread, Counted, TokensMatchChunks, Count
  <2>2. ASSUME ~moved
        PROVE  chunk' = Bytes(reads + 1) /\ \E n \in 0..(Slots - 1) : Unreads(n)'
    <3>1. PICK n \in 0..(Slots - 1) : Unreads(n)
      BY <2>2 DEF OrderInv
    <3>2. Slot(n + 0) = n /\ 0 \in 0..(Unread - 1) /\ reads + 1 + 0 = reads + 1
      BY <1>1, <2>1 DEF Slot
    <3>3. Holds(n, reads + 1)
      BY <3>1, <3>2
    <3>4. chunk' = Bytes(reads + 1) /\ readindex' = Pos(n) + ElementSize
      BY <1>1, <1>4, <3>1, <3>3, ReadIs
    <3>5. PICK q \in 0..(Slots - 1) : q = Slot(n + 1) /\ AtSlot(readindex', q)
      BY <3>1, <3>4, Advance
    <3>6. Slot(q + (Unread - 1)) = Slot(n + Unread) /\ \A d \in 0..(Unread - 2) : Slot(q + d) = Slot(n + (d + 1))
      BY <1>1, <2>1, <3>5 DEF Slot
    <3>7. AtSlot(writeindex', Slot(q + Unread'))
      BY <2>1, <3>1, <3>6
    <3>8. \A d \in 0..(Unread' - 1) : Holds(Slot(q + d), reads + 1 + d)'
      <4> SUFFICES ASSUME NEW d \in 0..(Unread' - 1) PROVE Holds(Slot(q + d), reads + 1 + d)'
        OBVIOUS
      <4>1. d \in 0..(Unread - 2) /\ d + 1 \in 0..(Unread - 1) /\ reads' + 1 + d = reads + 1 + (d + 1)
        BY <1>1, <2>1
      <4>2. Holds(Slot(q + d), reads + 1 + (d + 1))
        BY <3>1, <3>6, <4>1
      <4>3. PICK k : k = reads + 1 + (d + 1)
        OBVIOUS
      <4>4. Holds(Slot(q + d), k)'
        BY <2>1, <4>2, <4>3 DEF Holds
      <4>5. QED
        BY <4>1, <4>3, <4>4
    <3>9. Unreads(q)'
      BY <3>5, <3>7, <3>8
    <3>10. QED
      BY <3>4, <3>9
  <2>3. ChunksInOrder'
    BY <2>1, <2>2 DEF ChunksInOrder
  <2>4. \E n \in 0..(Slots - 1) : AtSlot(writeindex', n)
    BY <1>2, <2>1
  <2>5. QED
    BY <1>1, <2>1, <2>2, <2>3, <2>4 DEF OrderInv
<1>5. ASSUME UNCHANGED <<buffer, writeindex, readindex, written, reads, moved>>,
             reader' = "enqueue" => reader = "enqueue" /\ chunk' = chunk
      PROVE  OrderInv'
  <2>1. Unread' = Unread
    BY <1>5 DEF Unread
  <2>2. ChunksInOrder'
    BY <1>5 DEF ChunksInOrder, OrderInv
  <2>3. ASSUME ~moved PROVE \E n \in 0..(Slots - 1) : Unreads(n)'
    <3>1. PICK n \in 0..(Slots - 1) : Unreads(n)
      BY <2>3 DEF OrderInv
    <3>2. Unreads(n)'
      BY <1>5, <2>1, <3>1 DEF Holds
    <3>3. QED
      BY <3>2
  <2>4. QED
    BY <1>1, <1>2, <1>5, <2>2, <2>3 DEF OrderInv
<1>6. CASE WritePost \/ ReadCheck \/ ReadToken \/ ReadEnqueue \/ BufferUnchanged
  BY <1>5, <1>6 DEF WritePost, ReadCheck, ReadToken, ReadEnqueue, BufferUnchanged, buf, read
<1>7. ASSUME NEW c \in Threads, SeekTo(c)
      PROVE  OrderInv'
  <2>1. UNCHANGED <<buffer, writeindex>> /\ moved' = TRUE
    BY <1>7 DEF SeekTo
  <2>2. QED
    BY <1>1, <1>2, <2>1 DEF OrderInv, ChunksInOrder
<1>8. ASSUME NEW c \in Threads, newSong(c)
      PROVE  OrderInv'
  <2>1. /\ UNCHANGED <<buffer, writeindex, written, reads, reader, chunk>> /\ readindex' = writeindex
        /\ moved' = (moved \/ Unread # 0)
    BY <1>8 DEF newSong, read
  <2>2. Unread' = Unread
    BY <2>1 DEF Unread
  <2>3. ASSUME ~moved' PROVE \E n \in 0..(Slots - 1) : Unreads(n)'
    <3>1. Unread = 0
      BY <2>1, <2>3
    <3>2. Slot(m + Unread') = m
      BY <1>1, <2>2, <3>1 DEF Slot
    <3>3. Unreads(m)'
      BY <1>2, <2>1, <2>2, <3>1, <3>2
    <3>4. QED
      BY <3>3
  <2>4. ChunksInOrder'
    BY <2>1 DEF ChunksInOrder, OrderInv
  <2>5. QED
    BY <1>1, <1>2, <2>1, <2>3, <2>4 DEF OrderInv
<1>9. QED
  BY NextIs, <1>3, <1>4, <1>6, <1>7, <1>8

\* readBuf gives every chunk writeBuf was given, whole, once and in order, also
\* when both wrap around the end of the buffer, and across a new song that starts
\* when everything was read.
THEOREM ChunksAreInOrder == Spec => []ChunksInOrder
<1>1. Init => Counted /\ OrderInv
  BY CountedInit, OrderInit
<1>2. Counted /\ OrderInv /\ [Next]_vars => Counted' /\ OrderInv'
  BY NextCounted, NextOrder
<1>3. OrderInv => ChunksInOrder
  BY DEF OrderInv
<1>4. QED
  BY <1>1, <1>2, <1>3, PTL DEF Spec
=============================================================================
