-------------------------- MODULE ClientWindowProofs --------------------------
(***************************************************************************)
(* The window of the client: panels of any size lie in it, a click on its  *)
(* list is on what is seen, and the tracker that the user holds is the     *)
(* user's.                                                                 *)
(*                                                                         *)
(* And what its save buttons get: for any number of clients, songs,        *)
(* packets and clicks, what a client has of a song is the beginning of it, *)
(* and what was closed without being cancelled is all of it.               *)
(***************************************************************************)
EXTENDS ClientWindow, FileTransfer, SequenceTheorems, TLAPS

-----------------------------------------------------------------------------
(***************************************************************************)
(* The least and the greatest of what is few.                              *)
(***************************************************************************)
\* The least of a set of integers that has one, and the greatest.
LEMMA MinIs ==
    ASSUME NEW S, NEW m \in S, S \subseteq Int, \A k \in S : m <= k PROVE Min(S) = m
<1>1. PICK x \in S : x = Min(S) /\ \A k \in S : x <= k
  BY DEF Min
<1>2. QED
  BY <1>1

\* The greatest of one.
LEMMA MaxOfOne == ASSUME NEW m \in Int PROVE Max({m}) = m
BY DEF Max

-----------------------------------------------------------------------------
(***************************************************************************)
(* The tracker.  A call of another thread is the user's to expect: it has  *)
(* begun before the user moved the tracker, or it changes nothing.         *)
(***************************************************************************)
TrackerTyped ==
    /\ buffered \in Positions /\ played \in Positions
    /\ mouseDown \in BOOLEAN
    /\ mutexx \in {"nobody", "window", "bufferer", "reader"}
    /\ at \in [window : {"idle", "press", "drag", "hold", "release", "seek", "stop"},
              bufferer : {"idle", "aim", "track"}, reader : {"idle", "track"}]
    /\ percent \in [window : Int, bufferer : Nat, reader : Nat]
    /\ at.window \in {"press", "drag"} => percent.window \in Nat

\* One thread at a time is in the functions of MusicBuffer.
OneMoves ==
    /\ at.bufferer # "idle" => mutexx = "bufferer"
    /\ at.reader # "idle" => mutexx = "reader"
    /\ at.window = "stop" => mutexx = "window"

CallsAreOld ==
    /\ at.bufferer = "track" /\ "bufferer" \notin underway => percent.bufferer = played
    /\ at.reader = "track" /\ "reader" \notin underway => ~mouseDown

TrackerInv == TrackerTyped /\ OneMoves /\ CallsAreOld

\* A step of the bufferer: what it has read is what it writes, unless the user came in between.
LEMMA BuffererKeeps == TrackerInv /\ Bufferer => TrackerInv'
<1> SUFFICES ASSUME TrackerInv, Bufferer PROVE TrackerInv'
  OBVIOUS
<1> USE TrackerAssumption DEF TrackerInv, TrackerTyped, OneMoves, CallsAreOld, Positions, position, screen, calls
<1>1. CASE WriteBuffered
  BY <1>1 DEF WriteBuffered, Turn, Lock
<1>2. CASE WriteAim
  BY <1>2 DEF WriteAim, Turn
<1>3. CASE WriteTrack
  BY <1>3 DEF WriteTrack, Turn, Unlock, Track, Cut
<1>4. QED
  BY <1>1, <1>2, <1>3 DEF Bufferer

\* A step of the reader: it has found the mouse up, unless the user came in between.
LEMMA ReaderKeeps == TrackerInv /\ Reader => TrackerInv'
<1> SUFFICES ASSUME TrackerInv, Reader PROVE TrackerInv'
  OBVIOUS
<1> USE TrackerAssumption DEF TrackerInv, TrackerTyped, OneMoves, CallsAreOld, Positions, position, screen, calls
<1>1. ASSUME NEW p \in 0..(Full + 1), ReadCheck(p) PROVE TrackerInv'
  BY <1>1 DEF ReadCheck, Turn, Lock
<1>2. CASE ReadTrack
  BY <1>2 DEF ReadTrack, Turn, Unlock, Track, Cut
<1>3. QED
  BY <1>1, <1>2 DEF Reader

\* A step of the window: calls that have begun are underway from then on.
LEMMA MouseKeeps == TrackerInv /\ (TrackerMessage \/ TrackerStep \/ onSeek) => TrackerInv'
<1> SUFFICES ASSUME TrackerInv, TrackerMessage \/ TrackerStep \/ onSeek PROVE TrackerInv'
  OBVIOUS
<1> USE TrackerAssumption DEF TrackerInv, TrackerTyped, OneMoves, CallsAreOld, Positions, position, screen, calls
<1>1. ASSUME NEW p \in Positions, PressTracker(p) \/ DragTracker(p) PROVE TrackerInv'
  BY <1>1 DEF PressTracker, DragTracker, Turn
<1>2. CASE ReleaseTracker
  BY <1>2 DEF ReleaseTracker, Turn
<1>3. CASE WindowTrack
  BY <1>3 DEF WindowTrack, Turn, Begun
<1>4. CASE WindowHold
  BY <1>4 DEF WindowHold, Turn, Begun
<1>5. CASE SendSeek
  <2>1. (played * Steps) \div Full \in Int
    BY <1>5
  <2> HIDE TrackerAssumption
  <2>2. QED
    BY <1>5, <2>1 DEF SendSeek, Turn
<1>6. CASE onSeek
  BY <1>6 DEF onSeek, Turn, Lock
<1>7. CASE SeekDone
  BY <1>7 DEF SeekDone, Turn, Unlock
<1>8. QED
  BY <1>1, <1>2, <1>3, <1>4, <1>5, <1>6, <1>7 DEF TrackerMessage, TrackerStep

\* All that the tracker does.
LEMMA TrackerKeeps == TrackerInv /\ [TrackerNext]_trackerVars => TrackerInv'
<1> SUFFICES ASSUME TrackerInv, [TrackerNext]_trackerVars PROVE TrackerInv'
  OBVIOUS
<1>1. CASE PaintTracker \/ drawAgain
  BY <1>1 DEF PaintTracker, drawAgain, TrackerInv, TrackerTyped, OneMoves, CallsAreOld, position, calls
<1>2. CASE UNCHANGED trackerVars
  BY <1>2 DEF trackerVars, TrackerInv, TrackerTyped, OneMoves, CallsAreOld, position, calls
<1>3. QED
  BY <1>1, <1>2, BuffererKeeps, ReaderKeeps, MouseKeeps DEF TrackerNext

\* Who moves a tracker that is held: the user, or a call that gets it back to what is
\* buffered, or one that had begun and is underway no more.
LEMMA HeldIsTheUsers ==
    ASSUME TrackerInv, [TrackerNext]_trackerVars, mouseDown, played' # played
    PROVE  \/ at.window \in {"press", "drag"}
           \/ played > buffered /\ played' = buffered
           \/ underway' # underway
<1> USE DEF TrackerInv, TrackerTyped, Positions, position, screen
<1>1. CASE WriteTrack
  <2>1. at.bufferer = "track" /\ played' = Cut(percent.bufferer) /\ underway' = underway \ {"bufferer"}
    BY <1>1 DEF WriteTrack, Turn, Track
  <2>2. CASE "bufferer" \in underway
    BY <2>1, <2>2
  <2>3. CASE "bufferer" \notin underway
    BY <2>1, <2>3, TrackerAssumption DEF CallsAreOld, Cut
  <2>4. QED
    BY <2>2, <2>3
<1>2. CASE ReadTrack
  BY <1>2 DEF ReadTrack, Turn, Track, CallsAreOld
<1>3. CASE WindowTrack
  BY <1>3 DEF WindowTrack, Turn
<1>4. QED
  BY <1>1, <1>2, <1>3 DEF TrackerNext, trackerVars, Bufferer, Reader, TrackerMessage, TrackerStep, WriteBuffered, WriteAim,
     ReadCheck, PressTracker, DragTracker, WindowHold, ReleaseTracker, SendSeek, onSeek, SeekDone, PaintTracker, drawAgain

\* While the user holds the tracker it moves only with the mouse, or back to what is
\* buffered, but for a call that had begun: for a panel of any width, in every order of
\* the steps of the three threads.
THEOREM TheTrackerIsTheUsers == WindowSpec => HeldTrackerIsTheUsers
<1>1. WindowInit => TrackerInv
  <2> SUFFICES ASSUME TrackerInit PROVE TrackerInv
    BY DEF WindowInit
  <2>1. StartBuffered \in 0..Full /\ StartPlayed \in 0..Full /\ Full \in Nat
    BY TrackerAssumption
  <2>2. mouseDown \in BOOLEAN /\ ~mouseDown
    BY Zenon DEF TrackerInit
  <2>3. /\ buffered = StartBuffered /\ played = StartPlayed /\ mutexx = "nobody"
        /\ at = [window |-> "idle", bufferer |-> "idle", reader |-> "idle"]
        /\ percent = [window |-> 0, bufferer |-> 0, reader |-> 0]
    BY Zenon DEF TrackerInit
  <2>4. QED
    BY <2>1, <2>2, <2>3 DEF TrackerInv, TrackerTyped, OneMoves, CallsAreOld, Positions
<1>2. [WindowNext]_windowVars => [TrackerNext]_trackerVars
  BY DEF WindowNext, windowVars
<1>3. TrackerInv /\ [TrackerNext]_trackerVars
        => [mouseDown /\ played' # played =>
              \/ at.window \in {"press", "drag"}
              \/ played > buffered /\ played' = buffered
              \/ underway' # underway]_trackerVars
  BY HeldIsTheUsers
<1>4. QED
  BY <1>1, <1>2, <1>3, TrackerKeeps, PTL DEF WindowSpec, HeldTrackerIsTheUsers

\* The sums of up to five sizes, one after the other: all that rows and columns need.
LEMMA SumIs ==
    ASSUME NEW n \in 0..5, NEW s, \A i \in 1..n : s[i] \in Int
    PROVE  /\ SumTo(s, 0) = 0
           /\ \A i \in 1..n : SumTo(s, i) = SumTo(s, i - 1) + s[i] /\ SumTo(s, i) \in Int
<1> DEFINE w == [i \in 0..5 |-> CASE i = 0 -> 0
                                  [] i = 1 -> 0 + s[1]
                                  [] i = 2 -> 0 + s[1] + s[2]
                                  [] i = 3 -> 0 + s[1] + s[2] + s[3]
                                  [] i = 4 -> 0 + s[1] + s[2] + s[3] + s[4]
                                  [] i = 5 -> 0 + s[1] + s[2] + s[3] + s[4] + s[5]]
           Solves(f, k) == f = [i \in 0..k |-> IF i = 0 THEN 0 ELSE f[i - 1] + s[i]]
           part(k) == [i \in 0..k |-> w[i]]
<1>1. /\ w[0] = 0 /\ w[1] = w[0] + s[1] /\ w[2] = w[1] + s[2]
      /\ w[3] = w[2] + s[3] /\ w[4] = w[3] + s[4] /\ w[5] = w[4] + s[5]
  OBVIOUS
<1> HIDE DEF w
<1>2. w[0] = 0 /\ \A i \in 1..5 : w[i] = w[i - 1] + s[i]
  <2>1. \A i \in 1..5 : i = 1 \/ i = 2 \/ i = 3 \/ i = 4 \/ i = 5
    OBVIOUS
  <2>2. 1 - 1 = 0 /\ 2 - 1 = 1 /\ 3 - 1 = 2 /\ 4 - 1 = 3 /\ 5 - 1 = 4
    OBVIOUS
  <2>3. QED
    BY <1>1, <2>1, <2>2, Zenon
<1>3. ASSUME NEW k \in 0..n PROVE SumTo(s, k) = w[k]
  <2>1. \A f : Solves(f, k) <=> DOMAIN f = 0..k /\ f = [i \in DOMAIN f |-> f[i]]
                                 /\ (\A i \in 0..k : f[i] = IF i = 0 THEN 0 ELSE f[i - 1] + s[i])
    OBVIOUS
  <2>2. Solves(part(k), k)
    <3>1. DOMAIN part(k) = 0..k /\ \A i \in 0..k : part(k)[i] = w[i]
      OBVIOUS
    <3>2. \A i \in 0..k : i # 0 => i \in 1..5 /\ i - 1 \in 0..k
      OBVIOUS
    <3>3. part(k) = [i \in DOMAIN part(k) |-> part(k)[i]]
      OBVIOUS
    <3> HIDE DEF part, Solves
    <3>4. \A i \in 0..k : part(k)[i] = IF i = 0 THEN 0 ELSE part(k)[i - 1] + s[i]
      BY <1>2, <3>1, <3>2
    <3>5. QED
      BY <2>1, <3>1, <3>3, <3>4, Zenon
  <2>3. PICK f : Solves(f, k) /\ SumTo(s, k) = f[k]
    BY <2>2 DEF SumTo
  <2>4. f[0] = w[0]
    BY <1>2, <2>1, <2>3
  <2>5. ASSUME NEW i \in 1..5, i <= k, f[i - 1] = w[i - 1] PROVE f[i] = w[i]
    <3>1. i \in 0..k /\ i # 0
      BY <2>5
    <3>2. f[i] = f[i - 1] + s[i]
      BY <2>1, <2>3, <3>1, Zenon
    <3>3. QED
      BY <1>2, <2>5, <3>2
  <2> HIDE DEF Solves
  <2>6. /\ 1 <= k => f[1] = w[1]
        /\ 2 <= k => f[2] = w[2]
        /\ 3 <= k => f[3] = w[3]
        /\ 4 <= k => f[4] = w[4]
        /\ 5 <= k => f[5] = w[5]
    BY <2>4, <2>5
  <2>7. QED
    BY <2>3, <2>4, <2>6
<1>4. /\ w[0] \in Int
      /\ \A i \in 1..n : w[i - 1] \in Int => w[i] \in Int
  BY <1>2
<1>5. \A i \in 1..n : w[i] \in Int
  BY <1>4
<1>6. QED
  <2>1. 0 \in 0..n /\ \A i \in 1..n : i \in 0..n /\ i - 1 \in 0..n /\ i \in 1..5
    OBVIOUS
  <2>2. QED
    BY <1>2, <1>3, <1>5, <2>1

\* The sizes of a row or column of up to five components, each at least 1.
Sizes(components, room) == [i \in 1..Len(components) |-> Requested(components, room, i)]

LiesIn(components, room) ==
    LET places == Places(components, room)
        End(i) == places[i].at + places[i].size
    IN  \A i \in DOMAIN places :
            /\ places[i].size > 0 /\ End(i) <= room
            /\ \A j \in 1..(i - 1) : End(j) <= places[i].at

\* What the panels take up is in the room when their sum is.
LEMMA PlacesLieIn ==
    ASSUME NEW components, Len(components) \in 0..5, NEW room \in Int,
           \A i \in 1..Len(components) : Requested(components, room, i) \in Nat \ {0},
           Sum(Sizes(components, room)) <= room
    PROVE  LiesIn(components, room)
<1> DEFINE n == Len(components)
           z == Sizes(components, room)
           places == Places(components, room)
           to(i) == SumTo(z, i)
<1>1. \A i \in 1..n : z[i] \in Nat \ {0}
  BY DEF Sizes
<1>2. to(0) = 0 /\ \A i \in 1..n : to(i) = to(i - 1) + z[i] /\ to(i) \in Int
  <2> HIDE DEF z, n
  <2>1. n \in 0..5 /\ \A i \in 1..n : z[i] \in Int
    BY <1>1 DEF n
  <2>2. QED
    BY <2>1, SumIs
<1>3. Len(z) = n /\ to(n) <= room
  BY DEF Sum, Sizes
<1>4. DOMAIN places = 1..n /\ \A i \in 1..n : places[i].at = to(i - 1) /\ places[i].size = z[i]
  BY DEF Places, Sizes
<1> HIDE DEF z, places, to
<1>5. n \in 0..5 /\ \A i \in 1..n : to(i - 1) \in Int
  BY <1>2
<1> HIDE DEF n
<1>6. \A i \in 1..n : to(i - 1) < to(i)
  BY <1>1, <1>2, <1>5
<1>7. \A i \in 0..n : \A j \in 0..i : to(j) <= to(i)
  <2>1. \A i \in 0..n : to(i) \in Int
    BY <1>2
  <2>2. /\ 1 <= n => to(0) < to(1)
        /\ 2 <= n => to(1) < to(2)
        /\ 3 <= n => to(2) < to(3)
        /\ 4 <= n => to(3) < to(4)
        /\ 5 <= n => to(4) < to(5)
    BY <1>5, <1>6
  <2>3. QED
    BY <1>5, <2>1, <2>2
<1>8. ASSUME NEW i \in 1..n
      PROVE  /\ places[i].size > 0 /\ places[i].at + places[i].size <= room
             /\ \A j \in 1..(i - 1) : places[j].at + places[j].size <= places[i].at
  <2>1. places[i].at + places[i].size = to(i) /\ places[i].at = to(i - 1) /\ places[i].size > 0
    BY <1>1, <1>2, <1>4
  <2>2. to(i) <= to(n) /\ to(i) \in Int /\ to(n) \in Int
    BY <1>2, <1>5, <1>7
  <2>3. ASSUME NEW j \in 1..(i - 1) PROVE places[j].at + places[j].size <= places[i].at
    <3>1. j \in 1..n /\ i - 1 \in 0..n /\ j \in 0..(i - 1)
      BY <1>5
    <3>2. places[j].at + places[j].size = to(j)
      BY <1>2, <1>4, <3>1
    <3>3. QED
      BY <1>7, <2>1, <3>1, <3>2
  <2>4. QED
    BY <1>3, <2>1, <2>2, <2>3
<1>9. QED
  BY <1>4, <1>8 DEF LiesIn, places

\* Four or five components: who asks for a size and who takes what is left.
LEMMA RowsAre ==
    /\ Len(Column) = 5 /\ Len(TopRow) = 3 /\ Len(SeekRow) = 4
    /\ Column[1] = Fixed(TopHeight) /\ Column[2] = Fixed(0) /\ Column[3] = Fixed(TrackerHeight)
    /\ Column[4] = Fixed(SeekHeight) /\ Column[5] = Fixed(SpacerHeight)
    /\ TopRow[1] = Fixed(TitleWidth) /\ TopRow[2] = Fixed(TargetWidth) /\ TopRow[3] = Fixed(0)
    /\ SeekRow[1] = Fixed(0) /\ SeekRow[2] = Fixed(ButtonWidth)
    /\ SeekRow[3] = Fixed(ButtonWidth) /\ SeekRow[4] = Fixed(0)
    /\ \A w : Len(ListRow(w)) = 2 /\ ListRow(w)[1] = Fixed(0) /\ ListRow(w)[2] = Fixed(w)
BY DEF Column, TopRow, SeekRow, ListRow, Stretched

\* A fixed component asks for its size, and has the weight of one.
LEMMA FixedIs == \A size : Fixed(size).preferred = size /\ Fixed(size).weight = 1
BY DEF Fixed

\* What components prefer and weigh, the first n of them.
LEMMA SharesAre ==
    ASSUME NEW components, Len(components) \in 0..5,
           \A i \in 1..Len(components) : components[i].preferred \in Nat /\ components[i].weight \in Nat
    PROVE  \E p, q : /\ p[0] = 0 /\ q[0] = 0
                     /\ \A i \in 1..Len(components) :
                           /\ p[i] = p[i - 1] + components[i].preferred
                           /\ q[i] = q[i - 1] + (IF components[i].preferred = 0 THEN components[i].weight ELSE 0)
                     /\ Preferred(components) = p[Len(components)] /\ Weights(components) = q[Len(components)]
<1> DEFINE n == Len(components)
           f == [i \in 1..n |-> components[i].preferred]
           g == [i \in 1..n |-> IF components[i].preferred = 0 THEN components[i].weight ELSE 0]
           p == [i \in 0..n |-> SumTo(f, i)]
           q == [i \in 0..n |-> SumTo(g, i)]
<1>1. /\ \A i \in 1..n : f[i] = components[i].preferred /\ f[i] \in Int
      /\ \A i \in 1..n : g[i] = (IF components[i].preferred = 0 THEN components[i].weight ELSE 0) /\ g[i] \in Int
      /\ Len(f) = n /\ Len(g) = n
  OBVIOUS
<1>2. Preferred(components) = SumTo(f, n) /\ Weights(components) = SumTo(g, n)
  BY <1>1 DEF Preferred, Weights, Sum
<1> HIDE DEF f, g
<1>3. n \in 0..5
  OBVIOUS
<1> HIDE DEF n
<1>4. /\ SumTo(f, 0) = 0 /\ \A i \in 1..n : SumTo(f, i) = SumTo(f, i - 1) + f[i]
      /\ SumTo(g, 0) = 0 /\ \A i \in 1..n : SumTo(g, i) = SumTo(g, i - 1) + g[i]
  BY <1>1, <1>3, SumIs
<1>5. /\ p[0] = 0 /\ q[0] = 0 /\ p[n] = SumTo(f, n) /\ q[n] = SumTo(g, n)
      /\ \A i \in 1..n : p[i] = p[i - 1] + f[i] /\ q[i] = q[i - 1] + g[i]
  BY <1>3, <1>4
<1> HIDE DEF p, q
<1>6. QED
  BY <1>1, <1>2, <1>5 DEF n

\* What the rows and the column prefer, and by how much they share the rest.
LEMMA SharesOfRows ==
    /\ Preferred(Column) = TopHeight + TrackerHeight + SeekHeight + SpacerHeight /\ Weights(Column) = 1
    /\ Preferred(TopRow) = TitleWidth + TargetWidth /\ Weights(TopRow) = 1
    /\ Preferred(SeekRow) = 2 * ButtonWidth /\ Weights(SeekRow) = 2
    /\ \A w \in Nat \ {0} : Preferred(ListRow(w)) = w /\ Weights(ListRow(w)) = 1
<1>1. /\ TopHeight \in Nat \ {0} /\ TrackerHeight \in Nat \ {0} /\ SeekHeight \in Nat \ {0}
      /\ SpacerHeight \in Nat \ {0} /\ TitleWidth \in Nat \ {0} /\ TargetWidth \in Nat \ {0}
      /\ ButtonWidth \in Nat \ {0}
  BY SizeAssumption
<1>2. Preferred(Column) = TopHeight + TrackerHeight + SeekHeight + SpacerHeight /\ Weights(Column) = 1
  <2>1. Len(Column) = 5 /\ \A i \in 1..5 : Column[i].preferred \in Nat /\ Column[i].weight = 1
    BY <1>1, RowsAre, FixedIs
  <2>2. /\ Len(Column) \in 0..5
        /\ \A i \in 1..Len(Column) : Column[i].preferred \in Nat /\ Column[i].weight \in Nat
    BY <2>1
  <2>3. PICK p, q : /\ p[0] = 0 /\ q[0] = 0
                    /\ \A i \in 1..Len(Column) :
                          /\ p[i] = p[i - 1] + Column[i].preferred
                          /\ q[i] = q[i - 1] + (IF Column[i].preferred = 0 THEN Column[i].weight ELSE 0)
                    /\ Preferred(Column) = p[Len(Column)] /\ Weights(Column) = q[Len(Column)]
    BY <2>2, SharesAre, Zenon
  <2>4. /\ p[1] = TopHeight /\ p[2] = p[1] + 0 /\ p[3] = p[2] + TrackerHeight
        /\ p[4] = p[3] + SeekHeight /\ p[5] = p[4] + SpacerHeight
        /\ q[1] = 0 /\ q[2] = q[1] + 1 /\ q[3] = q[2] + 0 /\ q[4] = q[3] + 0 /\ q[5] = q[4] + 0
    BY <1>1, <2>1, <2>3, RowsAre, FixedIs
  <2>5. QED
    BY <1>1, <2>1, <2>3, <2>4
<1>3. Preferred(TopRow) = TitleWidth + TargetWidth /\ Weights(TopRow) = 1
  <2>1. Len(TopRow) = 3 /\ \A i \in 1..3 : TopRow[i].preferred \in Nat /\ TopRow[i].weight = 1
    BY <1>1, RowsAre, FixedIs
  <2>2. /\ Len(TopRow) \in 0..5
        /\ \A i \in 1..Len(TopRow) : TopRow[i].preferred \in Nat /\ TopRow[i].weight \in Nat
    BY <2>1
  <2>3. PICK p, q : /\ p[0] = 0 /\ q[0] = 0
                    /\ \A i \in 1..Len(TopRow) :
                          /\ p[i] = p[i - 1] + TopRow[i].preferred
                          /\ q[i] = q[i - 1] + (IF TopRow[i].preferred = 0 THEN TopRow[i].weight ELSE 0)
                    /\ Preferred(TopRow) = p[Len(TopRow)] /\ Weights(TopRow) = q[Len(TopRow)]
    BY <2>2, SharesAre, Zenon
  <2>4. /\ p[1] = TitleWidth /\ p[2] = p[1] + TargetWidth /\ p[3] = p[2] + 0
        /\ q[1] = 0 /\ q[2] = q[1] + 0 /\ q[3] = q[2] + 1
    BY <1>1, <2>1, <2>3, RowsAre, FixedIs
  <2>5. QED
    BY <1>1, <2>1, <2>3, <2>4
<1>4. Preferred(SeekRow) = 2 * ButtonWidth /\ Weights(SeekRow) = 2
  <2>1. Len(SeekRow) = 4 /\ \A i \in 1..4 : SeekRow[i].preferred \in Nat /\ SeekRow[i].weight = 1
    BY <1>1, RowsAre, FixedIs
  <2>2. /\ Len(SeekRow) \in 0..5
        /\ \A i \in 1..Len(SeekRow) : SeekRow[i].preferred \in Nat /\ SeekRow[i].weight \in Nat
    BY <2>1
  <2>3. PICK p, q : /\ p[0] = 0 /\ q[0] = 0
                    /\ \A i \in 1..Len(SeekRow) :
                          /\ p[i] = p[i - 1] + SeekRow[i].preferred
                          /\ q[i] = q[i - 1] + (IF SeekRow[i].preferred = 0 THEN SeekRow[i].weight ELSE 0)
                    /\ Preferred(SeekRow) = p[Len(SeekRow)] /\ Weights(SeekRow) = q[Len(SeekRow)]
    BY <2>2, SharesAre, Zenon
  <2>4. /\ p[1] = 0 /\ p[2] = p[1] + ButtonWidth /\ p[3] = p[2] + ButtonWidth /\ p[4] = p[3] + 0
        /\ q[1] = 1 /\ q[2] = q[1] + 0 /\ q[3] = q[2] + 0 /\ q[4] = q[3] + 1
    BY <1>1, <2>1, <2>3, RowsAre, FixedIs
  <2>5. QED
    BY <1>1, <2>1, <2>3, <2>4
<1>5. ASSUME NEW w \in Nat \ {0} PROVE Preferred(ListRow(w)) = w /\ Weights(ListRow(w)) = 1
  <2> DEFINE row == ListRow(w)
  <2>1. Len(row) = 2 /\ row[1] = Fixed(0) /\ row[2] = Fixed(w)
    BY RowsAre
  <2> HIDE DEF row
  <2>2. \A i \in 1..2 : row[i].preferred \in Nat /\ row[i].weight = 1
    BY <2>1, FixedIs
  <2>3. PICK p, q : /\ p[0] = 0 /\ q[0] = 0
                    /\ \A i \in 1..2 :
                          /\ p[i] = p[i - 1] + row[i].preferred
                          /\ q[i] = q[i - 1] + (IF row[i].preferred = 0 THEN row[i].weight ELSE 0)
                    /\ Preferred(row) = p[2] /\ Weights(row) = q[2]
    BY <2>1, <2>2, SharesAre
  <2>4. p[1] = 0 /\ p[2] = p[1] + w /\ q[1] = 1 /\ q[2] = q[1] + 0
    BY <2>1, <2>3, FixedIs
  <2>5. QED
    BY <2>3, <2>4 DEF row
<1>6. QED
  BY <1>2, <1>3, <1>4, <1>5

\* A component gets what it asks for; who asks for nothing shares what is left.
LEMMA RequestedIs ==
    ASSUME NEW components, NEW room \in Int, NEW i, NEW size, components[i] = Fixed(size)
    PROVE  Requested(components, room, i) =
               IF size # 0 THEN size ELSE ((room - Preferred(components)) * 1) \div Weights(components)
BY FixedIs DEF Requested

\* The column of the window in a room that is larger than its fixed panels.
LEMMA ColumnLies ==
    ASSUME NEW room \in Nat, room > TopHeight + TrackerHeight + SeekHeight + SpacerHeight
    PROVE  /\ LiesIn(Column, room)
           /\ Places(Column, room)[2].size \in Nat \ {0}
<1> DEFINE rest == TopHeight + TrackerHeight + SeekHeight + SpacerHeight
           z == Sizes(Column, room)
<1>1. /\ TopHeight \in Nat \ {0} /\ TrackerHeight \in Nat \ {0} /\ SeekHeight \in Nat \ {0}
      /\ SpacerHeight \in Nat \ {0}
  BY SizeAssumption
<1>2. rest \in Nat /\ room - rest \in Nat \ {0} /\ ((room - rest) * 1) \div 1 = room - rest
  BY <1>1
<1>3. /\ Requested(Column, room, 1) = TopHeight /\ Requested(Column, room, 2) = room - rest
      /\ Requested(Column, room, 3) = TrackerHeight /\ Requested(Column, room, 4) = SeekHeight
      /\ Requested(Column, room, 5) = SpacerHeight
  <2>1. Preferred(Column) = rest /\ Weights(Column) = 1
    BY SharesOfRows
  <2> HIDE DEF rest
  <2>2. QED
    BY <1>1, <1>2, <2>1, RowsAre, RequestedIs
<1>4. Len(Column) = 5
  BY RowsAre
<1>5. \A i \in 1..5 : Requested(Column, room, i) \in Nat \ {0} /\ z[i] = Requested(Column, room, i)
  BY <1>1, <1>2, <1>3, <1>4 DEF Sizes
<1>6. Sum(z) = SumTo(z, 5)
  BY <1>4 DEF Sum, Sizes
<1>7. Places(Column, room)[2].size = Requested(Column, room, 2)
  BY <1>4 DEF Places
<1> HIDE DEF z
<1>8. Sum(z) = z[1] + z[2] + z[3] + z[4] + z[5]
  <2>1. 5 \in 0..5 /\ \A i \in 1..5 : z[i] \in Int
    BY <1>5
  <2>2. SumTo(z, 0) = 0 /\ \A i \in 1..5 : SumTo(z, i) = SumTo(z, i - 1) + z[i] /\ SumTo(z, i) \in Int
    BY <2>1, SumIs
  <2>3. QED
    BY <1>6, <2>1, <2>2
<1>9. Sum(z) = room
  BY <1>1, <1>3, <1>5, <1>8
<1>10. LiesIn(Column, room)
  <2>1. /\ Len(Column) \in 0..5 /\ Sum(z) <= room
        /\ \A i \in 1..Len(Column) : Requested(Column, room, i) \in Nat \ {0}
    BY <1>4, <1>5, <1>9
  <2>2. QED
    BY <2>1, PlacesLieIn DEF z
<1>11. QED
  BY <1>2, <1>3, <1>7, <1>10

\* The row above the list.
LEMMA TopRowLies ==
    LiesIn(TopRow, WindowWidth)
<1> DEFINE rest == TitleWidth + TargetWidth
           share == WindowWidth - rest
           z == Sizes(TopRow, WindowWidth)
<1>1. /\ TitleWidth \in Nat \ {0} /\ TargetWidth \in Nat \ {0}
      /\ WindowWidth \in Nat /\ WindowWidth > TitleWidth + TargetWidth
  BY SizeAssumption
<1>2. /\ rest \in Nat /\ share \in Nat \ {0} /\ ((WindowWidth - rest) * 1) \div 1 = share
      /\ 1 * share + rest <= WindowWidth
  BY <1>1
<1>3. /\ Requested(TopRow, WindowWidth, 1) = TitleWidth /\ Requested(TopRow, WindowWidth, 2) = TargetWidth
      /\ Requested(TopRow, WindowWidth, 3) = share
  <2>1. Preferred(TopRow) = rest /\ Weights(TopRow) = 1
    BY <1>1, SharesOfRows
  <2> HIDE DEF rest, share
  <2>2. QED
    BY <1>1, <1>2, <2>1, RowsAre, RequestedIs
<1>4. Len(TopRow) = 3
  BY RowsAre
<1>5. \A i \in 1..3 : Requested(TopRow, WindowWidth, i) \in Nat \ {0} /\ z[i] = Requested(TopRow, WindowWidth, i)
  BY <1>1, <1>2, <1>3, <1>4 DEF Sizes
<1>6. Sum(z) = SumTo(z, 3)
  BY <1>4 DEF Sum, Sizes
<1>7. Places(TopRow, WindowWidth)[1].size = Requested(TopRow, WindowWidth, 1)
  BY <1>4 DEF Places
<1> HIDE DEF z
<1>8. Sum(z) = z[1] + z[2] + z[3]
  <2>1. 3 \in 0..5 /\ \A i \in 1..3 : z[i] \in Int
    BY <1>5
  <2>2. SumTo(z, 0) = 0 /\ \A i \in 1..3 : SumTo(z, i) = SumTo(z, i - 1) + z[i] /\ SumTo(z, i) \in Int
    BY <2>1, SumIs
  <2>3. QED
    BY <1>6, <2>1, <2>2
<1>9. Sum(z) <= WindowWidth
  BY <1>1, <1>2, <1>3, <1>5, <1>8
<1>10. LiesIn(TopRow, WindowWidth)
  <2>1. /\ Len(TopRow) \in 0..5 /\ Sum(z) <= WindowWidth
        /\ \A i \in 1..Len(TopRow) : Requested(TopRow, WindowWidth, i) \in Nat \ {0}
    BY <1>4, <1>5, <1>9
  <2>2. QED
    BY <1>1, <2>1, PlacesLieIn DEF z
<1>11. QED
  BY <1>2, <1>3, <1>7, <1>10

\* The row of the buttons, in its middle.
LEMMA SeekRowLies ==
    LiesIn(SeekRow, WindowWidth)
<1> DEFINE rest == 2 * ButtonWidth
           share == (WindowWidth - rest) \div 2
           z == Sizes(SeekRow, WindowWidth)
<1>1. /\ ButtonWidth \in Nat \ {0}
      /\ WindowWidth \in Nat /\ WindowWidth > 2 * ButtonWidth + 1
  BY SizeAssumption
<1>2. /\ rest \in Nat /\ share \in Nat \ {0} /\ ((WindowWidth - rest) * 1) \div 2 = share
      /\ 2 * share + rest <= WindowWidth
  BY <1>1
<1>3. /\ Requested(SeekRow, WindowWidth, 1) = share /\ Requested(SeekRow, WindowWidth, 2) = ButtonWidth
      /\ Requested(SeekRow, WindowWidth, 3) = ButtonWidth /\ Requested(SeekRow, WindowWidth, 4) = share
  <2>1. Preferred(SeekRow) = rest /\ Weights(SeekRow) = 2
    BY <1>1, SharesOfRows
  <2> HIDE DEF rest, share
  <2>2. QED
    BY <1>1, <1>2, <2>1, RowsAre, RequestedIs
<1>4. Len(SeekRow) = 4
  BY RowsAre
<1>5. \A i \in 1..4 : Requested(SeekRow, WindowWidth, i) \in Nat \ {0} /\ z[i] = Requested(SeekRow, WindowWidth, i)
  BY <1>1, <1>2, <1>3, <1>4 DEF Sizes
<1>6. Sum(z) = SumTo(z, 4)
  BY <1>4 DEF Sum, Sizes
<1>7. Places(SeekRow, WindowWidth)[1].size = Requested(SeekRow, WindowWidth, 1)
  BY <1>4 DEF Places
<1> HIDE DEF z
<1>8. Sum(z) = z[1] + z[2] + z[3] + z[4]
  <2>1. 4 \in 0..5 /\ \A i \in 1..4 : z[i] \in Int
    BY <1>5
  <2>2. SumTo(z, 0) = 0 /\ \A i \in 1..4 : SumTo(z, i) = SumTo(z, i - 1) + z[i] /\ SumTo(z, i) \in Int
    BY <2>1, SumIs
  <2>3. QED
    BY <1>6, <2>1, <2>2
<1>9. Sum(z) <= WindowWidth
  BY <1>1, <1>2, <1>3, <1>5, <1>8
<1>10. LiesIn(SeekRow, WindowWidth)
  <2>1. /\ Len(SeekRow) \in 0..5 /\ Sum(z) <= WindowWidth
        /\ \A i \in 1..Len(SeekRow) : Requested(SeekRow, WindowWidth, i) \in Nat \ {0}
    BY <1>4, <1>5, <1>9
  <2>2. QED
    BY <1>1, <2>1, PlacesLieIn DEF z
<1>11. QED
  BY <1>2, <1>3, <1>7, <1>10

\* The list and its bar, which may take one pixel.
LEMMA ListRowLies ==
    ASSUME NEW w \in {1, BarWidth}
    PROVE  /\ LiesIn(ListRow(w), WindowWidth)
           /\ Places(ListRow(w), WindowWidth)[1].size \in Nat \ {0}
<1> DEFINE rest == w
           share == WindowWidth - rest
           z == Sizes(ListRow(w), WindowWidth)
<1>1. /\ w \in Nat \ {0} /\ BarWidth \in Nat \ {0}
      /\ WindowWidth \in Nat /\ WindowWidth > w
  BY SizeAssumption
<1>2. /\ rest \in Nat /\ share \in Nat \ {0} /\ ((WindowWidth - rest) * 1) \div 1 = share
      /\ 1 * share + rest <= WindowWidth
  BY <1>1
<1>3. /\ Requested(ListRow(w), WindowWidth, 1) = share /\ Requested(ListRow(w), WindowWidth, 2) = w
  <2>1. Preferred(ListRow(w)) = rest /\ Weights(ListRow(w)) = 1
    BY <1>1, SharesOfRows
  <2> HIDE DEF rest, share
  <2>2. QED
    BY <1>1, <1>2, <2>1, RowsAre, RequestedIs
<1>4. Len(ListRow(w)) = 2
  BY RowsAre
<1>5. \A i \in 1..2 : Requested(ListRow(w), WindowWidth, i) \in Nat \ {0} /\ z[i] = Requested(ListRow(w), WindowWidth, i)
  BY <1>1, <1>2, <1>3, <1>4 DEF Sizes
<1>6. Sum(z) = SumTo(z, 2)
  BY <1>4 DEF Sum, Sizes
<1>7. Places(ListRow(w), WindowWidth)[1].size = Requested(ListRow(w), WindowWidth, 1)
  BY <1>4 DEF Places
<1> HIDE DEF z
<1>8. Sum(z) = z[1] + z[2]
  <2>1. 2 \in 0..5 /\ \A i \in 1..2 : z[i] \in Int
    BY <1>5
  <2>2. SumTo(z, 0) = 0 /\ \A i \in 1..2 : SumTo(z, i) = SumTo(z, i - 1) + z[i] /\ SumTo(z, i) \in Int
    BY <2>1, SumIs
  <2>3. QED
    BY <1>6, <2>1, <2>2
<1>9. Sum(z) <= WindowWidth
  BY <1>1, <1>2, <1>3, <1>5, <1>8
<1>10. LiesIn(ListRow(w), WindowWidth)
  <2>1. /\ Len(ListRow(w)) \in 0..5 /\ Sum(z) <= WindowWidth
        /\ \A i \in 1..Len(ListRow(w)) : Requested(ListRow(w), WindowWidth, i) \in Nat \ {0}
    BY <1>4, <1>5, <1>9
  <2>2. QED
    BY <1>1, <2>1, PlacesLieIn DEF z
<1>11. QED
  BY <1>2, <1>3, <1>7, <1>10

-----------------------------------------------------------------------------
(***************************************************************************)
(* The list.  Its types: a position of the bar is a fraction or none, and  *)
(* what is seen of the list is as high as the list is.                     *)
(***************************************************************************)
Fractions == (Nat \X (Nat \ {0})) \cup {NaN}

ListTyped ==
    /\ windowHeight \in WindowHeights /\ listHeight \in Nat \ {0} /\ paneWidth \in Nat \ {0}
    /\ items \in Seq(Int) /\ itemWidth \in Seq(Nat) /\ Len(itemWidth) = Len(items)
    /\ totalHeight \in Int /\ contentSize \in Nat
    /\ region.top \in Int /\ region.bottom = region.top + listHeight
    /\ currentPosition \in Fractions
    /\ trackerRect.top \in Int /\ trackerRect.bottom \in Int
    /\ barPreferred \in {1, BarWidth}
    /\ drag \in Int
    /\ adding \in {"idle", "total", "move", "content"}

\* Quotients are ints, cut at 0.
LEMMA TruncatedIsInt == ASSUME NEW n \in Int, NEW d \in Nat \ {0} PROVE Truncated(n, d) \in Int
BY DEF Truncated

\* Products of ints are.
LEMMA ProductIsInt ==
    /\ \A a, b \in Int : a * b \in Int
    /\ \A a, b \in Nat \ {0} : a * b \in Nat \ {0}
<1>1. \A a, b \in Int : a * b \in Int
  OBVIOUS
<1>2. ASSUME NEW a \in Nat \ {0}, NEW b \in Nat \ {0} PROVE a * b \in Nat \ {0}
  OBVIOUS
<1>3. QED
  BY <1>1, <1>2

\* A part of an int, as far as the bar stands, is one.
LEMMA TimesIsInt ==
    ASSUME NEW place \in Fractions, NEW n \in Int, NEW d \in Nat \ {0} PROVE Times(place, n, d) \in Int
<1>1. CASE place = NaN
  BY <1>1, ItemAssumption DEF Times
<1>2. CASE place # NaN
  <2>1. place[1] \in Int /\ place[2] \in Nat \ {0}
    BY <1>2 DEF Fractions
  <2>2. place[1] * n \in Int /\ place[2] * d \in Nat \ {0}
    BY <2>1, ProductIsInt
  <2>3. QED
    BY <1>2, <2>2, TruncatedIsInt DEF Times
<1>3. QED
  BY <1>1, <1>2

\* The region that a place of the bar brings into view.
LEMMA RegionIs ==
    ASSUME NEW place \in Fractions, NEW total \in Int, NEW height \in Int
    PROVE  /\ Region(place, total, height).top \in Int
           /\ Region(place, total, height).bottom = Region(place, total, height).top + height
<1> DEFINE top == Times(place, total - height, 1)
<1>1. top \in Int
  <2>1. total - height \in Int /\ 1 \in Nat \ {0}
    OBVIOUS
  <2>2. QED
    BY <2>1, TimesIsInt
<1> HIDE DEF top
<1>2. Region(place, total, height) = [top |-> top, bottom |-> top + height]
  BY DEF Region, top
<1>3. QED
  BY <1>1, <1>2

\* Where the bar is dragged to is a position.
LEMMA PercentIs == ASSUME ListTyped, NEW y \in Int PROVE Percent(y) \in Fractions
<1> DEFINE way == listHeight - (trackerRect.bottom - trackerRect.top)
<1>1. way \in Int
  BY DEF ListTyped
<1>2. \A n \in Int, d \in Nat \ {0} : Fraction(n, d) \in Fractions
  BY DEF Fraction, Fractions
<1>3. NaN \in Fractions
  BY DEF Fractions
<1>4. Percent(y) = CASE way > 0 -> Fraction(y, way)
                     [] way < 0 -> Fraction(-y, -way)
                     [] way = 0 /\ y = 0 -> NaN
                     [] OTHER -> Fraction(y, 1)
  BY DEF Percent
<1> HIDE DEF way
<1>5. QED
  BY <1>1, <1>2, <1>3, <1>4

\* A list of whole numbers with one of them replaced is one as long.
LEMMA ReplacedIs ==
    ASSUME NEW s \in Seq(Int), NEW i, NEW v \in Int
    PROVE  [s EXCEPT ![i] = v] \in Seq(Int) /\ Len([s EXCEPT ![i] = v]) = Len(s)
<1> DEFINE t == [s EXCEPT ![i] = v]
<1>1. t = [j \in 1..Len(s) |-> IF j = i THEN v ELSE s[j]]
  OBVIOUS
<1>2. \A j \in 1..Len(s) : s[j] \in Int
  OBVIOUS
<1> HIDE DEF t
<1>3. t \in Seq(Int) /\ Len(t) = Len(s)
  BY <1>1, <1>2
<1>4. QED
  BY <1>3 DEF t

\* The control thread keeps the types,
LEMMA AddKeepsTypes == ListTyped /\ addRemoteFile => ListTyped'
<1> SUFFICES ASSUME ListTyped, addRemoteFile PROVE ListTyped'
  OBVIOUS
<1> USE ItemAssumption DEF ListTyped, AddGoto, layout, songs, pane, bar
<1>1. CASE AddPush
  BY <1>1 DEF AddPush, NewItem
<1>2. CASE AddTotal
  BY <1>2 DEF AddTotal
<1>3. CASE AddMove
  <2>2. items' \in Seq(Int) /\ Len(items') = Len(items)
    BY <1>3, ReplacedIs DEF AddMove
  <2>3. QED
    BY <1>3, <2>2 DEF AddMove
<1>4. CASE AddContent
  BY <1>4 DEF AddContent
<1>5. QED
  BY <1>1, <1>2, <1>3, <1>4 DEF addRemoteFile

\* and so does the window.
LEMMA MessageKeepsTypes == ListTyped /\ ListMessage => ListTyped'
<1> SUFFICES ASSUME ListTyped, ListMessage PROVE ListTyped'
  OBVIOUS
<1>1. CASE PaintBar
  <2>1. trackerRect'.top \in Int /\ trackerRect'.bottom \in Int /\ barPreferred' \in {1, BarWidth}
    <3>1. CASE contentSize = 0
      BY <1>1, <3>1 DEF PaintBar, calculateTrackerSize, ListTyped
    <3>2. CASE contentSize # 0
      <4> DEFINE top == Times(currentPosition, listHeight * (contentSize - listHeight), contentSize)
      <4>1. /\ listHeight * (contentSize - listHeight) \in Int /\ listHeight * listHeight \in Int
            /\ contentSize \in Nat \ {0} /\ currentPosition \in Fractions
        BY <3>2, ProductIsInt DEF ListTyped
      <4>2. top \in Int
        BY <4>1, TimesIsInt
      <4>3. trackerRect' = [top |-> top, bottom |-> Truncated(top * contentSize + listHeight * listHeight, contentSize)]
        BY <1>1, <3>2 DEF PaintBar, calculateTrackerSize
      <4>4. barPreferred' = IF listHeight >= contentSize THEN 1 ELSE BarWidth
        BY <1>1, <3>2 DEF PaintBar, calculateTrackerSize
      <4> HIDE DEF top
      <4>5. top * contentSize + listHeight * listHeight \in Int
        BY <4>1, <4>2, ProductIsInt
      <4>6. QED
        BY <4>1, <4>2, <4>3, <4>4, <4>5, TruncatedIsInt
    <3>3. QED
      BY <3>1, <3>2
  <2>2. QED
    BY <1>1, <2>1 DEF PaintBar, ListTyped, layout, songs, pane
<1>2. CASE PaintPane
  <2>1. itemWidth' \in Seq(Nat) /\ Len(itemWidth') = Len(items)
    BY <1>2 DEF PaintPane, PaintItems, ListTyped
  <2>2. QED
    BY <1>2, <2>1 DEF PaintPane, ListTyped, layout, pane, bar
<1>3. CASE ReleaseBar
  BY <1>3, ItemAssumption DEF ReleaseBar, Inactive, ListTyped, layout, songs, pane, bar
<1>4. ASSUME NEW y \in MouseYs, PressBar(y) PROVE ListTyped'
  BY <1>4, ItemAssumption DEF PressBar, ListTyped, layout, songs, pane, bar
<1>5. ASSUME NEW y \in MouseYs, DragBar(y) PROVE ListTyped'
  <2>1. Percent(y + drag) \in Fractions
    BY PercentIs, ItemAssumption DEF ListTyped
  <2>2. /\ currentPosition' \in Fractions
        /\ region'.top \in Int /\ region'.bottom = region'.top + listHeight
    BY <1>5, <2>1, RegionIs DEF DragBar, setTrackPosition, ListTyped
  <2>3. QED
    BY <1>5, <2>2 DEF DragBar, ListTyped, layout, songs
<1>6. ASSUME NEW x, NEW y, ClickPane(x, y) PROVE ListTyped'
  BY <1>6 DEF ClickPane, ListTyped, layout, songs, pane, bar
<1>7. ASSUME NEW height \in WindowHeights, Resize(height) PROVE ListTyped'
  <2>1. height \in Nat /\ height > TopHeight + TrackerHeight + SeekHeight + SpacerHeight
    BY SizeAssumption
  <2>2. windowHeight' = height /\ listHeight' \in Nat \ {0} /\ paneWidth' \in Nat \ {0}
    BY <1>7, <2>1, ColumnLies, ListRowLies DEF Resize, ListTyped
  <2>3. region'.top \in Int /\ region'.bottom = region'.top + listHeight'
    BY <1>7, <2>2, RegionIs DEF Resize, ListTyped
  <2>4. QED
    BY <1>7, <2>2, <2>3 DEF Resize, ListTyped, songs, bar
<1>8. QED
  BY <1>1, <1>2, <1>3, <1>4, <1>5, <1>6, <1>7 DEF ListMessage

\* All that the list does keeps its types.
LEMMA ListKeepsTypes == ListTyped /\ [addRemoteFile \/ ListMessage]_listVars => ListTyped'
<1>1. UNCHANGED listVars /\ ListTyped => ListTyped'
  BY DEF listVars, ListTyped, layout, songs, pane, bar
<1>2. QED
  BY <1>1, AddKeepsTypes, MessageKeepsTypes

\* The list begins with them.
LEMMA ListBegins == ListInit => ListTyped
<1> SUFFICES ASSUME ListInit PROVE ListTyped
  OBVIOUS
<1>1. windowHeight \in Nat /\ windowHeight > TopHeight + TrackerHeight + SeekHeight + SpacerHeight
  BY SizeAssumption DEF ListInit
<1>2. listHeight \in Nat \ {0} /\ paneWidth \in Nat \ {0}
  BY <1>1, ColumnLies, ListRowLies DEF ListInit
<1>3. currentPosition \in Fractions
  BY DEF ListInit, Fractions
<1>4. QED
  BY <1>2, <1>3, ItemAssumption DEF ListInit, ListTyped, Inactive

\* What the window does with the list.
LEMMA ListStep == [WindowNext]_windowVars => [addRemoteFile \/ ListMessage]_listVars
BY DEF WindowNext, windowVars

\* The types hold throughout.
LEMMA ListIsTyped == WindowSpec => []ListTyped
<1>1. WindowInit => ListTyped
  BY ListBegins DEF WindowInit
<1>2. QED
  BY <1>1, ListStep, ListKeepsTypes, PTL DEF WindowSpec

\* Panels lie in the window one after the other, at every size the user gives it.
THEOREM PanelsLieInTheWindow == WindowSpec => []PanelsFit
<1>1. ListTyped => PanelsFit
  <2> SUFFICES ASSUME ListTyped PROVE PanelsFit
    OBVIOUS
  <2>1. windowHeight \in Nat /\ windowHeight > TopHeight + TrackerHeight + SeekHeight + SpacerHeight
    BY SizeAssumption DEF ListTyped
  <2>2. LiesIn(Column, windowHeight)
    BY <2>1, ColumnLies
  <2>3. \A row \in {TopRow, SeekRow, ListRow(barPreferred)} : LiesIn(row, WindowWidth)
    BY TopRowLies, SeekRowLies, ListRowLies DEF ListTyped
  <2>4. QED
    BY <2>2, <2>3 DEF PanelsFit, LiesIn
<1>2. QED
  BY <1>1, ListIsTyped, PTL

-----------------------------------------------------------------------------
(***************************************************************************)
(* The clicks.  The items that are in their place lie below each other,    *)
(* and what has been painted since is them as they are; an item that was   *)
(* never painted has no width, and no button to click on.                  *)
(***************************************************************************)
Unplaced == adding \in {"total", "move"}
Placed == IF Unplaced THEN Len(items) - 1 ELSE Len(items)

ItemsInv ==
    /\ Unplaced => Len(items) > 0
    /\ \A i, j \in 1..Placed : i < j => items[i] + ItemHeight <= items[j]
    /\ \A i \in 1..Placed :
          items[i] + ItemHeight <= IF adding = "move" THEN totalHeight - ItemHeight ELSE totalHeight

DrawnInv ==
    drawn # Invalid /\ ~drawn.torn =>
        /\ drawn.width = paneWidth
        /\ DOMAIN drawn.tops \subseteq 1..Placed
        /\ \A i \in DOMAIN drawn.tops : drawn.tops[i] = Top(i) /\ itemWidth[i] = paneWidth
        /\ \A i \in (1..Len(items)) \ DOMAIN drawn.tops :
              itemWidth[i] = 0 \/ (i <= Placed /\ Top(i) >= region.bottom)

\* An item that is added comes below all others.
LEMMA AddKeepsItems == ListTyped /\ ItemsInv /\ addRemoteFile => ItemsInv'
<1> SUFFICES ASSUME ListTyped, ItemsInv, addRemoteFile PROVE ItemsInv'
  OBVIOUS
<1> DEFINE n == Len(items)
<1>1. /\ n \in Nat /\ totalHeight \in Int /\ ItemHeight \in Nat /\ \A i \in 1..n : items[i] \in Int
      /\ items \in Seq(Int)
  BY ItemAssumption DEF ListTyped
<1>2. /\ Unplaced => n > 0
      /\ \A i, j \in 1..Placed : i < j => items[i] + ItemHeight <= items[j]
      /\ \A i \in 1..Placed :
            items[i] + ItemHeight <= IF adding = "move" THEN totalHeight - ItemHeight ELSE totalHeight
  BY DEF ItemsInv
<1>3. CASE AddPush
  <2>1. adding = "idle" /\ adding' = "total" /\ items' = Append(items, 0) /\ totalHeight' = totalHeight
    BY <1>3 DEF AddPush, AddGoto, NewItem, pane
  <2>2. Len(items') = n + 1 /\ \A i \in 1..n : items'[i] = items[i]
    BY <1>1, <2>1
  <2>3. Placed = n /\ Placed' = n /\ Unplaced'
    BY <1>1, <2>1, <2>2 DEF Placed, Unplaced
  <2> HIDE DEF n
  <2>4. QED
    BY <1>1, <1>2, <2>1, <2>2, <2>3 DEF ItemsInv
<1>4. CASE AddTotal
  <2>1. /\ adding = "total" /\ adding' = "move" /\ items' = items
        /\ totalHeight' = ItemHeight + (IF n = 1 THEN 0 ELSE totalHeight)
    BY <1>4 DEF AddTotal, AddGoto, songs
  <2>2. Placed = n - 1 /\ Placed' = n - 1 /\ Unplaced'
    BY <2>1 DEF Placed, Unplaced
  <2>3. n > 0 /\ Len(items') = n
    BY <1>2, <2>1 DEF Unplaced
  <2> HIDE DEF n
  <2>4. ASSUME NEW i \in 1..(n - 1) PROVE items[i] + ItemHeight <= totalHeight' - ItemHeight
    <3>1. n # 1 /\ items[i] + ItemHeight <= totalHeight /\ items[i] \in Int
      BY <1>1, <1>2, <2>1, <2>2
    <3>2. QED
      BY <1>1, <2>1, <3>1
  <2>5. QED
    BY <1>1, <1>2, <2>1, <2>2, <2>3, <2>4 DEF ItemsInv
<1>5. CASE AddMove
  <2>1. /\ adding = "move" /\ adding' = "content" /\ totalHeight' = totalHeight
        /\ items' = [items EXCEPT ![n] = totalHeight - ItemHeight]
    BY <1>5 DEF AddMove, AddGoto, pane
  <2>2. n > 0
    BY <1>2, <2>1 DEF Unplaced
  <2>3. /\ Len(items') = n /\ items'[n] = totalHeight - ItemHeight
        /\ \A i \in 1..n : i # n => items'[i] = items[i]
    <3>1. ASSUME NEW s \in Seq(Int), NEW k \in 1..Len(s), NEW v \in Int
          PROVE  /\ Len([s EXCEPT ![k] = v]) = Len(s) /\ [s EXCEPT ![k] = v][k] = v
                 /\ \A i \in 1..Len(s) : i # k => [s EXCEPT ![k] = v][i] = s[i]
      OBVIOUS
    <3>2. QED
      BY <1>1, <2>1, <2>2, <3>1
  <2>4. Placed = n - 1 /\ Placed' = n /\ ~Unplaced'
    BY <2>1, <2>3 DEF Placed, Unplaced
  <2> HIDE DEF n
  <2>5. ASSUME NEW i \in 1..n, i # n
        PROVE  /\ items'[i] = items[i] /\ items[i] \in Int
               /\ items[i] + ItemHeight <= totalHeight - ItemHeight
               /\ \A j \in 1..n : i < j /\ j # n => items[i] + ItemHeight <= items[j] /\ items'[j] = items[j]
    <3>1. i \in 1..Placed /\ \A j \in 1..n : j # n => j \in 1..Placed
      BY <1>1, <2>4, <2>5
    <3>2. QED
      BY <1>1, <1>2, <2>1, <2>3, <2>5, <3>1
  <2>6. ASSUME NEW i \in 1..n, NEW j \in 1..n, i < j PROVE items'[i] + ItemHeight <= items'[j]
    <3>1. i # n
      BY <1>1, <2>6
    <3>2. QED
      BY <1>1, <2>3, <2>5, <2>6, <3>1
  <2>7. ASSUME NEW i \in 1..n PROVE items'[i] + ItemHeight <= totalHeight'
    BY <1>1, <2>1, <2>3, <2>5
  <2>8. QED
    BY <2>1, <2>4, <2>6, <2>7 DEF ItemsInv
<1>6. CASE AddContent
  BY <1>2, <1>6 DEF AddContent, AddGoto, songs, pane, ItemsInv, Placed, Unplaced
<1>7. QED
  BY <1>3, <1>4, <1>5, <1>6 DEF addRemoteFile

\* What was drawn stays as it was while an item is added.
LEMMA AddKeepsDrawn == ListTyped /\ ItemsInv /\ DrawnInv /\ addRemoteFile => DrawnInv'
<1> SUFFICES ASSUME ListTyped, ItemsInv, DrawnInv, addRemoteFile, drawn' # Invalid, ~drawn'.torn
             PROVE  /\ drawn'.width = paneWidth'
                    /\ DOMAIN drawn'.tops \subseteq 1..Placed'
                    /\ \A i \in DOMAIN drawn'.tops : drawn'.tops[i] = Top(i)' /\ itemWidth'[i] = paneWidth'
                    /\ \A i \in (1..Len(items')) \ DOMAIN drawn'.tops :
                          itemWidth'[i] = 0 \/ (i <= Placed' /\ Top(i)' >= region'.bottom)
  BY DEF DrawnInv
<1>1. drawn' = drawn /\ paneWidth' = paneWidth /\ region' = region
  BY DEF addRemoteFile, AddPush, AddTotal, AddMove, AddContent, painted, layout, pane
<1>2. /\ drawn.width = paneWidth
      /\ DOMAIN drawn.tops \subseteq 1..Placed
      /\ \A i \in DOMAIN drawn.tops : drawn.tops[i] = items[i] - region.top /\ itemWidth[i] = paneWidth
      /\ \A i \in (1..Len(items)) \ DOMAIN drawn.tops :
            itemWidth[i] = 0 \/ (i <= Placed /\ items[i] - region.top >= region.bottom)
  BY <1>1 DEF DrawnInv, Top
<1>3. /\ Placed \in Nat /\ Placed' \in Nat /\ Placed <= Placed' /\ Len(items) \in Nat /\ Placed <= Len(items)
      /\ \A i \in 1..Placed : items'[i] = items[i]
      /\ \A i \in 1..Len(items) : itemWidth'[i] = itemWidth[i]
      /\ \A i \in 1..Len(items') : i \notin 1..Len(items) => itemWidth'[i] = 0
  <2> USE DEF ListTyped, ItemsInv, Unplaced, Placed, AddGoto, songs
  <2>1. CASE AddPush
    BY <2>1 DEF AddPush, NewItem
  <2>2. CASE AddTotal
    BY <2>2 DEF AddTotal
  <2>3. CASE AddMove
    BY <2>3 DEF AddMove
  <2>4. CASE AddContent
    BY <2>4 DEF AddContent
  <2>5. QED
    BY <2>1, <2>2, <2>3, <2>4 DEF addRemoteFile
<1>4. \A i : Top(i)' = items'[i] - region.top
  BY <1>1 DEF Top
<1>5. ASSUME NEW i \in DOMAIN drawn.tops PROVE drawn.tops[i] = Top(i)' /\ itemWidth'[i] = paneWidth'
  <2>1. i \in 1..Placed /\ i \in 1..Len(items)
    BY <1>2, <1>3
  <2>2. QED
    BY <1>1, <1>2, <1>3, <1>4, <2>1
<1>6. ASSUME NEW i \in (1..Len(items')) \ DOMAIN drawn.tops
      PROVE  itemWidth'[i] = 0 \/ (i <= Placed' /\ Top(i)' >= region'.bottom)
  <2>1. CASE i \in 1..Len(items) /\ itemWidth[i] # 0
    <3>1. i <= Placed /\ items[i] - region.top >= region.bottom
      BY <1>2, <2>1
    <3>2. i \in 1..Placed /\ items'[i] = items[i]
      BY <1>3, <2>1, <3>1
    <3>3. i <= Placed'
      BY <1>3, <3>2 DEF Placed, ListTyped
    <3>4. QED
      BY <1>1, <1>4, <3>1, <3>2, <3>3
  <2>2. CASE i \in 1..Len(items) /\ itemWidth[i] = 0
    BY <1>3, <2>2
  <2>3. CASE i \notin 1..Len(items)
    BY <1>3, <2>3
  <2>4. QED
    BY <2>1, <2>2, <2>3
<1>7. DOMAIN drawn.tops \subseteq 1..Placed'
  BY <1>2, <1>3
<1>8. QED
  BY <1>1, <1>2, <1>5, <1>6, <1>7

\* What is painted is the items in their place, down to the first below the region.
LEMMA PaintIsTrue == ListTyped /\ ItemsInv /\ PaintPane => DrawnInv'
<1> SUFFICES ASSUME ListTyped, ItemsInv, PaintPane, ~drawn'.torn
             PROVE  /\ drawn'.width = paneWidth'
                    /\ DOMAIN drawn'.tops \subseteq 1..Placed'
                    /\ \A i \in DOMAIN drawn'.tops : drawn'.tops[i] = Top(i)' /\ itemWidth'[i] = paneWidth'
                    /\ \A i \in (1..Len(items')) \ DOMAIN drawn'.tops :
                          itemWidth'[i] = 0 \/ (i <= Placed' /\ Top(i)' >= region'.bottom)
  BY DEF DrawnInv
<1>1. /\ drawn' = [width |-> paneWidth, tops |-> [i \in PaintedItems |-> Top(i)], torn |-> Unplaced]
      /\ itemWidth' = [i \in 1..Len(items) |-> IF i \in PaintedItems THEN paneWidth ELSE itemWidth[i]]
      /\ items' = items /\ adding' = adding /\ paneWidth' = paneWidth /\ region' = region
  <2>1. DOMAIN items = 1..Len(items)
    BY DEF ListTyped
  <2>2. QED
    BY <2>1 DEF PaintPane, PaintItems, Unplaced, layout, pane
<1>2. ~Unplaced /\ Placed = Len(items) /\ Placed' = Len(items)
  BY <1>1 DEF Placed, Unplaced
<1>3. /\ PaintedItems \subseteq 1..Len(items)
      /\ \A i \in 1..Len(items) : Top(i) = items[i] - region.top /\ Top(i) \in Int /\ Top(i)' = Top(i)
      /\ region.bottom \in Int
  BY <1>1 DEF PaintedItems, ListTyped, Top
<1>4. ASSUME NEW i \in 1..Len(items), i \notin PaintedItems PROVE Top(i) >= region.bottom
  <2>1. PICK j \in 1..i : ~(Top(j) < region.bottom)
    BY <1>4 DEF PaintedItems, ListTyped
  <2>2. j \in 1..Len(items) /\ Top(j) >= region.bottom
    BY <1>3, <2>1 DEF ListTyped
  <2>3. j = i \/ items[j] + ItemHeight <= items[i]
    BY <1>2, <2>2 DEF ItemsInv, ListTyped
  <2>4. /\ items[i] \in Int /\ items[j] \in Int /\ ItemHeight \in Nat /\ region.top \in Int
        /\ Top(i) = items[i] - region.top /\ Top(j) = items[j] - region.top
    <3>1. items[i] \in Int /\ items[j] \in Int /\ region.top \in Int
      BY <1>3, <2>2 DEF ListTyped
    <3>2. ItemHeight \in Nat
      BY ItemAssumption
    <3>3. Top(i) = items[i] - region.top /\ Top(j) = items[j] - region.top
      BY <1>3, <2>2
    <3>4. QED
      BY <3>1, <3>2, <3>3
  <2>5. QED
    BY <1>3, <2>2, <2>3, <2>4
<1>5. QED
  BY <1>1, <1>2, <1>3, <1>4

ClickInv == ListTyped /\ ItemsInv /\ DrawnInv

\* The window moves no item, and invalidates the pane whenever it moves what is seen.
LEMMA MessageKeepsClicks == ClickInv /\ ListMessage => ItemsInv' /\ DrawnInv'
<1> SUFFICES ASSUME ClickInv, ListMessage PROVE ItemsInv' /\ DrawnInv'
  OBVIOUS
<1>1. items' = items /\ adding' = adding /\ totalHeight' = totalHeight
  BY DEF ListMessage, PaintBar, PaintPane, ReleaseBar, PressBar, DragBar, ClickPane, Resize, songs, pane
<1>2. ItemsInv'
  BY <1>1 DEF ClickInv, ItemsInv, Placed, Unplaced
<1>3. CASE PaintBar \/ ReleaseBar \/ \E y \in MouseYs : PressBar(y)
  <2>1. drawn' = drawn /\ paneWidth' = paneWidth /\ itemWidth' = itemWidth /\ region' = region
    BY <1>3 DEF PaintBar, ReleaseBar, PressBar, songs, pane, layout
  <2>2. Placed' = Placed /\ \A i : Top(i)' = Top(i)
    BY <1>1, <2>1 DEF Placed, Unplaced, Top
  <2>3. DrawnInv'
    BY <1>1, <2>1, <2>2 DEF ClickInv, DrawnInv, Invalid
  <2>4. QED
    BY <1>2, <2>3
<1>4. CASE PaintPane
  BY <1>2, <1>4, PaintIsTrue DEF ClickInv
<1>5. CASE drawn' = Invalid
  BY <1>2, <1>5 DEF DrawnInv, Invalid
<1>6. ASSUME NEW y, DragBar(y) PROVE drawn' = Invalid
  BY <1>6 DEF DragBar
<1>7. ASSUME NEW x, NEW y, ClickPane(x, y) PROVE drawn' = Invalid
  BY <1>7 DEF ClickPane
<1>8. ASSUME NEW h, Resize(h) PROVE drawn' = Invalid
  BY <1>8 DEF Resize
<1>9. QED
  BY <1>2, <1>3, <1>4, <1>5, <1>6, <1>7, <1>8 DEF ListMessage

\* All that is needed of the list holds throughout.
LEMMA ClicksInvariant == WindowSpec => []ClickInv
<1>1. WindowInit => ClickInv
  <2> SUFFICES ASSUME ListInit PROVE ClickInv
    BY DEF WindowInit
  <2>1. drawn = Invalid /\ items = <<>> /\ adding = "idle"
    BY DEF ListInit
  <2>2. ItemsInv
    BY <2>1 DEF ItemsInv, Placed, Unplaced
  <2>3. QED
    BY <2>1, <2>2, ListBegins DEF ClickInv, DrawnInv
<1>2. ClickInv /\ [addRemoteFile \/ ListMessage]_listVars => ClickInv'
  <2>1. ClickInv /\ UNCHANGED listVars => ClickInv'
    BY DEF listVars, ClickInv, ListTyped, ItemsInv, DrawnInv, Placed, Unplaced, Top, layout, songs, pane, bar, painted
  <2>2. ClickInv /\ addRemoteFile => ClickInv'
    BY AddKeepsTypes, AddKeepsItems, AddKeepsDrawn DEF ClickInv
  <2>3. ClickInv /\ ListMessage => ClickInv'
    BY MessageKeepsTypes, MessageKeepsClicks DEF ClickInv
  <2>4. QED
    BY <2>1, <2>2, <2>3
<1>3. QED
  BY <1>1, <1>2, ListStep, PTL DEF WindowSpec

\* What has no width has no button, and neither has the upper edge of an item.
LEMMA NoButtonThere ==
    /\ \A x \in Nat, y \in Int : ButtonAt(x, y, 0) = "none"
    /\ \A x, width : ButtonAt(x, 0, width) = "none"
BY ItemAssumption DEF ButtonAt

\* Where nothing has been drawn, a click does nothing; where a button has, it is that.
LEMMA ClickHits ==
    ASSUME ClickInv, drawn # Invalid, ~drawn.torn, region.top >= 0,
           NEW x \in Nat, NEW y \in Nat, y < listHeight
    PROVE  Clicked(x, y) = Seen(x, y)
<1> DEFINE n == Len(items)
           seen == {i \in DOMAIN drawn.tops : drawn.tops[i] <= y /\ y < drawn.tops[i] + ItemHeight}
           under == {i \in DOMAIN items :
                        /\ Top(i) < y /\ y < Top(i) + ItemHeight
                        /\ \A j \in 1..(i - 1) : Top(j) < region.bottom}
<1>1. /\ n \in Nat /\ DOMAIN items = 1..n /\ Placed \in Int /\ Placed <= n /\ n <= Placed + 1 /\ ItemHeight \in Nat \ {0}
      /\ region.top \in Nat /\ region.bottom = region.top + listHeight /\ listHeight \in Nat
      /\ \A i \in 1..n : items[i] \in Int /\ Top(i) = items[i] - region.top
  BY ItemAssumption DEF ClickInv, ListTyped, Placed, Unplaced, Top
<1>2. /\ drawn.width = paneWidth
      /\ DOMAIN drawn.tops \subseteq 1..Placed
      /\ \A i \in DOMAIN drawn.tops : drawn.tops[i] = Top(i) /\ itemWidth[i] = paneWidth
      /\ \A i \in (1..n) \ DOMAIN drawn.tops : itemWidth[i] = 0 \/ (i <= Placed /\ Top(i) >= region.bottom)
  BY DEF ClickInv, DrawnInv
<1>3. \A i, j \in 1..Placed : i < j => items[i] + ItemHeight <= items[j]
  BY DEF ClickInv, ItemsInv
<1>4. /\ Clicked(x, y) = IF under = {} THEN NoButton ELSE On(Min(under), ButtonAt(x, y - Top(Min(under)), itemWidth[Min(under)]))
      /\ Seen(x, y) = IF seen = {} THEN NoButton ELSE On(Max(seen), ButtonAt(x, y - drawn.tops[Max(seen)], drawn.width))
  BY DEF Clicked, Seen
<1>5. /\ under \subseteq 1..n /\ seen \subseteq 1..Placed
      /\ \A i : i \in seen <=> i \in DOMAIN drawn.tops /\ Top(i) <= y /\ y < Top(i) + ItemHeight
      /\ \A i \in under : Top(i) < y /\ y < Top(i) + ItemHeight
  BY <1>1, <1>2
<1>6. /\ \A i \in 1..n : Top(i) \in Int
      /\ \A i \in 1..Placed : i \in 1..n /\ Top(i) \in Int
  BY <1>1
\* One item at most is at a place.
<1>7. ASSUME NEW i \in 1..Placed, NEW j \in 1..Placed, i # j, Top(i) <= y, y < Top(i) + ItemHeight
      PROVE  ~(Top(j) <= y /\ y < Top(j) + ItemHeight)
  <2>1. i < j \/ j < i
    BY <1>1, <1>7
  <2>2. /\ Top(i) = items[i] - region.top /\ Top(j) = items[j] - region.top
        /\ items[i] \in Int /\ items[j] \in Int
    BY <1>1, <1>6
  <2>3. items[i] + ItemHeight <= items[j] \/ items[j] + ItemHeight <= items[i]
    BY <1>3, <2>1
  <2>4. QED
    BY <1>1, <1>7, <2>2, <2>3
<1>8. under # {} => Min(under) \in under
  <2> SUFFICES ASSUME under # {} PROVE \E m \in under : \A j \in under : m <= j
    <3>1. under \subseteq Int
      BY <1>1, <1>5
    <3> HIDE DEF under
    <3>2. QED
      BY <3>1, MinIs
  <2>1. PICK k \in under : TRUE
    OBVIOUS
  <2>2. \A j \in under : j \in 1..Placed \/ j = n
    BY <1>1, <1>5
  <2>3. CASE \E m \in under : m \in 1..Placed
    <3>1. PICK m \in under : m \in 1..Placed
      BY <2>3
    <3>2. ASSUME NEW j \in under, j # m PROVE m <= j
      <4>1. /\ Top(m) <= y /\ y < Top(m) + ItemHeight /\ Top(j) <= y /\ y < Top(j) + ItemHeight
        <5>1. /\ m \in 1..n /\ Top(m) < y /\ y < Top(m) + ItemHeight
              /\ j \in 1..n /\ Top(j) < y /\ y < Top(j) + ItemHeight
          BY <1>5
        <5>2. Top(m) \in Int /\ Top(j) \in Int
          BY <1>6, <5>1
        <5>3. QED
          BY <5>1, <5>2
      <4>2. j \notin 1..Placed
        BY <1>7, <3>1, <3>2, <4>1
      <4>3. QED
        BY <1>1, <2>2, <3>1, <4>2
    <3>3. m <= m
      BY <1>1, <3>1
    <3>4. QED
      BY <3>2, <3>3
  <2>4. CASE \A m \in under : m \notin 1..Placed
    <3>1. k = n /\ \A j \in under : j = n
      BY <2>1, <2>2, <2>4
    <3>2. \A j \in under : k <= j
      BY <1>1, <3>1
    <3>3. QED
      BY <2>1, <3>2
  <2>5. QED
    BY <2>3, <2>4
\* An item that is not drawn where it is clicked has never been painted.
<1>9. ASSUME NEW i \in under, i \notin seen
      PROVE  On(i, ButtonAt(x, y - Top(i), itemWidth[i])) = NoButton
  <2>1. i \in 1..n /\ Top(i) \in Int /\ Top(i) < y /\ y < Top(i) + ItemHeight
    BY <1>1, <1>5
  <2>2. i \notin DOMAIN drawn.tops
    BY <1>5, <1>9, <2>1
  <2>3. itemWidth[i] = 0
    BY <1>1, <1>2, <2>1, <2>2
  <2>4. QED
    BY <2>1, <2>3, NoButtonThere DEF On
<1>10. CASE seen = {}
  <2>1. CASE under = {}
    BY <1>4, <1>10, <2>1
  <2>2. CASE under # {}
    <3>1. Min(under) \in under
      BY <1>8, <2>2
    <3> HIDE DEF under, seen
    <3>2. QED
      BY <1>4, <1>9, <1>10, <2>2, <3>1
  <2>3. QED
    BY <2>1, <2>2
<1>11. ASSUME NEW i \in seen PROVE Clicked(x, y) = Seen(x, y)
  <2>1. /\ i \in 1..Placed /\ i \in DOMAIN drawn.tops /\ Top(i) <= y /\ y < Top(i) + ItemHeight
        /\ drawn.tops[i] = Top(i) /\ itemWidth[i] = drawn.width /\ i \in Int
    BY <1>1, <1>2, <1>5
  <2>2. seen = {i}
    BY <1>5, <1>7, <2>1
  <2>3. Seen(x, y) = On(i, ButtonAt(x, y - Top(i), itemWidth[i]))
    <3> HIDE DEF seen, under
    <3>1. Max(seen) = i
      BY <2>1, <2>2, MaxOfOne
    <3>2. QED
      BY <1>4, <2>1, <2>2, <3>1
  <2>4. CASE Top(i) < y
    <3>1. \A j \in 1..(i - 1) : Top(j) < region.bottom
      <4> SUFFICES ASSUME NEW j \in 1..(i - 1) PROVE Top(j) < region.bottom
        OBVIOUS
      <4>1. j \in 1..Placed /\ j < i
        BY <1>1, <2>1
      <4>2. items[j] + ItemHeight <= items[i]
        BY <1>3, <2>1, <4>1
      <4>3. /\ Top(i) = items[i] - region.top /\ Top(j) = items[j] - region.top
            /\ items[i] \in Int /\ items[j] \in Int
        BY <1>1, <1>6, <2>1, <4>1
      <4>4. QED
        BY <1>1, <2>1, <4>2, <4>3
    <3>2. i \in under
      BY <1>1, <1>6, <2>1, <2>4, <3>1
    <3>3. \A k \in under : i <= k
      <4>1. under \subseteq Int
        BY <1>1, <1>5
      <4>2. ASSUME NEW k \in under, k < i PROVE FALSE
        <5>1. k \in 1..n /\ k \in 1..Placed
          BY <1>1, <1>5, <2>1, <4>2
        <5>2. Top(k) \in Int /\ Top(k) < y /\ y < Top(k) + ItemHeight
          BY <1>5, <1>6, <5>1
        <5>3. i # k
          BY <2>1, <4>1, <4>2
        <5>4. QED
          BY <1>7, <2>1, <5>1, <5>2, <5>3
      <4>3. i \in Int
        BY <2>1
      <4> HIDE DEF under, seen
      <4>4. ASSUME NEW k \in under PROVE i <= k
        <5>1. k \in Int /\ ~(k < i)
          BY <4>1, <4>2
        <5>2. QED
          BY <4>3, <5>1
      <4>5. QED
        BY <4>4
    <3>4. under \subseteq Int
      BY <1>1, <1>5
    <3> HIDE DEF under
    <3>5. Min(under) = i
      BY <3>2, <3>3, <3>4, MinIs
    <3>6. QED
      BY <1>4, <2>3, <3>2, <3>5
  <2>5. CASE Top(i) = y
    <3>1. Seen(x, y) = NoButton
      BY <1>1, <2>1, <2>3, <2>5, NoButtonThere DEF On
    <3>2. i \notin under
      BY <1>5, <2>1, <2>5
    <3>3. CASE under = {}
      BY <1>4, <3>1, <3>3
    <3>4. CASE under # {}
      <4>1. Min(under) \in under
        BY <1>8, <3>4
      <4>2. Min(under) \notin seen
        BY <2>2, <3>2, <4>1
      <4> HIDE DEF under, seen
      <4>3. QED
        BY <1>4, <1>9, <3>1, <3>4, <4>1, <4>2
    <3>5. QED
      BY <3>3, <3>4
  <2>6. QED
    BY <1>1, <1>6, <2>1, <2>4, <2>5
<1>12. QED
  BY <1>10, <1>11

\* A click does what the button says that is seen under the mouse, of the song it is
\* drawn with, for a list of any length, items and windows of any size, and whatever was
\* scrolled, resized or added since.
THEOREM ClicksHitWhatIsSeen == WindowSpec => []ClicksAreOnWhatIsSeen
<1>1. ClickInv => ClicksAreOnWhatIsSeen
  <2> SUFFICES ASSUME ClickInv, drawn # Invalid, ~drawn.torn, region.top >= 0,
                      NEW x \in 0..(paneWidth - 1), NEW y \in Ys
               PROVE  Clicked(x, y) = Seen(x, y)
    BY DEF ClicksAreOnWhatIsSeen
  <2>1. x \in Nat /\ y \in Nat /\ y < listHeight
    BY DEF ClickInv, ListTyped, Ys
  <2>2. QED
    BY <2>1, ClickHits
<1>2. QED
  BY <1>1, ClicksInvariant, PTL

-----------------------------------------------------------------------------
(***************************************************************************)
(* The files that are saved.                                               *)
(***************************************************************************)
\* What a packet of a file may be.
PacketSet == [song : Songs, part : Nat, sof : BOOLEAN, eof : BOOLEAN]

FileTyped ==
    /\ downloading \in [Clients -> [Songs -> BOOLEAN]]
    /\ clicks \in [Clients -> 0..MaxClicks]
    /\ requests \in [Clients -> Seq([type : {"request", "cancel"}, song : Songs])]
    /\ filesOut \in [Songs -> Clients \cup {NoClient}]
    /\ transferring \in [Songs -> [Clients -> BOOLEAN]]
    /\ transfer \in [Songs -> {"none", "open", "failed", "read", "send", "end", "done"}]
    /\ data \in [Songs -> 0..Parts] /\ f_SOF \in [Songs -> BOOLEAN]
    /\ packets \in [Clients -> Seq(PacketSet)]
    /\ filesIn \in [Clients -> [Songs -> Seq(Nat)]]
    /\ isOpen \in [Clients -> [Songs -> BOOLEAN]]

\* What the packets of a song in a queue are, when got parts of it have arrived
\* and sent were sent: the parts in between, each once and in order, the first
\* one of the file marked as such, and last the packet that ends the file.
InFlight(queue, s, got, sent, ended) ==
    /\ \A i \in 1..Len(queue) : queue[i].song = s =>
          /\ queue[i].eof => ended /\ queue[i].part = sent /\ (queue[i].sof <=> sent = 0)
          /\ ~queue[i].eof => queue[i].part \in (got + 1)..sent /\ (queue[i].sof <=> queue[i].part = 1)
    /\ \A i, j \in 1..Len(queue) : i < j /\ queue[i].song = s /\ queue[j].song = s =>
          ~queue[i].eof /\ (queue[j].eof \/ queue[i].part < queue[j].part)
    /\ \A k \in (got + 1)..sent : \E i \in 1..Len(queue) :
          queue[i].song = s /\ ~queue[i].eof /\ queue[i].part = k

Nothing(queue, s) == \A i \in 1..Len(queue) : queue[i].song # s

\* How far a song is sent to a client, and has arrived.
Sent(s)     == IF transfer[s] = "send" THEN data[s] - 1 ELSE data[s]
SentTo(c, s) == IF filesOut[s] = c THEN Sent(s) ELSE 0
Ended(c, s) == filesOut[s] = c /\ transfer[s] = "done"
Got(c, s)   == IF isOpen[c][s] THEN Len(filesIn[c][s]) ELSE 0
Closed(c, s) == filesIn[c][s] # NoFile /\ ~isOpen[c][s]

\* The last part is written twice.
Whole(n) == IF n = 0 THEN <<>> ELSE Song(n) \o <<n>>

SendInv ==
    \A s \in Songs :
        /\ transfer[s] = "none" <=> filesOut[s] = NoClient
        /\ transfer[s] \in {"none", "open", "failed"} => data[s] = 0
        /\ transfer[s] = "send" => data[s] > 0
        /\ f_SOF[s] <=> Sent(s) = 0
        /\ \A c \in Clients : transferring[s][c] =>
              filesOut[s] = c /\ (transfer[s] \in {"end", "done"} => data[s] = Parts)

Received(c, s) ==
    /\ Closed(c, s) =>
          Nothing(packets[c], s) /\ Ended(c, s) /\ filesIn[c][s] = Whole(data[s])
    /\ ~Closed(c, s) =>
          Got(c, s) <= SentTo(c, s) /\ InFlight(packets[c], s, Got(c, s), SentTo(c, s), Ended(c, s))
    /\ isOpen[c][s] => filesIn[c][s] = Song(Got(c, s)) /\ Got(c, s) > 0

ReceiveInv == \A c \in Clients, s \in Songs : Received(c, s)

FileInv == FileTyped /\ SendInv /\ ReceiveInv

-----------------------------------------------------------------------------
\* What a packet more, and a packet less, does to the packets of a song.
LEMMA AppendIs ==
    ASSUME NEW queue \in Seq(PacketSet), NEW p \in PacketSet
    PROVE  /\ Append(queue, p) \in Seq(PacketSet) /\ Len(queue) \in Nat
           /\ Len(Append(queue, p)) = Len(queue) + 1
           /\ \A i \in 1..Len(queue) : Append(queue, p)[i] = queue[i]
           /\ Append(queue, p)[Len(queue) + 1] = p
BY AppendProperties, LenProperties

\* What is left of a connection when its first packet was read.
LEMMA TailIs ==
    ASSUME NEW queue \in Seq(PacketSet), queue # <<>>
    PROVE  /\ Tail(queue) \in Seq(PacketSet) /\ Len(queue) \in Nat /\ Len(queue) > 0
           /\ Len(Tail(queue)) = Len(queue) - 1
           /\ \A i \in 1..(Len(queue) - 1) : Tail(queue)[i] = queue[i + 1]
           /\ Head(queue) = queue[1] /\ Head(queue) \in PacketSet
BY HeadTailProperties, EmptySeq, LenProperties

\* A packet of another song put at the end changes nothing for this song.
LEMMA OtherAppended ==
    ASSUME NEW queue \in Seq(PacketSet), NEW p \in PacketSet, NEW s, p.song # s,
           NEW got, NEW sent, NEW ended
    PROVE  /\ InFlight(queue, s, got, sent, ended) => InFlight(Append(queue, p), s, got, sent, ended)
           /\ Nothing(queue, s) => Nothing(Append(queue, p), s)
<1> DEFINE n == Len(queue)
           t == Append(queue, p)
<1>1. n \in Nat /\ Len(t) = n + 1 /\ (\A i \in 1..n : t[i] = queue[i]) /\ t[n + 1] = p
  BY AppendIs
<1> HIDE DEF n, t
<1>2. \A i \in 1..Len(t) : t[i].song = s => i \in 1..n /\ t[i] = queue[i]
  BY <1>1
<1>3. \A i \in 1..n : i \in 1..Len(t) /\ t[i] = queue[i]
  BY <1>1
<1>4. ASSUME InFlight(queue, s, got, sent, ended) PROVE InFlight(t, s, got, sent, ended)
  BY <1>2, <1>3, <1>4 DEF InFlight, n
<1>5. ASSUME Nothing(queue, s) PROVE Nothing(t, s)
  BY <1>2, <1>5 DEF Nothing, n
<1>6. QED
  BY <1>4, <1>5 DEF t

\* A packet of another song taken from the front changes nothing for this song.
LEMMA OtherTaken ==
    ASSUME NEW queue \in Seq(PacketSet), queue # <<>>, NEW s, Head(queue).song # s,
           NEW got, NEW sent, NEW ended
    PROVE  /\ InFlight(queue, s, got, sent, ended) => InFlight(Tail(queue), s, got, sent, ended)
           /\ Nothing(queue, s) => Nothing(Tail(queue), s)
<1> DEFINE n == Len(queue)
           t == Tail(queue)
<1>1. /\ n \in Nat /\ n > 0 /\ Len(t) = n - 1 /\ (\A i \in 1..(n - 1) : t[i] = queue[i + 1])
      /\ queue[1].song # s
  BY TailIs
<1> HIDE DEF n, t
<1>2. \A i \in 1..Len(t) : i + 1 \in 1..n /\ t[i] = queue[i + 1]
  BY <1>1
<1>3. \A i \in 1..n : queue[i].song = s => i - 1 \in 1..Len(t) /\ t[i - 1] = queue[i]
  BY <1>1
<1>4. ASSUME InFlight(queue, s, got, sent, ended) PROVE InFlight(t, s, got, sent, ended)
  <2>1. \A i \in 1..Len(t) : t[i].song = s =>
          /\ t[i].eof => ended /\ t[i].part = sent /\ (t[i].sof <=> sent = 0)
          /\ ~t[i].eof => t[i].part \in (got + 1)..sent /\ (t[i].sof <=> t[i].part = 1)
    BY <1>2, <1>4 DEF InFlight, n
  <2>2. \A i, j \in 1..Len(t) : i < j /\ t[i].song = s /\ t[j].song = s =>
          ~t[i].eof /\ (t[j].eof \/ t[i].part < t[j].part)
    <3> SUFFICES ASSUME NEW i \in 1..Len(t), NEW j \in 1..Len(t), i < j, t[i].song = s, t[j].song = s
                 PROVE  ~t[i].eof /\ (t[j].eof \/ t[i].part < t[j].part)
      OBVIOUS
    <3>1. i + 1 \in 1..n /\ j + 1 \in 1..n /\ i + 1 < j + 1 /\ t[i] = queue[i + 1] /\ t[j] = queue[j + 1]
      BY <1>1, <1>2
    <3>2. QED
      BY <1>4, <3>1 DEF InFlight, n
  <2>3. \A k \in (got + 1)..sent : \E i \in 1..Len(t) : t[i].song = s /\ ~t[i].eof /\ t[i].part = k
    <3> SUFFICES ASSUME NEW k \in (got + 1)..sent
                 PROVE  \E i \in 1..Len(t) : t[i].song = s /\ ~t[i].eof /\ t[i].part = k
      OBVIOUS
    <3>1. PICK i \in 1..n : queue[i].song = s /\ ~queue[i].eof /\ queue[i].part = k
      BY <1>4 DEF InFlight, n
    <3>2. QED
      BY <1>3, <3>1
  <2>4. QED
    BY <2>1, <2>2, <2>3 DEF InFlight
<1>5. ASSUME Nothing(queue, s) PROVE Nothing(t, s)
  BY <1>2, <1>5 DEF Nothing, n
<1>6. QED
  BY <1>4, <1>5 DEF t

\* The next part of a song, put at the end, continues what is in flight.
LEMMA PartAppended ==
    ASSUME NEW queue \in Seq(PacketSet), NEW p \in PacketSet,
           NEW got \in Nat, NEW sent \in Nat, got <= sent, InFlight(queue, p.song, got, sent, FALSE),
           ~p.eof, p.part = sent + 1, p.sof <=> sent = 0
    PROVE  InFlight(Append(queue, p), p.song, got, sent + 1, FALSE)
<1> DEFINE n == Len(queue)
           t == Append(queue, p)
           s == p.song
<1>1. n \in Nat /\ Len(t) = n + 1 /\ (\A i \in 1..n : t[i] = queue[i]) /\ t[n + 1] = p
  BY AppendIs
<1>2. \A i \in 1..n : queue[i] \in PacketSet
  BY ElementOfSeq
<1> HIDE DEF n, t
<1>3. \A i \in 1..Len(t) : i \in 1..n \/ i = n + 1
  BY <1>1
<1>4. \A i \in 1..n : queue[i].song = s =>
          ~queue[i].eof /\ queue[i].part \in (got + 1)..sent /\ (queue[i].sof <=> queue[i].part = 1)
  BY DEF InFlight, n
<1>5. \A i \in 1..Len(t) : t[i].song = s =>
          ~t[i].eof /\ t[i].part \in (got + 1)..(sent + 1) /\ (t[i].sof <=> t[i].part = 1)
  BY <1>1, <1>3, <1>4
<1>6. \A i, j \in 1..Len(t) : i < j /\ t[i].song = s /\ t[j].song = s => t[i].part < t[j].part
  <2> SUFFICES ASSUME NEW i \in 1..Len(t), NEW j \in 1..Len(t), i < j, t[i].song = s, t[j].song = s
               PROVE  t[i].part < t[j].part
    OBVIOUS
  <2>1. i \in 1..n /\ t[i] = queue[i] /\ t[i].part \in (got + 1)..sent
    BY <1>1, <1>4
  <2>2. CASE j = n + 1
    BY <1>1, <2>1, <2>2
  <2>3. CASE j \in 1..n
    BY <1>1, <1>4, <2>1, <2>3 DEF InFlight, n
  <2>4. QED
    BY <1>3, <2>2, <2>3
<1>7. \A k \in (got + 1)..(sent + 1) : \E i \in 1..Len(t) : t[i].song = s /\ ~t[i].eof /\ t[i].part = k
  <2> SUFFICES ASSUME NEW k \in (got + 1)..(sent + 1)
               PROVE  \E i \in 1..Len(t) : t[i].song = s /\ ~t[i].eof /\ t[i].part = k
    OBVIOUS
  <2>1. CASE k = sent + 1
    BY <1>1, <2>1
  <2>2. CASE k # sent + 1
    <3>1. PICK i \in 1..n : queue[i].song = s /\ ~queue[i].eof /\ queue[i].part = k
      BY <2>2 DEF InFlight, n
    <3>2. QED
      BY <1>1, <3>1
  <2>3. QED
    BY <2>1, <2>2
<1>8. QED
  BY <1>5, <1>6, <1>7 DEF InFlight, t

\* The last packet of a song, put at the end, ends what is in flight.
LEMMA EndAppended ==
    ASSUME NEW queue \in Seq(PacketSet), NEW p \in PacketSet,
           NEW got \in Nat, NEW sent \in Nat, InFlight(queue, p.song, got, sent, FALSE),
           p.eof, p.part = sent, p.sof <=> sent = 0
    PROVE  InFlight(Append(queue, p), p.song, got, sent, TRUE)
<1> DEFINE n == Len(queue)
           t == Append(queue, p)
           s == p.song
<1>1. n \in Nat /\ Len(t) = n + 1 /\ (\A i \in 1..n : t[i] = queue[i]) /\ t[n + 1] = p
  BY AppendIs
<1> HIDE DEF n, t
<1>2. \A i \in 1..Len(t) : i \in 1..n \/ i = n + 1
  BY <1>1
<1>3. \A i \in 1..n : queue[i].song = s =>
          ~queue[i].eof /\ queue[i].part \in (got + 1)..sent /\ (queue[i].sof <=> queue[i].part = 1)
  BY DEF InFlight, n
<1>4. \A i \in 1..Len(t) : t[i].song = s =>
          /\ t[i].eof => t[i].part = sent /\ (t[i].sof <=> sent = 0)
          /\ ~t[i].eof => t[i].part \in (got + 1)..sent /\ (t[i].sof <=> t[i].part = 1)
  BY <1>1, <1>2, <1>3
<1>5. \A i, j \in 1..Len(t) : i < j /\ t[i].song = s /\ t[j].song = s =>
          ~t[i].eof /\ (t[j].eof \/ t[i].part < t[j].part)
  <2> SUFFICES ASSUME NEW i \in 1..Len(t), NEW j \in 1..Len(t), i < j, t[i].song = s, t[j].song = s
               PROVE  ~t[i].eof /\ (t[j].eof \/ t[i].part < t[j].part)
    OBVIOUS
  <2>1. i \in 1..n /\ t[i] = queue[i] /\ ~t[i].eof
    BY <1>1, <1>3
  <2>2. CASE j = n + 1
    BY <1>1, <2>1, <2>2
  <2>3. CASE j \in 1..n
    BY <1>1, <1>3, <2>1, <2>3 DEF InFlight, n
  <2>4. QED
    BY <1>2, <2>2, <2>3
<1>6. \A k \in (got + 1)..sent : \E i \in 1..Len(t) : t[i].song = s /\ ~t[i].eof /\ t[i].part = k
  <2> SUFFICES ASSUME NEW k \in (got + 1)..sent
               PROVE  \E i \in 1..Len(t) : t[i].song = s /\ ~t[i].eof /\ t[i].part = k
    OBVIOUS
  <2>1. PICK i \in 1..n : queue[i].song = s /\ ~queue[i].eof /\ queue[i].part = k
    BY DEF InFlight, n
  <2>2. QED
    BY <1>1, <2>1
<1>7. QED
  BY <1>4, <1>5, <1>6 DEF InFlight, t

\* The first packet is the next part, for nothing is left out.
LEMMA PartTaken ==
    ASSUME NEW queue \in Seq(PacketSet), queue # <<>>, ~Head(queue).eof,
           NEW got \in Nat, NEW sent \in Nat, NEW ended, InFlight(queue, Head(queue).song, got, sent, ended)
    PROVE  /\ Head(queue).part = got + 1 /\ (Head(queue).sof <=> got = 0) /\ got + 1 <= sent
           /\ InFlight(Tail(queue), Head(queue).song, got + 1, sent, ended)
<1> DEFINE n == Len(queue)
           t == Tail(queue)
           p == Head(queue)
           s == p.song
<1>1. /\ n \in Nat /\ n > 0 /\ Len(t) = n - 1 /\ (\A i \in 1..(n - 1) : t[i] = queue[i + 1])
      /\ queue[1] = p /\ p \in PacketSet
  BY TailIs
<1>2. \A i \in 1..n : queue[i] \in PacketSet
  BY ElementOfSeq
<1> HIDE DEF n, t, p
<1>3. 1 \in 1..n /\ ~p.eof
  BY <1>1 DEF p
<1>4. /\ \A i \in 1..n : queue[i].song = s =>
             /\ queue[i].eof => ended /\ queue[i].part = sent /\ (queue[i].sof <=> sent = 0)
             /\ ~queue[i].eof => queue[i].part \in (got + 1)..sent /\ (queue[i].sof <=> queue[i].part = 1)
      /\ \A i, j \in 1..n : i < j /\ queue[i].song = s /\ queue[j].song = s =>
             ~queue[i].eof /\ (queue[j].eof \/ queue[i].part < queue[j].part)
      /\ \A k \in (got + 1)..sent : \E i \in 1..n : queue[i].song = s /\ ~queue[i].eof /\ queue[i].part = k
  BY DEF InFlight, n, p
<1>5. p.part \in (got + 1)..sent /\ (p.sof <=> p.part = 1)
  BY <1>1, <1>3, <1>4
<1>6. p.part = got + 1
  <2>1. got + 1 \in (got + 1)..sent
    BY <1>5
  <2>2. PICK i \in 1..n : queue[i].song = s /\ ~queue[i].eof /\ queue[i].part = got + 1
    BY <1>4, <2>1
  <2>3. CASE i = 1
    BY <1>1, <2>2, <2>3
  <2>4. CASE i > 1
    <3>1. p.part < queue[i].part
      BY <1>1, <1>3, <1>4, <2>2, <2>4
    <3>2. QED
      BY <1>5, <2>2, <3>1
  <2>5. QED
    BY <2>3, <2>4
<1>7. ASSUME NEW i \in 1..Len(t), t[i].song = s
      PROVE  /\ t[i].eof => ended /\ t[i].part = sent /\ (t[i].sof <=> sent = 0)
             /\ ~t[i].eof => t[i].part \in (got + 2)..sent /\ (t[i].sof <=> t[i].part = 1)
  <2>1. i + 1 \in 1..n /\ 1 < i + 1 /\ t[i] = queue[i + 1]
    BY <1>1
  <2>2. t[i].eof \/ p.part < t[i].part
    <3>1. queue[1].song = s /\ queue[i + 1].song = s
      BY <1>1, <1>7, <2>1
    <3>2. queue[i + 1].eof \/ queue[1].part < queue[i + 1].part
      BY <1>3, <1>4, <2>1, <3>1
    <3>3. QED
      BY <1>1, <2>1, <3>2
  <2>3. /\ t[i].eof => ended /\ t[i].part = sent /\ (t[i].sof <=> sent = 0)
        /\ ~t[i].eof => t[i].part \in (got + 1)..sent /\ (t[i].sof <=> t[i].part = 1)
    BY <1>4, <1>7, <2>1
  <2>4. QED
    BY <1>6, <2>2, <2>3
<1>8. ASSUME NEW i \in 1..Len(t), NEW j \in 1..Len(t), i < j, t[i].song = s, t[j].song = s
      PROVE  ~t[i].eof /\ (t[j].eof \/ t[i].part < t[j].part)
  <2>1. i + 1 \in 1..n /\ j + 1 \in 1..n /\ i + 1 < j + 1 /\ t[i] = queue[i + 1] /\ t[j] = queue[j + 1]
    BY <1>1, <1>8
  <2>2. QED
    BY <1>4, <1>8, <2>1
<1>9. ASSUME NEW k \in (got + 2)..sent
      PROVE  \E i \in 1..Len(t) : t[i].song = s /\ ~t[i].eof /\ t[i].part = k
  <2>1. k \in (got + 1)..sent /\ k # got + 1
    OBVIOUS
  <2>2. PICK i \in 1..n : queue[i].song = s /\ ~queue[i].eof /\ queue[i].part = k
    BY <1>4, <2>1
  <2>3. i # 1
    BY <1>1, <1>6, <2>1, <2>2
  <2>4. i - 1 \in 1..Len(t) /\ t[i - 1] = queue[i]
    BY <1>1, <2>3
  <2>5. QED
    BY <2>2, <2>4
<1>10. (got + 1) + 1 = got + 2
  OBVIOUS
<1>11. InFlight(t, s, got + 1, sent, ended)
  BY <1>7, <1>8, <1>9, <1>10 DEF InFlight
<1>12. QED
  BY <1>5, <1>6, <1>11 DEF p, t

\* The packet that ends the file comes when everything else has arrived.
LEMMA EndTaken ==
    ASSUME NEW queue \in Seq(PacketSet), queue # <<>>, Head(queue).eof,
           NEW got \in Nat, NEW sent \in Nat, got <= sent, NEW ended \in BOOLEAN,
           InFlight(queue, Head(queue).song, got, sent, ended)
    PROVE  /\ ended /\ got = sent /\ Head(queue).part = sent /\ (Head(queue).sof <=> sent = 0)
           /\ Nothing(Tail(queue), Head(queue).song)
<1> DEFINE n == Len(queue)
           t == Tail(queue)
           p == Head(queue)
           s == p.song
<1>1. /\ n \in Nat /\ n > 0 /\ Len(t) = n - 1 /\ (\A i \in 1..(n - 1) : t[i] = queue[i + 1])
      /\ queue[1] = p /\ p \in PacketSet
  BY TailIs
<1> HIDE DEF n, t, p
<1>2. 1 \in 1..n /\ p.eof
  BY <1>1 DEF p
<1>3. /\ \A i \in 1..n : queue[i].song = s =>
             (queue[i].eof => ended /\ queue[i].part = sent /\ (queue[i].sof <=> sent = 0))
      /\ \A i, j \in 1..n : i < j /\ queue[i].song = s /\ queue[j].song = s => ~queue[i].eof
      /\ \A k \in (got + 1)..sent : \E i \in 1..n : queue[i].song = s /\ ~queue[i].eof /\ queue[i].part = k
  BY DEF InFlight, n, p
<1>4. \A i \in 1..n : queue[i].song = s => i = 1
  BY <1>1, <1>2, <1>3
<1>5. got = sent
  <2>1. SUFFICES ASSUME got < sent PROVE FALSE
    OBVIOUS
  <2>2. PICK i \in 1..n : queue[i].song = s /\ ~queue[i].eof
    BY <1>3, <2>1
  <2>3. QED
    BY <1>1, <1>2, <1>4, <2>2
<1>6. Nothing(t, s)
  BY <1>1, <1>4 DEF Nothing
<1>7. QED
  BY <1>1, <1>2, <1>3, <1>5, <1>6 DEF p, t
-----------------------------------------------------------------------------
\* A file grows at its end, and what was written before stays.
LEMMA OneMore ==
    ASSUME NEW q \in Seq(Nat), NEW one \in Seq(Nat), Len(one) = 1
    PROVE  /\ q \o one \in Seq(Nat) /\ Len(q \o one) = Len(q) + 1
           /\ \A i \in 1..(Len(q) + 1) : (q \o one)[i] = IF i <= Len(q) THEN q[i] ELSE one[i - Len(q)]
<1>1. /\ q \o one \in Seq(Nat)
      /\ Len(q \o one) = Len(q) + Len(one)
      /\ \A i \in 1..(Len(q) + Len(one)) : (q \o one)[i] = IF i <= Len(q) THEN q[i] ELSE one[i - Len(q)]
  BY ConcatProperties, Zenon
<1>2. QED
  BY <1>1

\* The first n parts of a song: their types, their number, and one more part.
LEMMA SongIs ==
    ASSUME NEW n \in Nat
    PROVE  /\ Song(n) \in Seq(Nat) /\ Len(Song(n)) = n
           /\ Song(n) \o <<n + 1>> = Song(n + 1)
           /\ <<>> \o <<n>> = <<n>> /\ Song(1) = <<1>> /\ Song(n) \o <<n>> \in Seq(Nat)
           /\ n > 0 => Song(n) \o <<n>> # NoFile
<1>1. /\ Song(n) \in Seq(Nat) /\ Len(Song(n)) = n /\ (\A i \in 1..n : Song(n)[i] = i)
      /\ Song(n + 1) \in Seq(Nat) /\ Len(Song(n + 1)) = n + 1 /\ (\A i \in 1..(n + 1) : Song(n + 1)[i] = i)
  BY DEF Song
<1>2. \A k \in Nat : <<k>> \in Seq(Nat) /\ Len(<<k>>) = 1 /\ <<k>>[1] = k
  OBVIOUS
<1>3. ASSUME NEW k \in Nat
      PROVE  /\ Song(n) \o <<k>> \in Seq(Nat) /\ Len(Song(n) \o <<k>>) = n + 1
             /\ \A i \in 1..(n + 1) : (Song(n) \o <<k>>)[i] = IF i <= n THEN i ELSE k
  <2> DEFINE one == <<k>>
  <2>1. one \in Seq(Nat) /\ Len(one) = 1 /\ one[1] = k
    BY <1>2
  <2> HIDE DEF one
  <2>2. /\ Song(n) \o one \in Seq(Nat) /\ Len(Song(n) \o one) = n + 1
        /\ \A i \in 1..(n + 1) : (Song(n) \o one)[i] = IF i <= n THEN Song(n)[i] ELSE one[i - n]
    BY <1>1, <2>1, OneMore
  <2>3. \A i \in 1..(n + 1) : (Song(n) \o one)[i] = IF i <= n THEN i ELSE k
    BY <1>1, <2>1, <2>2
  <2>4. QED
    BY <2>2, <2>3 DEF one
<1>4. Song(n) \o <<n + 1>> = Song(n + 1)
  <2> DEFINE t == Song(n) \o <<n + 1>>
  <2>1. t \in Seq(Nat) /\ Len(t) = n + 1 /\ \A i \in 1..(n + 1) : t[i] = i
    BY <1>3
  <2> HIDE DEF t
  <2>2. t = Song(n + 1)
    BY <1>1, <2>1, SeqEqual
  <2>3. QED
    BY <2>2 DEF t
<1>5. <<>> \o <<n>> = <<n>>
  BY <1>2, ConcatEmptySeq
<1>6. Song(1) = <<1>>
  BY DEF Song
<1>7. n > 0 => Song(n) \o <<n>> # NoFile
  <2> DEFINE t == Song(n) \o <<n>>
  <2>1. Len(t) = n + 1
    BY <1>3
  <2> HIDE DEF t
  <2>2. t = <<0>> => n = 0
    BY <2>1
  <2>3. QED
    BY <2>2 DEF t, NoFile
<1>8. QED
  BY <1>1, <1>3, <1>4, <1>5, <1>6, <1>7
-----------------------------------------------------------------------------
\* Of two products by the same positive number the smaller has the smaller factor.
LEMMA Cancelled ==
    ASSUME NEW a \in Int, NEW b \in Int, NEW n \in Nat \ {0}
    PROVE  (a * n < b * n => a < b) /\ (a * n <= b * n => a <= b)
<1>1. a >= b => a * n >= b * n
  <2>1. ASSUME a >= b PROVE a * n >= b * n
    <3>1. PICK d \in Nat : a = b + d
      BY <2>1
    <3>2. a * n = b * n + d * n /\ d * n \in Nat /\ b * n \in Int
      BY <3>1
    <3>3. QED
      BY <3>2
  <2>2. QED
    BY <2>1
<1>2. a > b => a * n > b * n
  <2>1. ASSUME a > b PROVE a * n > b * n
    <3>1. PICK d \in Nat \ {0} : a = b + d
      BY <2>1
    <3>2. a * n = b * n + d * n /\ d * n \in Nat \ {0} /\ b * n \in Int
      BY <3>1, ProductIsInt
    <3>3. QED
      BY <3>2
  <2>2. QED
    BY <2>1
<1>3. a * n \in Int /\ b * n \in Int
  OBVIOUS
<1>4. QED
  BY <1>1, <1>2, <1>3

\* What a quotient is, rounded down.
LEMMA QuotientIs ==
    ASSUME NEW a \in Int, NEW n \in Nat \ {0}
    PROVE  a \div n \in Int /\ (a \div n) * n <= a /\ a < (a \div n) * n + n
OBVIOUS

\* It is at least whatever goes into it, and at most what does not exceed it.
LEMMA QuotientBounds ==
    ASSUME NEW a \in Int, NEW n \in Nat \ {0}, NEW k \in Int
    PROVE  /\ k * n <= a => k <= a \div n
           /\ a <= k * n => a \div n <= k
<1> DEFINE q == a \div n
<1>1. q \in Int /\ q * n <= a /\ a < q * n + n
  BY QuotientIs
<1> HIDE DEF q
<1>2. k * n \in Int /\ q * n \in Int /\ (q + 1) * n = q * n + n /\ q + 1 \in Int
  BY <1>1
<1>3. k * n <= a => k * n < (q + 1) * n
  BY <1>1, <1>2
<1>4. k * n < (q + 1) * n => k < q + 1
  BY <1>2, Cancelled
<1>5. a <= k * n => q * n <= k * n
  BY <1>1, <1>2
<1>6. q * n <= k * n => q <= k
  BY <1>1, Cancelled
<1>7. (k <= q /\ q <= k) \/ k < q \/ q < k
  BY <1>1
<1>8. QED
  BY <1>1, <1>3, <1>4, <1>5, <1>6 DEF q

\* Where the pane has more pixels than the list needs positions, the tracker of a list
\* that is longer than the pane is a pixel high or more and leaves a way to go; and a
\* pixel of the way moves the list by no more than what a song leaves of the pane.
LEMMA PixelIsEnough ==
    ASSUME NEW height \in Nat \ {0}, NEW item \in Nat \ {0}, NEW content \in Nat,
           content > height, content <= height * (height - item),
           NEW tracker, tracker = (height * height) \div content
    PROVE  /\ tracker \in 1..(height - 1)
           /\ content - height <= (height - item) * (height - tracker)
<1> DEFINE room == height - item
           way  == height - tracker
           over == content - height
<1>1. content \in Nat \ {0} /\ height * height \in Nat \ {0} /\ room \in Int /\ over \in Nat \ {0}
  BY ProductIsInt
<1>2. tracker \in Int /\ tracker * content <= height * height
  BY <1>1, QuotientIs
<1>3. 1 <= tracker
  <2>1. height * (height - item) = height * height - height * item /\ height * item \in Nat \ {0}
    BY ProductIsInt
  <2>2. 1 * content <= height * height
    BY <1>1, <2>1
  <2>3. QED
    BY <1>1, <2>2, QuotientBounds
<1>4. tracker < height
  <2>1. height * height < content * height
    BY <1>1, Cancelled
  <2>2. tracker * content < height * content
    BY <1>1, <1>2, <2>1
  <2>3. QED
    BY <1>1, <1>2, <2>2, Cancelled
<1>5. way \in Nat \ {0}
  BY <1>2, <1>4
<1>6. over * height <= way * content
  <2>1. /\ over * height = content * height - height * height
        /\ way * content = content * height - tracker * content
        /\ content * height \in Int /\ tracker * content \in Int
    BY <1>1, <1>2
  <2>2. QED
    BY <1>1, <1>2, <2>1
<1>7. way * content <= (room * way) * height
  <2>1. \A a, b \in Int : a <= b => way * a <= way * b
    <3> SUFFICES ASSUME NEW a \in Int, NEW b \in Int, a <= b PROVE way * a <= way * b
      OBVIOUS
    <3>1. PICK d \in Nat : b = a + d
      OBVIOUS
    <3> HIDE DEF way
    <3>2. way * b = way * a + way * d /\ way * d \in Nat /\ way * a \in Int
      BY <1>5, <3>1
    <3>3. QED
      BY <3>2
  <2>2. content <= height * room /\ height * room \in Int
    BY <1>1
  <2>3. way * content <= way * (height * room)
    BY <1>1, <2>1, <2>2
  <2> HIDE DEF way, room
  <2>4. way * (height * room) = (room * way) * height
    BY <1>1, <1>5
  <2>5. QED
    BY <2>3, <2>4
<1> HIDE DEF way, room, over
<1>8. over * height <= (room * way) * height
  <2>1. over * height \in Int /\ way * content \in Int /\ (room * way) * height \in Int
    BY <1>1, <1>5
  <2>2. QED
    BY <1>6, <1>7, <2>1
<1>9. over <= room * way
  <2>1. room * way \in Int /\ over \in Int
    BY <1>1, <1>5
  <2>2. QED
    BY <1>8, <2>1, Cancelled
<1>10. QED
  BY <1>2, <1>3, <1>4, <1>9 DEF way, room, over

\* Then some pixel brings a song into view, wherever in the list it is: the list is
\* moved up to it, and not further than leaves it in the pane.
LEMMA SomePixelShows ==
    ASSUME NEW way \in Nat \ {0}, NEW over \in Nat \ {0}, NEW room \in Int, over <= room * way,
           NEW place \in Nat, place <= over + room
    PROVE  \E y \in 0..way : LET top == IF y = way THEN over ELSE (y * over) \div way
                             IN  top \in Nat /\ top <= place /\ place - room <= top
<1>1. CASE place >= over
  BY <1>1
<1>2. CASE place < over
  <2> DEFINE y == (place * way) \div over
             top == (y * over) \div way
  <2>1. place * way \in Nat /\ over * way \in Nat /\ room * way \in Int
    OBVIOUS
  <2>2. y \in Int /\ y * over <= place * way /\ place * way < y * over + over
    BY <2>1, QuotientIs
  <2> HIDE DEF y
  <2>3. 0 <= y
    <3>1. 0 * over <= place * way
      BY <2>1
    <3>2. QED
      BY <2>1, <3>1, QuotientBounds DEF y
  <2>4. y < way
    <3>1. place * way < over * way
      <4>1. PICK d \in Nat \ {0} : over = place + d
        <5>1. over - place \in Nat \ {0} /\ over = place + (over - place)
          BY <1>2
        <5>2. QED
          BY <5>1
      <4>2. over * way = place * way + d * way /\ d * way \in Nat \ {0}
        BY <4>1, ProductIsInt
      <4>3. QED
        BY <2>1, <4>2
    <3>2. y * over < way * over
      <4>1. y * over \in Int /\ way * over = over * way
        BY <2>2
      <4>2. QED
        BY <2>1, <2>2, <3>1, <4>1
    <3>3. QED
      BY <2>2, <3>2, Cancelled
  <2>5. y * over \in Int
    BY <2>2
  <2>6. top <= place
    BY <2>2, <2>5, QuotientBounds
  <2>7. place - room <= top
    <3>1. (place - room) * way = place * way - room * way
      OBVIOUS
    <3>2. (place - room) * way <= y * over /\ place - room \in Int
      BY <2>1, <2>2, <2>5, <3>1
    <3>3. QED
      BY <2>5, <3>2, QuotientBounds
  <2>8. 0 <= top /\ top \in Int
    <3>1. 0 * way <= y * over
      BY <2>2, <2>3
    <3>2. QED
      BY <2>5, <3>1, QuotientBounds, QuotientIs
  <2> HIDE DEF top
  <2>9. y \in 0..way /\ y # way /\ top \in Nat
    BY <2>2, <2>3, <2>4, <2>8
  <2>10. QED
    BY <2>6, <2>7, <2>9 DEF top
<1>3. QED
  BY <1>1, <1>2

\* The songs of the list, one below the other from its top, and what was added up of
\* their heights while the last one is added.
SizedInv ==
    /\ Len(items) <= MaxSongs /\ (adding # "idle" => Len(items) > 0)
    /\ contentSize = (IF adding = "idle" THEN Len(items) ELSE Len(items) - 1) * ItemHeight
    /\ \A i \in 1..Placed : items[i] = (i - 1) * ItemHeight
    /\ Len(items) > (IF adding = "total" THEN 1 ELSE 0)
          => totalHeight = (IF adding = "total" THEN Len(items) - 1 ELSE Len(items)) * ItemHeight

\* The tracker, once it is painted, is the part of its bar that the pane is of the list.
BarInv ==
    /\ listHeight = Places(Column, windowHeight)[2].size
    /\ ~barDirty /\ contentSize > listHeight /\ currentPosition # NaN
          => trackerRect.bottom - trackerRect.top = (listHeight * listHeight) \div contentSize

\* A song that is added comes below the others.
LEMMA AddKeepsSized == ListTyped /\ SizedInv /\ addRemoteFile => SizedInv'
<1> SUFFICES ASSUME ListTyped, SizedInv, addRemoteFile PROVE SizedInv'
  OBVIOUS
<1> DEFINE n == Len(items)
<1>1. /\ items \in Seq(Int) /\ n \in Nat /\ totalHeight \in Int /\ ItemHeight \in Nat /\ MaxSongs \in Nat
      /\ \A k \in Nat : k * ItemHeight \in Nat /\ (k + 1) * ItemHeight = k * ItemHeight + ItemHeight
  BY ItemAssumption DEF ListTyped
<1>2. 0 * ItemHeight = 0 /\ 1 * ItemHeight = ItemHeight /\ (n + 1) - 1 = n /\ (1 - 1) * ItemHeight = 0
  BY <1>1
<1>3. CASE AddPush
  <2>1. /\ adding = "idle" /\ adding' = "total" /\ n < MaxSongs
        /\ items' = Append(items, 0) /\ UNCHANGED <<totalHeight, contentSize>>
    BY <1>3 DEF AddPush, AddGoto, NewItem, pane, bar
  <2>2. Len(items') = n + 1 /\ \A i \in 1..n : items'[i] = items[i]
    BY <1>1, <2>1
  <2>3. Placed = n /\ Placed' = n
    BY <1>1, <2>1, <2>2 DEF Placed, Unplaced
  <2>4. contentSize = n * ItemHeight /\ (n > 0 => totalHeight = n * ItemHeight)
    BY <2>1 DEF SizedInv
  <2> HIDE DEF n
  <2>5. Len(items') <= MaxSongs /\ Len(items') > 0 /\ Len(items') - 1 = n /\ (Len(items') > 1 <=> n > 0)
    BY <1>1, <2>1, <2>2
  <2>6. QED
    BY <2>1, <2>2, <2>3, <2>4, <2>5 DEF SizedInv
<1>4. CASE AddTotal
  <2>1. /\ adding = "total" /\ adding' = "move" /\ UNCHANGED <<items, contentSize>>
        /\ totalHeight' = ItemHeight + (IF n = 1 THEN 0 ELSE totalHeight)
    BY <1>4 DEF AddTotal, AddGoto, songs, bar
  <2>2. Placed = n - 1 /\ Placed' = n - 1
    BY <2>1 DEF Placed, Unplaced
  <2>3. n > 0 /\ (n > 1 => totalHeight = (n - 1) * ItemHeight)
    BY <2>1 DEF SizedInv
  <2>4. totalHeight' = n * ItemHeight
    <3> HIDE DEF n
    <3>0. n \in Nat /\ n > 0
      BY <1>1, <2>3
    <3>1. PICK k \in Nat : n = k + 1
      <4>1. n - 1 \in Nat /\ n = (n - 1) + 1
        BY <3>0
      <4>2. QED
        BY <4>1
    <3>2. (n - 1) * ItemHeight = k * ItemHeight /\ n * ItemHeight = k * ItemHeight + ItemHeight
      BY <1>1, <3>1
    <3>3. QED
      BY <1>1, <1>2, <2>1, <2>3, <3>1, <3>2
  <2>5. QED
    BY <2>1, <2>2, <2>3, <2>4 DEF SizedInv
<1>5. CASE AddMove
  <2>1. /\ adding = "move" /\ adding' = "content" /\ UNCHANGED <<totalHeight, contentSize>>
        /\ items' = [items EXCEPT ![n] = totalHeight - ItemHeight]
    BY <1>5 DEF AddMove, AddGoto, pane, bar
  <2>2. n > 0 /\ totalHeight = n * ItemHeight
    BY <1>1, <2>1 DEF SizedInv
  <2>3. /\ Len(items') = n /\ items'[n] = totalHeight - ItemHeight
        /\ \A i \in 1..n : i # n => items'[i] = items[i]
    <3>1. ASSUME NEW s \in Seq(Int), NEW k \in 1..Len(s), NEW v \in Int
          PROVE  /\ Len([s EXCEPT ![k] = v]) = Len(s) /\ [s EXCEPT ![k] = v][k] = v
                 /\ \A i \in 1..Len(s) : i # k => [s EXCEPT ![k] = v][i] = s[i]
      OBVIOUS
    <3>2. QED
      BY <1>1, <2>1, <2>2, <3>1
  <2>4. Placed = n - 1 /\ Placed' = n
    BY <2>1, <2>3 DEF Placed, Unplaced
  <2>5. items'[n] = (n - 1) * ItemHeight
    <3> HIDE DEF n
    <3>0. n \in Nat /\ n > 0
      BY <1>1, <2>2
    <3>1. PICK k \in Nat : n = k + 1
      <4>1. n - 1 \in Nat /\ n = (n - 1) + 1
        BY <3>0
      <4>2. QED
        BY <4>1
    <3>2. (n - 1) * ItemHeight = k * ItemHeight /\ n * ItemHeight = k * ItemHeight + ItemHeight
      BY <1>1, <3>1
    <3>3. QED
      BY <1>1, <2>2, <2>3, <3>2
  <2>6. \A i \in 1..(n - 1) : items[i] = (i - 1) * ItemHeight
    BY <2>4 DEF SizedInv
  <2>7. n <= MaxSongs /\ contentSize = (n - 1) * ItemHeight
    BY <2>1 DEF SizedInv
  <2> HIDE DEF n
  <2>8. ASSUME NEW i \in 1..n PROVE items'[i] = (i - 1) * ItemHeight
    <3>1. CASE i = n
      BY <2>5, <3>1
    <3>2. CASE i # n
      BY <1>1, <2>3, <2>6, <3>2
    <3>3. QED
      BY <3>1, <3>2
  <2>9. QED
    BY <2>1, <2>2, <2>3, <2>4, <2>7, <2>8 DEF SizedInv
<1>6. CASE AddContent
  <2>1. /\ adding = "content" /\ adding' = "idle" /\ UNCHANGED <<items, totalHeight>>
        /\ contentSize' = contentSize + ItemHeight
    BY <1>6 DEF AddContent, AddGoto, songs, pane
  <2>2. Placed = n /\ Placed' = n
    BY <2>1 DEF Placed, Unplaced
  <2>3. n > 0 /\ n <= MaxSongs /\ contentSize = (n - 1) * ItemHeight /\ totalHeight = n * ItemHeight
    BY <1>1, <2>1 DEF SizedInv
  <2>4. contentSize' = n * ItemHeight
    <3> HIDE DEF n
    <3>0. n \in Nat /\ n > 0
      BY <1>1, <2>3
    <3>1. PICK k \in Nat : n = k + 1
      <4>1. n - 1 \in Nat /\ n = (n - 1) + 1
        BY <3>0
      <4>2. QED
        BY <4>1
    <3>2. (n - 1) * ItemHeight = k * ItemHeight /\ n * ItemHeight = k * ItemHeight + ItemHeight
      BY <1>1, <3>1
    <3>3. QED
      BY <1>1, <2>1, <2>3, <3>2
  <2>5. QED
    BY <2>1, <2>2, <2>3, <2>4 DEF SizedInv
<1>7. QED
  BY <1>3, <1>4, <1>5, <1>6 DEF addRemoteFile

\* The window scrolls, sizes and paints the list, and adds nothing to it.
LEMMA MessageKeepsSized == SizedInv /\ ListMessage => SizedInv'
BY DEF ListMessage, PaintBar, PaintPane, ReleaseBar, PressBar, DragBar, setTrackPosition, ClickPane, Resize,
       songs, pane, bar, calculateTrackerSize, SizedInv, Placed, Unplaced

\* Painting the bar makes its tracker as long as that, unless it stands at 0/0.
LEMMA PaintSizesTracker == ListTyped /\ BarInv /\ PaintBar => BarInv'
<1> SUFFICES ASSUME ListTyped, BarInv, PaintBar PROVE BarInv'
  OBVIOUS
<1>1. /\ UNCHANGED <<windowHeight, listHeight, contentSize, currentPosition>>
      /\ calculateTrackerSize
  BY DEF PaintBar, layout
<1>2. listHeight = Places(Column, windowHeight)[2].size
  BY DEF BarInv
<1>3. ASSUME contentSize > listHeight, currentPosition # NaN
      PROVE  trackerRect'.bottom - trackerRect'.top = (listHeight * listHeight) \div contentSize
  <2> DEFINE top  == Times(currentPosition, listHeight * (contentSize - listHeight), contentSize)
             part == (listHeight * listHeight) \div contentSize
             end  == top * contentSize + listHeight * listHeight
  <2>1. /\ listHeight \in Nat \ {0} /\ contentSize \in Nat \ {0} /\ contentSize - listHeight \in Nat
        /\ currentPosition[1] \in Nat /\ currentPosition[2] \in Nat \ {0}
    BY <1>3 DEF ListTyped, Fractions
  <2>2. /\ listHeight * (contentSize - listHeight) \in Nat /\ listHeight * listHeight \in Nat
        /\ currentPosition[2] * contentSize \in Nat \ {0}
    BY <2>1, ProductIsInt
  <2>3. currentPosition[1] * (listHeight * (contentSize - listHeight)) \in Nat
    <3>1. \A a, b \in Nat : a * b \in Nat
      OBVIOUS
    <3>2. QED
      BY <2>1, <2>2, <3>1
  <2>4. top \in Nat
    <3> DEFINE over == currentPosition[1] * (listHeight * (contentSize - listHeight))
               by   == currentPosition[2] * contentSize
    <3>1. top = Truncated(over, by)
      BY <1>3 DEF Times
    <3> HIDE DEF over, by, top
    <3>2. over \in Nat /\ by \in Nat \ {0}
      BY <2>2, <2>3 DEF over, by
    <3>3. Truncated(over, by) = over \div by
      BY <3>2 DEF Truncated
    <3>4. over \div by \in Int /\ 0 <= over \div by
      <4>1. 0 * by <= over
        BY <3>2
      <4>2. QED
        BY <3>2, <4>1, QuotientIs, QuotientBounds
    <3>5. QED
      BY <3>1, <3>3, <3>4
  <2>5. trackerRect'.top = top /\ trackerRect'.bottom = Truncated(end, contentSize)
    <3>1. contentSize # 0
      BY <2>1
    <3>2. trackerRect' = [top |-> top, bottom |-> Truncated(end, contentSize)]
      BY <1>1, <3>1 DEF calculateTrackerSize
    <3> HIDE DEF top, end
    <3>3. QED
      BY <3>2
  <2> HIDE DEF top
  <2>6. /\ part \in Int /\ part * contentSize <= listHeight * listHeight
        /\ listHeight * listHeight < part * contentSize + contentSize
    BY <2>1, <2>2, QuotientIs
  <2> HIDE DEF part
  <2>7. end \in Nat /\ end = top * contentSize + listHeight * listHeight
    <3>1. top * contentSize \in Nat
      BY <2>1, <2>4
    <3>2. QED
      BY <2>2, <3>1
  <2> HIDE DEF end
  <2>8. Truncated(end, contentSize) = end \div contentSize
    BY <2>7 DEF Truncated
  <2>9. end \div contentSize = top + part
    <3> DEFINE q == end \div contentSize
    <3>1. q \in Int /\ q * contentSize <= end
      <4>1. end \in Int /\ contentSize \in Nat \ {0}
        BY <2>1, <2>7
      <4>2. QED
        BY <4>1, QuotientIs
    <3>2. /\ top + part \in Int /\ (top + part) + 1 \in Int
          /\ (top + part) * contentSize = top * contentSize + part * contentSize
          /\ ((top + part) + 1) * contentSize = (top * contentSize + part * contentSize) + contentSize
          /\ top * contentSize \in Int /\ part * contentSize \in Int
      BY <2>1, <2>4, <2>6
    <3>3. (top + part) * contentSize <= end
      BY <2>2, <2>6, <2>7, <3>2
    <3>4. top + part <= q
      BY <2>1, <2>7, <3>2, <3>3, QuotientBounds
    <3> HIDE DEF q
    <3>5. q * contentSize < ((top + part) + 1) * contentSize
      <4>1. q * contentSize \in Int
        BY <2>1, <3>1
      <4>2. QED
        BY <2>1, <2>2, <2>6, <2>7, <3>1, <3>2, <4>1
    <3>6. q < (top + part) + 1
      BY <2>1, <3>1, <3>2, <3>5, Cancelled
    <3>7. q = top + part
      BY <3>1, <3>2, <3>4, <3>6
    <3>8. QED
      BY <3>7 DEF q
  <2>10. trackerRect'.bottom - trackerRect'.top = part
    BY <2>4, <2>5, <2>6, <2>8, <2>9
  <2>11. QED
    BY <2>10 DEF part
<1>4. QED
  BY <1>1, <1>2, <1>3 DEF BarInv

\* Whatever else changes the list, the bar or the window has the bar painted again.
LEMMA ListKeepsBar == ListTyped /\ BarInv /\ [addRemoteFile \/ ListMessage]_listVars => BarInv'
<1> SUFFICES ASSUME ListTyped, BarInv, [addRemoteFile \/ ListMessage]_listVars PROVE BarInv'
  OBVIOUS
<1>1. CASE PaintBar
  BY <1>1, PaintSizesTracker
<1>2. CASE addRemoteFile \/ PaintPane \/ UNCHANGED listVars
  BY <1>2 DEF addRemoteFile, AddPush, AddTotal, AddMove, AddContent, PaintPane, listVars, layout, bar, painted, BarInv
<1>3. CASE ReleaseBar \/ \E y \in MouseYs \cap Ys : PressBar(y) \/ DragBar(y)
  BY <1>3 DEF ReleaseBar, PressBar, DragBar, layout, BarInv
<1>4. CASE (\E x \in 0..(paneWidth - 1), y \in Ys : ClickPane(x, y)) \/ \E height \in WindowHeights : Resize(height)
  BY <1>4 DEF ClickPane, Resize, layout, BarInv
<1>5. QED
  BY <1>1, <1>2, <1>3, <1>4 DEF ListMessage

\* What the bar is drawn from holds in every state.
LEMMA SizedInvariance == WindowSpec => [](ListTyped /\ SizedInv /\ BarInv)
<1>1. WindowInit => ListTyped /\ SizedInv /\ BarInv
  <2> SUFFICES ASSUME ListInit PROVE ListTyped /\ SizedInv /\ BarInv
    BY DEF WindowInit
  <2>1. BarInv
    BY DEF ListInit, BarInv
  <2>2. 0 * ItemHeight = 0 /\ 0 <= MaxSongs
    BY ItemAssumption
  <2>3. SizedInv
    BY <2>2 DEF ListInit, SizedInv, Placed, Unplaced
  <2>4. QED
    BY <2>1, <2>3, ListBegins
<1>2. ListTyped /\ SizedInv /\ BarInv /\ [WindowNext]_windowVars => (ListTyped /\ SizedInv /\ BarInv)'
  <2> SUFFICES ASSUME ListTyped, SizedInv, BarInv, [addRemoteFile \/ ListMessage]_listVars
               PROVE  ListTyped' /\ SizedInv' /\ BarInv'
    BY ListStep
  <2>1. UNCHANGED listVars => SizedInv'
    BY DEF listVars, songs, pane, bar, SizedInv, Placed, Unplaced
  <2>2. QED
    BY <2>1, ListKeepsTypes, ListKeepsBar, AddKeepsSized, MessageKeepsSized
<1>3. QED
  BY <1>1, <1>2, PTL DEF WindowSpec

\* The pane has more pixels than the longest list needs positions.
ManyPixels ==
    \A windowSize \in WindowHeights :
        LET height == Places(Column, windowSize)[2].size
        IN  MaxSongs * ItemHeight <= height * (height - ItemHeight)

\* Where a pixel of the bar is dragged to.
LEMMA DraggedTo ==
    ASSUME NEW way \in Nat \ {0}, way = listHeight - (trackerRect.bottom - trackerRect.top),
           listHeight \in Nat, totalHeight \in Int, totalHeight > listHeight, NEW y \in 0..way
    PROVE  LET view == Region(Percent(y), totalHeight, listHeight)
               over  == totalHeight - listHeight
           IN  /\ view.top = IF y = way THEN over ELSE (y * over) \div way
               /\ view.bottom = view.top + listHeight
<1> DEFINE over == totalHeight - listHeight
           place == Percent(y)
<1>1. over \in Nat \ {0}
  OBVIOUS
<1>2. place = Fraction(y, way)
  BY DEF Percent
<1>3. Region(place, totalHeight, listHeight)
        = [top |-> Times(place, over, 1), bottom |-> Times(place, over, 1) + listHeight]
  BY DEF Region
<1> HIDE DEF over, place
<1>4. Times(place, over, 1) = IF y = way THEN over ELSE (y * over) \div way
  <2>1. \A a \in Nat, b \in Nat \ {0} : <<a, b>> # NaN => Times(<<a, b>>, over, 1) = (a * over) \div b
    <3> SUFFICES ASSUME NEW a \in Nat, NEW b \in Nat \ {0}
                 PROVE  <<a, b>> # NaN => Times(<<a, b>>, over, 1) = (a * over) \div b
      OBVIOUS
    <3>1. a * over \in Nat /\ b * 1 = b
      BY <1>1
    <3>2. Truncated(a * over, b) = (a * over) \div b
      BY <3>1 DEF Truncated
    <3>3. QED
      BY <3>1, <3>2 DEF Times
  <2>2. \A a \in Nat, b \in Nat \ {0} : <<a, b>> # NaN
    BY DEF NaN
  <2>3. CASE y = 0
    <3>1. place = <<0, 1>> /\ 0 * over = 0
      BY <1>1, <1>2, <2>3 DEF Fraction
    <3>2. Times(place, over, 1) = (0 * over) \div 1
      BY <2>1, <2>2, <3>1
    <3>3. 0 \div 1 = 0 /\ 0 \div way = 0
      OBVIOUS
    <3>4. QED
      BY <2>3, <3>1, <3>2, <3>3
  <2>4. CASE y = way
    <3>1. place = <<1, 1>> /\ 1 * over = over
      BY <1>1, <1>2, <2>4 DEF Fraction
    <3>2. Times(place, over, 1) = (1 * over) \div 1
      BY <2>1, <2>2, <3>1
    <3>3. over \div 1 = over
      BY <1>1
    <3>4. QED
      BY <2>4, <3>1, <3>2, <3>3
  <2>5. CASE y # 0 /\ y # way
    <3>1. place = <<y, way>>
      BY <1>2, <2>5 DEF Fraction
    <3>2. QED
      BY <2>1, <2>2, <2>5, <3>1
  <2>6. QED
    BY <2>3, <2>4, <2>5
<1>5. QED
  BY <1>3, <1>4 DEF over, place

\* Every song can be brought into view, whole, by dragging the tracker of the list, for
\* a list of any length that the pane has the pixels for, songs and windows of any
\* size, however songs were added, the bar was dragged and the window was sized before.
THEOREM EverySongIsInReach == ASSUME ManyPixels PROVE WindowSpec => []EverySongCanBeShown
<1>1. ListTyped /\ SizedInv /\ BarInv => EverySongCanBeShown
  <2> SUFFICES ASSUME ListTyped, SizedInv, BarInv, currentPosition # NaN, adding = "idle", ~barDirty,
                      contentSize > listHeight, NEW i \in DOMAIN items
               PROVE  \E y \in Ys :
                          LET view == Region(Percent(y), totalHeight, listHeight)
                          IN  view.top <= items[i] /\ items[i] + ItemHeight <= view.bottom
    BY DEF EverySongCanBeShown, BarReachesEverySong
  <2> DEFINE n     == Len(items)
             track == trackerRect.bottom - trackerRect.top
             way   == listHeight - track
             room  == listHeight - ItemHeight
             over  == totalHeight - listHeight
  <2>1. /\ items \in Seq(Int) /\ n \in Nat /\ i \in 1..n /\ listHeight \in Nat \ {0}
        /\ windowHeight \in WindowHeights /\ ItemHeight \in Nat \ {0} /\ MaxSongs \in Nat
    BY ItemAssumption DEF ListTyped
  <2>2. /\ n <= MaxSongs /\ contentSize = n * ItemHeight /\ totalHeight = contentSize
        /\ items[i] = (i - 1) * ItemHeight
    BY <2>1 DEF SizedInv, Placed, Unplaced
  <2>3. track = (listHeight * listHeight) \div contentSize
    BY DEF BarInv
  <2>4. contentSize <= listHeight * room
    <3>1. MaxSongs * ItemHeight <= listHeight * (listHeight - ItemHeight)
      BY <2>1 DEF ManyPixels, BarInv
    <3>2. n * ItemHeight <= MaxSongs * ItemHeight
      <4> HIDE DEF n
      <4>1. PICK d \in Nat : MaxSongs = n + d
        <5>1. MaxSongs - n \in Nat /\ MaxSongs = n + (MaxSongs - n)
          BY <2>1, <2>2
        <5>2. QED
          BY <5>1
      <4>2. MaxSongs * ItemHeight = n * ItemHeight + d * ItemHeight /\ d * ItemHeight \in Nat /\ n * ItemHeight \in Nat
        BY <2>1, <4>1
      <4>3. QED
        BY <4>2
    <3> HIDE DEF n
    <3>3. n * ItemHeight \in Nat /\ MaxSongs * ItemHeight \in Nat /\ listHeight * (listHeight - ItemHeight) \in Int
      BY <2>1
    <3>4. QED
      BY <2>2, <3>1, <3>2, <3>3
  <2>5. contentSize \in Nat
    BY DEF ListTyped
  <2> HIDE DEF track
  <2>6. track \in 1..(listHeight - 1) /\ over <= room * way
    <3>1. /\ track \in 1..(listHeight - 1)
          /\ contentSize - listHeight <= (listHeight - ItemHeight) * (listHeight - track)
      BY <2>1, <2>3, <2>4, <2>5, PixelIsEnough
    <3>2. QED
      BY <2>2, <3>1
  <2>7. way \in Nat \ {0} /\ over \in Nat \ {0} /\ room \in Int
    BY <2>1, <2>2, <2>5, <2>6
  <2>8. items[i] \in Nat /\ items[i] <= over + room
    <3> HIDE DEF n
    <3>1. PICK d \in Nat : n = i + d
      <4>1. n - i \in Nat /\ n = i + (n - i)
        BY <2>1
      <4>2. QED
        BY <4>1
    <3>2. PICK j \in Nat : i = j + 1
      <4>1. i - 1 \in Nat /\ i = (i - 1) + 1
        BY <2>1
      <4>2. QED
        BY <4>1
    <3>3. /\ n * ItemHeight = j * ItemHeight + ItemHeight + d * ItemHeight /\ (i - 1) * ItemHeight = j * ItemHeight
          /\ j * ItemHeight \in Nat /\ d * ItemHeight \in Nat
      BY <2>1, <3>1, <3>2
    <3>4. over + room = totalHeight - ItemHeight
      BY <2>1, <2>2, <2>5
    <3>5. QED
      BY <2>1, <2>2, <2>5, <3>3, <3>4
  <2> HIDE DEF way, over, room, n
  <2>9. PICK y \in 0..way : LET top == IF y = way THEN over ELSE (y * over) \div way
                            IN  top \in Nat /\ top <= items[i] /\ items[i] - room <= top
    BY <2>6, <2>7, <2>8, SomePixelShows
  <2> DEFINE top == IF y = way THEN over ELSE (y * over) \div way
  <2>10. top \in Nat /\ top <= items[i] /\ items[i] - room <= top
    BY <2>9
  <2>11. LET view == Region(Percent(y), totalHeight, listHeight)
         IN  view.top = top /\ view.bottom = top + listHeight
    <3>1. way = listHeight - (trackerRect.bottom - trackerRect.top) /\ over = totalHeight - listHeight
      BY DEF way, over, track
    <3>2. totalHeight \in Int /\ totalHeight > listHeight
      BY <2>2, <2>5
    <3>3. QED
      BY <2>1, <2>7, <3>1, <3>2, DraggedTo
  <2> HIDE DEF top
  <2>12. y \in Ys
    <3>1. way <= listHeight - 1 /\ way \in Nat
      BY <2>1, <2>6, <2>7 DEF way
    <3>2. QED
      BY <2>1, <3>1 DEF Ys
  <2>13. items[i] + ItemHeight <= top + listHeight
    BY <2>1, <2>8, <2>10 DEF room
  <2>14. QED
    BY <2>10, <2>11, <2>12, <2>13
<1>2. QED
  BY <1>1, SizedInvariance, PTL

-----------------------------------------------------------------------------
\* Before the first click no file is open and nothing is in flight.
LEMMA FileInit ==
    ASSUME Init
    PROVE  FileInv
<1>1. FileTyped
  <2>1. \A S : <<>> \in Seq(S)
    BY EmptySeq
  <2>2. NoFile \in Seq(Nat)
    BY DEF NoFile
  <2>3. FALSE \in BOOLEAN /\ TRUE \in BOOLEAN
    BY Zenon
  <2>4. /\ downloading \in [Clients -> [Songs -> BOOLEAN]] /\ transferring \in [Songs -> [Clients -> BOOLEAN]]
        /\ f_SOF \in [Songs -> BOOLEAN] /\ isOpen \in [Clients -> [Songs -> BOOLEAN]]
    BY <2>3 DEF Init
  <2>5. QED
    BY <2>1, <2>2, <2>4, BoundAssumption DEF Init, FileTyped
<1>2. SendInv
  BY ClientAssumption DEF Init, SendInv, Sent
<1>3. ReceiveInv
  <2> SUFFICES ASSUME NEW c \in Clients, NEW s \in Songs
               PROVE  Received(c, s)
    BY DEF ReceiveInv
  <2>1. ~isOpen[c][s] /\ filesIn[c][s] = NoFile /\ packets[c] = <<>> /\ filesOut[s] # c
    BY ClientAssumption DEF Init
  <2>2. Got(c, s) = 0 /\ SentTo(c, s) = 0 /\ ~Ended(c, s) /\ ~Closed(c, s)
    BY <2>1 DEF Got, SentTo, Ended, Closed
  <2>3. InFlight(<<>>, s, 0, 0, Ended(c, s))
    BY EmptySeq DEF InFlight
  <2>4. QED
    BY <2>1, <2>2, <2>3 DEF Received
<1>4. QED
  BY <1>1, <1>2, <1>3 DEF FileInv

\* What the packets of a song are sent with.
LEMMA SentIs ==
    ASSUME FileTyped, SendInv, NEW s \in Songs
    PROVE  /\ Sent(s) \in 0..Parts /\ data[s] \in 0..Parts /\ f_SOF[s] \in BOOLEAN
           /\ transfer[s] # "none" => filesOut[s] \in Clients
           /\ \A c \in Clients : SentTo(c, s) \in 0..Parts
BY BoundAssumption DEF FileTyped, SendInv, Sent, SentTo

\* Who sees none of what a step does keeps what it knows.
LEMMA Undisturbed ==
    ASSUME NEW c \in Clients, NEW s \in Songs, Received(c, s),
           packets'[c] = packets[c], filesIn'[c][s] = filesIn[c][s], isOpen'[c][s] = isOpen[c][s],
           SentTo(c, s)' = SentTo(c, s), Ended(c, s)' = Ended(c, s), Ended(c, s) => data'[s] = data[s]
    PROVE  Received(c, s)'
<1>1. Got(c, s)' = Got(c, s) /\ (Closed(c, s)' <=> Closed(c, s))
  BY DEF Got, Closed
<1>2. CASE Closed(c, s)
  BY <1>1, <1>2 DEF Received
<1>3. CASE ~Closed(c, s)
  BY <1>1, <1>3 DEF Received
<1>4. QED
  BY <1>2, <1>3

\* Saving, cancelling and beginning a transfer keep the invariant.
LEMMA ClickKeeps ==
    ASSUME FileInv, NEW c \in Clients, NEW s \in Songs,
           onClick(c, s) \/ cancelTransfer(c, s) \/ sendFile(c, s)
    PROVE  FileInv'
<1> USE DEF FileInv, client, server, threads, files
<1> DEFINE Messages == [type : {"request", "cancel"}, song : Songs]
<1>1. requests' \in [Clients -> Seq(Messages)]
  <2>1. CASE onClick(c, s)
    <3>1. \A m \in Messages : Append(requests[c], m) \in Seq(Messages)
      BY AppendProperties DEF FileTyped
    <3>2. [type |-> IF downloading[c][s] THEN "cancel" ELSE "request", song |-> s] \in Messages
      OBVIOUS
    <3> HIDE DEF Messages
    <3>3. QED
      BY <2>1, <3>1, <3>2 DEF onClick, FileTyped, Messages
  <2>2. CASE cancelTransfer(c, s) \/ sendFile(c, s)
    <3>1. requests[c] # <<>> /\ requests' = [requests EXCEPT ![c] = Tail(@)]
      BY <2>2 DEF cancelTransfer, sendFile, Take
    <3>2. Tail(requests[c]) \in Seq(Messages)
      BY <3>1, HeadTailProperties DEF FileTyped
    <3>3. QED
      BY <3>1, <3>2 DEF FileTyped
  <2>3. QED
    BY <2>1, <2>2
<1> HIDE DEF Messages
<1>2. CASE onClick(c, s)
  <2>1. UNCHANGED <<server, threads, packets, files>>
    BY <1>2 DEF onClick
  <2>2. clicks' \in [Clients -> 0..MaxClicks]
    BY <1>2, BoundAssumption DEF onClick, FileTyped
  <2>3. downloading' \in [Clients -> [Songs -> BOOLEAN]]
    <3>1. (~downloading[c][s]) \in BOOLEAN
      OBVIOUS
    <3>2. downloading' = [downloading EXCEPT ![c][s] = ~downloading[c][s]]
      BY <1>2 DEF onClick
    <3>3. QED
      BY <3>1, <3>2 DEF FileTyped
  <2>4. FileTyped'
    BY <1>1, <2>1, <2>2, <2>3 DEF FileTyped, Messages
  <2>5. SendInv'
    BY <2>1 DEF SendInv, Sent
  <2>6. ReceiveInv'
    BY <2>1 DEF ReceiveInv, Received, Closed, Ended, Got, SentTo, Sent
  <2>7. QED
    BY <2>4, <2>5, <2>6
<1>3. CASE cancelTransfer(c, s)
  <2>1. UNCHANGED <<client, filesOut, threads, packets, files>> /\ transferring' = [transferring EXCEPT ![s][c] = FALSE]
    BY <1>3 DEF cancelTransfer
  <2>2. transferring' \in [Songs -> [Clients -> BOOLEAN]]
    <3>1. FALSE \in BOOLEAN
      BY Zenon
    <3>2. QED
      BY <2>1, <3>1 DEF FileTyped
  <2>3. FileTyped'
    BY <1>1, <2>1, <2>2 DEF FileTyped, Messages
  <2>4. \A t \in Songs, b \in Clients : transferring'[t][b] => transferring[t][b]
    BY <2>1 DEF FileTyped
  <2>5. SendInv'
    BY <2>1, <2>4 DEF SendInv, Sent
  <2>6. ReceiveInv'
    BY <2>1 DEF ReceiveInv, Received, Closed, Ended, Got, SentTo, Sent
  <2>7. QED
    BY <2>3, <2>5, <2>6
<1>4. CASE sendFile(c, s) /\ filesOut[s] # NoClient
  <2>1. UNCHANGED <<client, server, threads, packets, files>>
    BY <1>4 DEF sendFile
  <2>2. FileTyped'
    BY <1>1, <2>1 DEF FileTyped, Messages
  <2>3. SendInv'
    BY <2>1 DEF SendInv, Sent
  <2>4. ReceiveInv'
    BY <2>1 DEF ReceiveInv, Received, Closed, Ended, Got, SentTo, Sent
  <2>5. QED
    BY <2>2, <2>3, <2>4
<1>5. CASE sendFile(c, s) /\ filesOut[s] = NoClient
  <2>1. /\ UNCHANGED <<client, data, f_SOF, packets, files>>
        /\ filesOut' = [filesOut EXCEPT ![s] = c]
        /\ transferring' = [transferring EXCEPT ![s][c] = TRUE]
        /\ transfer' = [transfer EXCEPT ![s] = "open"]
    BY <1>5 DEF sendFile
  <2>2. transferring' \in [Songs -> [Clients -> BOOLEAN]]
    <3>1. TRUE \in BOOLEAN
      BY Zenon
    <3>2. QED
      BY <2>1, <3>1 DEF FileTyped
  <2>3. FileTyped'
    BY <1>1, <2>1, <2>2 DEF FileTyped, Messages
  <2>4. /\ filesOut'[s] = c /\ transfer'[s] = "open" /\ transfer[s] = "none" /\ data[s] = 0 /\ data'[s] = 0
        /\ \A t \in Songs \ {s} : filesOut'[t] = filesOut[t] /\ transfer'[t] = transfer[t]
        /\ \A t \in Songs, b \in Clients : <<t, b>> # <<s, c>> => transferring'[t][b] = transferring[t][b]
    BY <1>5, <2>1 DEF FileTyped, SendInv
  <2>5. \A b \in Clients : ~transferring[s][b] /\ filesOut[s] # b
    BY <1>5, ClientAssumption DEF SendInv
  <2>6. SendInv'
    <3> SUFFICES ASSUME NEW t \in Songs
                 PROVE  /\ transfer'[t] = "none" <=> filesOut'[t] = NoClient
                        /\ transfer'[t] \in {"none", "open", "failed"} => data'[t] = 0
                        /\ transfer'[t] = "send" => data'[t] > 0
                        /\ f_SOF'[t] <=> Sent(t)' = 0
                        /\ \A b \in Clients : transferring'[t][b] =>
                              filesOut'[t] = b /\ (transfer'[t] \in {"end", "done"} => data'[t] = Parts)
      BY DEF SendInv
    <3>1. CASE t = s
      BY <2>1, <2>4, <2>5, <3>1, ClientAssumption DEF SendInv, Sent
    <3>2. CASE t # s
      BY <2>1, <2>4, <3>2 DEF SendInv, Sent
    <3>3. QED
      BY <3>1, <3>2
  <2>7. ReceiveInv'
    <3> SUFFICES ASSUME NEW b \in Clients, NEW t \in Songs
                 PROVE  Received(b, t)'
      BY DEF ReceiveInv
    <3>1. SentTo(b, t)' = SentTo(b, t) /\ Ended(b, t)' = Ended(b, t)
      <4>1. CASE t = s
        BY <2>1, <2>4, <2>5, <4>1 DEF SentTo, Sent, Ended
      <4>2. CASE t # s
        BY <2>1, <2>4, <4>2 DEF SentTo, Sent, Ended
      <4>3. QED
        BY <4>1, <4>2
    <3>2. QED
      BY <2>1, <3>1, Undisturbed DEF ReceiveInv
  <2>8. QED
    BY <2>3, <2>6, <2>7
<1>6. QED
  BY <1>2, <1>3, <1>4, <1>5
\* Each step of the transfer thread keeps the invariant.
LEMMA ReadKeeps ==
    ASSUME FileInv, NEW s \in Songs, Opened(s) \/ Read(s) \/ ReadEnds(s)
    PROVE  FileInv'
<1> USE DEF FileInv, client, server, threads, files
<1>1. /\ UNCHANGED <<client, requests, server, files, packets, f_SOF>>
      /\ \A t \in Songs \ {s} : transfer'[t] = transfer[t] /\ data'[t] = data[t]
      /\ transfer' \in [Songs -> {"none", "open", "failed", "read", "send", "end", "done"}]
      /\ data' \in [Songs -> 0..Parts]
  <2>1. CASE Opened(s) \/ ReadEnds(s)
    BY <2>1 DEF Opened, ReadEnds, Goto, FileTyped
  <2>2. CASE Read(s)
    <3>1. /\ UNCHANGED <<client, requests, server, files, packets, f_SOF>> /\ data[s] < Parts
          /\ transfer' = [transfer EXCEPT ![s] = "send"] /\ data' = [data EXCEPT ![s] = data[s] + 1]
      BY <2>2 DEF Read, Goto
    <3>2. data[s] + 1 \in 0..Parts
      BY <3>1, SentIs, BoundAssumption
    <3>3. QED
      BY <3>1, <3>2 DEF FileTyped
  <2>3. QED
    BY <2>1, <2>2
<1>2. \/ transfer[s] = "open" /\ transfer'[s] \in {"read", "failed"} /\ data'[s] = data[s]
      \/ transfer[s] = "read" /\ transfer'[s] = "send" /\ data'[s] = data[s] + 1
      \/ /\ transfer[s] = "read" /\ transfer'[s] = "end" /\ data'[s] = data[s]
         /\ ~(transferring[s][filesOut[s]] /\ data[s] < Parts)
  BY DEF Opened, Read, ReadEnds, Goto, FileTyped
<1>3. data[s] \in 0..Parts /\ Parts \in Nat /\ data'[s] \in 0..Parts
  BY <1>1, BoundAssumption DEF FileTyped
<1>4. Sent(s)' = Sent(s) /\ transfer'[s] # "done" /\ transfer[s] # "done"
  BY <1>2, <1>3 DEF Sent
<1>5. \A t \in Songs : Sent(t)' = Sent(t)
  BY <1>1, <1>4 DEF Sent
<1>6. FileTyped'
  BY <1>1 DEF FileTyped
<1>7. SendInv'
  <2> SUFFICES ASSUME NEW t \in Songs
               PROVE  /\ transfer'[t] = "none" <=> filesOut'[t] = NoClient
                      /\ transfer'[t] \in {"none", "open", "failed"} => data'[t] = 0
                      /\ transfer'[t] = "send" => data'[t] > 0
                      /\ f_SOF'[t] <=> Sent(t)' = 0
                      /\ \A b \in Clients : transferring'[t][b] =>
                            filesOut'[t] = b /\ (transfer'[t] \in {"end", "done"} => data'[t] = Parts)
    BY DEF SendInv
  <2>1. CASE t = s
    <3>1. (transfer'[s] = "none" <=> filesOut'[s] = NoClient) /\ (f_SOF'[s] <=> Sent(s)' = 0)
      BY <1>1, <1>2, <1>4 DEF SendInv
    <3>2. transfer'[s] \in {"none", "open", "failed"} => data'[s] = 0
      BY <1>2 DEF SendInv
    <3>3. transfer'[s] = "send" => data'[s] > 0
      BY <1>2, <1>3
    <3>4. ASSUME NEW b \in Clients, transferring'[s][b]
          PROVE  filesOut'[s] = b /\ (transfer'[s] \in {"end", "done"} => data'[s] = Parts)
      <4>1. transferring[s][b] /\ filesOut[s] = b /\ filesOut'[s] = b
        BY <1>1, <3>4 DEF SendInv
      <4>2. QED
        BY <1>2, <1>3, <4>1
    <3>5. QED
      BY <2>1, <3>1, <3>2, <3>3, <3>4
  <2>2. CASE t # s
    BY <1>1, <1>5, <2>2 DEF SendInv
  <2>3. QED
    BY <2>1, <2>2
<1>8. ReceiveInv'
  <2> SUFFICES ASSUME NEW b \in Clients, NEW t \in Songs
               PROVE  Received(b, t)'
    BY DEF ReceiveInv
  <2>1. SentTo(b, t)' = SentTo(b, t)
    BY <1>1, <1>5 DEF SentTo
  <2>2. Ended(b, t)' = Ended(b, t) /\ (Ended(b, t) => data'[t] = data[t])
    BY <1>1, <1>4 DEF Ended
  <2>3. QED
    BY <1>1, <2>1, <2>2, Undisturbed DEF ReceiveInv
<1>9. QED
  BY <1>6, <1>7, <1>8

\* Both ways to send a packet: of the part that was read, or to end the file.
LEMMA SendKeeps ==
    ASSUME FileInv, NEW s \in Songs, SendData(s) \/ SendEnd(s)
    PROVE  FileInv'
<1> USE DEF FileInv, client, server, threads, files
<1> DEFINE c == filesOut[s]
           eof == transfer[s] = "end"
           p == Packet(s, eof)
<1>1. /\ \/ transfer[s] = "send" /\ transfer'[s] = "read"
         \/ transfer[s] = "end" /\ transfer'[s] = "done"
      /\ \A t \in Songs \ {s} : transfer'[t] = transfer[t]
      /\ transfer' \in [Songs -> {"none", "open", "failed", "read", "send", "end", "done"}]
      /\ UNCHANGED <<client, requests, server, files, data>>
  BY DEF SendData, SendEnd, Goto, FileTyped
<1>2. f_SOF' = IF eof THEN f_SOF ELSE [f_SOF EXCEPT ![s] = FALSE]
  BY DEF SendData, SendEnd, Goto
<1>3. packets' = [packets EXCEPT ![c] = Append(packets[c], p)]
  <2>1. CASE SendData(s)
    BY <2>1 DEF SendData, Goto, Send, Packet
  <2>2. CASE SendEnd(s)
    BY <2>2 DEF SendEnd, Goto, Send, Packet
  <2>3. QED
    BY <2>1, <2>2
<1>4. /\ p \in PacketSet /\ p.song = s /\ p.part = data[s] /\ (p.sof <=> Sent(s) = 0) /\ (p.eof <=> eof)
      /\ data[s] \in 0..Parts /\ Parts \in Nat /\ Sent(s) \in 0..Parts /\ c \in Clients
  <2>1. f_SOF[s] \in BOOLEAN /\ data[s] \in Nat
    BY SentIs, BoundAssumption
  <2>2. (transfer[s] = "end") \in BOOLEAN
    OBVIOUS
  <2>3. p \in PacketSet
    BY <2>1, <2>2 DEF Packet, PacketSet
  <2>4. p.song = s /\ p.part = data[s] /\ p.sof = f_SOF[s] /\ p.eof = eof
    BY DEF Packet
  <2>5. f_SOF[s] <=> Sent(s) = 0
    BY DEF SendInv
  <2>6. QED
    BY <1>1, <2>3, <2>4, <2>5, SentIs, BoundAssumption
<1>5. /\ packets' \in [Clients -> Seq(PacketSet)]
      /\ packets'[c] = Append(packets[c], p)
      /\ \A b \in Clients \ {c} : packets'[b] = packets[b]
  <2>1. Append(packets[c], p) \in Seq(PacketSet)
    BY <1>4, AppendIs DEF FileTyped
  <2> HIDE DEF p, c
  <2>2. QED
    BY <1>3, <1>4, <2>1 DEF FileTyped
<1> HIDE DEF p
<1>6. f_SOF' \in [Songs -> BOOLEAN] /\ (\A t \in Songs \ {s} : f_SOF'[t] = f_SOF[t]) /\ (~eof => ~f_SOF'[s])
  <2>1. FALSE \in BOOLEAN
    BY Zenon
  <2>2. QED
    BY <1>2, <2>1 DEF FileTyped
<1>7. FileTyped'
  BY <1>1, <1>5, <1>6 DEF FileTyped
<1>8. Sent(s)' = data[s] /\ (eof => Sent(s) = data[s]) /\ (~eof => Sent(s) = data[s] - 1 /\ data[s] > 0)
  BY <1>1 DEF Sent, SendInv
<1>9. \A t \in Songs \ {s} : Sent(t)' = Sent(t)
  BY <1>1 DEF Sent
<1>10. SendInv'
  <2> SUFFICES ASSUME NEW t \in Songs
               PROVE  /\ transfer'[t] = "none" <=> filesOut'[t] = NoClient
                      /\ transfer'[t] \in {"none", "open", "failed"} => data'[t] = 0
                      /\ transfer'[t] = "send" => data'[t] > 0
                      /\ f_SOF'[t] <=> Sent(t)' = 0
                      /\ \A b \in Clients : transferring'[t][b] =>
                            filesOut'[t] = b /\ (transfer'[t] \in {"end", "done"} => data'[t] = Parts)
    BY DEF SendInv
  <2>1. CASE t = s
    <3>1. f_SOF'[s] <=> Sent(s)' = 0
      <4>1. CASE eof
        BY <1>2, <1>8, <4>1 DEF SendInv
      <4>2. CASE ~eof
        BY <1>4, <1>6, <1>8, <4>2
      <4>3. QED
        BY <4>1, <4>2
    <3>2. \A b \in Clients : transferring'[s][b] =>
             filesOut'[s] = b /\ (transfer'[s] \in {"end", "done"} => data'[s] = Parts)
      BY <1>1 DEF SendInv
    <3>3. QED
      BY <1>1, <2>1, <3>1, <3>2 DEF SendInv
  <2>2. CASE t # s
    BY <1>1, <1>6, <1>9, <2>2 DEF SendInv
  <2>3. QED
    BY <2>1, <2>2
<1>11. ReceiveInv'
  <2> SUFFICES ASSUME NEW b \in Clients, NEW t \in Songs
               PROVE  Received(b, t)'
    BY DEF ReceiveInv
  <2>1. Received(b, t)
    BY DEF ReceiveInv
  <2>2. CASE b # c
    <3>1. SentTo(b, t)' = SentTo(b, t) /\ Ended(b, t)' = Ended(b, t)
      BY <1>1, <1>9, <2>2 DEF SentTo, Ended
    <3>2. QED
      BY <1>1, <1>5, <2>1, <2>2, <3>1, Undisturbed
  <2>3. CASE b = c /\ t # s
    <3>1. SentTo(c, t)' = SentTo(c, t) /\ Ended(c, t)' = Ended(c, t)
      BY <1>1, <1>9, <2>3 DEF SentTo, Ended
    <3>2. Got(c, t)' = Got(c, t) /\ Closed(c, t)' = Closed(c, t)
      BY <1>1 DEF Got, Closed
    <3>3. packets[c] \in Seq(PacketSet) /\ p.song # t
      BY <1>4, <2>3 DEF FileTyped
    <3>4. Nothing(packets[c], t) => Nothing(packets'[c], t)
      BY <1>4, <1>5, <3>3, OtherAppended
    <3>5. InFlight(packets[c], t, Got(c, t), SentTo(c, t), Ended(c, t))
             => InFlight(packets'[c], t, Got(c, t), SentTo(c, t), Ended(c, t))
      BY <1>4, <1>5, <3>3, OtherAppended
    <3>6. QED
      BY <1>1, <2>1, <2>3, <3>1, <3>2, <3>4, <3>5 DEF Received
  <2>4. CASE b = c /\ t = s
    <3>1. ~Ended(c, s) /\ SentTo(c, s) = Sent(s) /\ SentTo(c, s)' = data[s] /\ (Ended(c, s)' <=> eof)
      BY <1>1, <1>8 DEF Ended, SentTo
    <3>2. ~Closed(c, s)
      BY <2>1, <2>4, <3>1 DEF Received
    <3>3. Got(c, s)' = Got(c, s) /\ ~Closed(c, s)'
      BY <1>1, <3>2 DEF Got, Closed
    <3>4. Got(c, s) \in Nat /\ packets[c] \in Seq(PacketSet)
      <4>1. filesIn[c][s] \in Seq(Nat) /\ packets[c] \in Seq(PacketSet)
        BY <1>4 DEF FileTyped
      <4>2. QED
        BY <4>1, LenProperties DEF Got
    <3>5. Got(c, s) <= Sent(s) /\ InFlight(packets[c], s, Got(c, s), Sent(s), FALSE)
      <4>1. Ended(c, s) = FALSE
        BY <3>1 DEF Ended
      <4>2. QED
        BY <2>1, <2>4, <3>1, <3>2, <4>1 DEF Received
    <3>6. CASE eof
      <4>1. p.eof /\ p.part = Sent(s) /\ Sent(s) \in Nat /\ Sent(s) = data[s] /\ (Ended(c, s)' = TRUE)
        BY <1>1, <1>4, <1>8, <3>6 DEF Ended
      <4>2. InFlight(Append(packets[c], p), s, Got(c, s), Sent(s), TRUE)
        BY <1>4, <3>4, <3>5, <4>1, EndAppended
      <4>3. QED
        BY <1>1, <1>5, <1>8, <2>1, <2>4, <3>1, <3>2, <3>3, <3>5, <4>1, <4>2 DEF Received
    <3>7. CASE ~eof
      <4>1. p.part = Sent(s) + 1 /\ ~p.eof /\ Sent(s) \in Nat /\ (Ended(c, s)' = FALSE)
        BY <1>1, <1>4, <1>8, <3>7 DEF Ended
      <4>2. InFlight(packets'[c], s, Got(c, s), Sent(s) + 1, FALSE)
        BY <1>4, <1>5, <3>4, <3>5, <4>1, PartAppended
      <4>3. Sent(s) + 1 = data[s] /\ Got(c, s) <= data[s]
        BY <1>4, <1>8, <3>4, <3>5, <3>7
      <4>4. QED
        BY <1>1, <2>1, <2>4, <3>1, <3>2, <3>3, <3>7, <4>1, <4>2, <4>3 DEF Received
    <3>8. QED
      BY <3>6, <3>7
  <2>5. QED
    BY <2>2, <2>3, <2>4
<1>12. QED
  BY <1>7, <1>10, <1>11
\* recvFile keeps the invariant, be the packet a first, a middle or a last one.
LEMMA ReceiveKeeps ==
    ASSUME FileInv, NEW c \in Clients, recvFile(c)
    PROVE  FileInv'
<1> USE DEF FileInv, client, server, threads, files
<1>1. PICK p \in PacketSet : p = Head(packets[c]) /\ packets[c] # <<>>
  BY TailIs DEF recvFile, FileTyped
<1> DEFINE queue == packets[c]
           s == p.song
           old == IF p.sof THEN <<>> ELSE filesIn[c][s]
           new == old \o (IF p.part = 0 THEN <<>> ELSE <<p.part>>)
<1>2. /\ UNCHANGED <<client, requests, server, threads>>
      /\ queue \in Seq(PacketSet) /\ queue # <<>>
      /\ packets' = [packets EXCEPT ![c] = Tail(queue)]
      /\ filesIn' = [filesIn EXCEPT ![c][s] = new]
      /\ isOpen' = [isOpen EXCEPT ![c][s] = ~p.eof]
  BY <1>1 DEF recvFile, FileTyped
<1>3. p = Head(queue) /\ s \in Songs /\ p.part \in Nat /\ p.eof \in BOOLEAN /\ Tail(queue) \in Seq(PacketSet)
  BY <1>1, <1>2, TailIs DEF PacketSet
<1>4. new \in Seq(Nat)
  <2>1. filesIn[c][s] \in Seq(Nat) /\ <<>> \in Seq(Nat) /\ <<p.part>> \in Seq(Nat)
    BY <1>3, EmptySeq DEF FileTyped
  <2>2. old \in Seq(Nat) /\ (IF p.part = 0 THEN <<>> ELSE <<p.part>>) \in Seq(Nat)
    BY <2>1
  <2>3. QED
    BY <2>2, ConcatProperties
<1> HIDE DEF new, old
<1>5. /\ packets'[c] = Tail(queue) /\ filesIn'[c][s] = new /\ (isOpen'[c][s] <=> ~p.eof)
      /\ \A b \in Clients \ {c} : packets'[b] = packets[b] /\ filesIn'[b] = filesIn[b] /\ isOpen'[b] = isOpen[b]
      /\ \A t \in Songs \ {s} : filesIn'[c][t] = filesIn[c][t] /\ isOpen'[c][t] = isOpen[c][t]
  BY <1>2, <1>3 DEF FileTyped
<1>6. FileTyped'
  <2>1. packets' \in [Clients -> Seq(PacketSet)]
    BY <1>2, <1>3 DEF FileTyped
  <2>2. filesIn' \in [Clients -> [Songs -> Seq(Nat)]]
    BY <1>2, <1>3, <1>4 DEF FileTyped
  <2>3. (~p.eof) \in BOOLEAN
    OBVIOUS
  <2>4. isOpen' \in [Clients -> [Songs -> BOOLEAN]]
    BY <1>2, <1>3, <2>3 DEF FileTyped
  <2>5. QED
    BY <1>2, <2>1, <2>2, <2>4 DEF FileTyped
<1>7. SendInv'
  BY <1>2 DEF SendInv, Sent
<1>8. \A b \in Clients, t \in Songs : SentTo(b, t)' = SentTo(b, t) /\ Ended(b, t)' = Ended(b, t)
  BY <1>2 DEF SentTo, Sent, Ended
<1>9. Received(c, s)'
  <2>1. Received(c, s) /\ SentTo(c, s) \in Nat
    BY <1>3, SentIs, BoundAssumption DEF ReceiveInv
  <2>2. queue[1] = p /\ 1 \in 1..Len(queue)
    BY <1>2, <1>3, TailIs
  <2>3. ~Closed(c, s)
    BY <2>1, <2>2 DEF Received, Nothing
  <2>4. Got(c, s) \in Nat
    BY <1>3, LenProperties DEF Got, FileTyped
  <2>5. Got(c, s) <= SentTo(c, s) /\ InFlight(queue, s, Got(c, s), SentTo(c, s), Ended(c, s))
    BY <2>1, <2>3 DEF Received
  <2>6. isOpen[c][s] => filesIn[c][s] = Song(Got(c, s)) /\ Got(c, s) > 0
    BY <2>1 DEF Received
  <2>7. CASE ~p.eof
    <3>1. /\ p.part = Got(c, s) + 1 /\ (p.sof <=> Got(c, s) = 0) /\ Got(c, s) + 1 <= SentTo(c, s)
          /\ InFlight(Tail(queue), s, Got(c, s) + 1, SentTo(c, s), Ended(c, s))
      BY <1>2, <1>3, <2>1, <2>4, <2>5, <2>7, PartTaken
    <3>2. old = Song(Got(c, s))
      <4>1. CASE p.sof
        <5>1. Song(0) = <<>>
          BY DEF Song
        <5>2. QED
          BY <3>1, <4>1, <5>1 DEF old
      <4>2. CASE ~p.sof
        <5>1. isOpen[c][s]
          BY <3>1, <4>2 DEF Got
        <5>2. QED
          BY <2>6, <4>2, <5>1 DEF old
      <4>3. QED
        BY <4>1, <4>2
    <3>3. new = Song(Got(c, s) + 1)
      <4>1. new = Song(Got(c, s)) \o <<Got(c, s) + 1>>
        BY <2>4, <3>1, <3>2 DEF new
      <4>2. QED
        BY <2>4, <4>1, SongIs
    <3>4. Len(new) = Got(c, s) + 1
      <4>1. Got(c, s) + 1 \in Nat
        BY <2>4
      <4>2. Len(Song(Got(c, s) + 1)) = Got(c, s) + 1
        BY <4>1, SongIs
      <4>3. QED
        BY <3>3, <4>2
    <3>5. Got(c, s)' = Got(c, s) + 1 /\ isOpen'[c][s] /\ ~Closed(c, s)'
      BY <1>5, <2>7, <3>4 DEF Got, Closed
    <3>6. InFlight(packets'[c], s, Got(c, s)', SentTo(c, s)', Ended(c, s)')
      BY <1>3, <1>5, <1>8, <3>1, <3>5
    <3>7. filesIn'[c][s] = Song(Got(c, s)') /\ Got(c, s)' > 0 /\ Got(c, s)' <= SentTo(c, s)'
      BY <1>3, <1>5, <1>8, <2>4, <3>1, <3>3, <3>5
    <3>8. QED
      BY <3>5, <3>6, <3>7 DEF Received
  <2>8. CASE p.eof
    <3>1. /\ Ended(c, s) /\ Got(c, s) = SentTo(c, s) /\ p.part = SentTo(c, s) /\ (p.sof <=> SentTo(c, s) = 0)
          /\ Nothing(Tail(queue), s)
      <4>1. Head(queue).eof /\ s = Head(queue).song /\ p = Head(queue)
        BY <1>3, <2>8
      <4>2. InFlight(queue, Head(queue).song, Got(c, s), SentTo(c, s), Ended(c, s)) /\ Got(c, s) <= SentTo(c, s)
        BY <2>5, <4>1
      <4> HIDE DEF s
      <4>3. /\ Ended(c, s) /\ Got(c, s) = SentTo(c, s) /\ Head(queue).part = SentTo(c, s)
            /\ (Head(queue).sof <=> SentTo(c, s) = 0)
            /\ Nothing(Tail(queue), Head(queue).song)
        <5>1. Ended(c, s) \in BOOLEAN
          BY DEF Ended
        <5>2. QED
          BY <1>2, <2>1, <2>4, <4>1, <4>2, <5>1, EndTaken
      <4>4. QED
        BY <4>1, <4>3
    <3>2. SentTo(c, s) = data[s]
      BY <3>1 DEF SentTo, Sent, Ended
    <3>3. new = Whole(data[s]) /\ new # NoFile
      <4>1. CASE data[s] = 0
        <5>1. old = <<>> /\ p.part = 0
          BY <3>1, <3>2, <4>1 DEF old
        <5>2. new = <<>>
          BY <5>1, ConcatEmptySeq, EmptySeq DEF new
        <5>3. <<>> # NoFile
          BY DEF NoFile
        <5>4. QED
          BY <4>1, <5>2, <5>3 DEF Whole
      <4>2. CASE data[s] # 0
        <5>1. isOpen[c][s] /\ ~p.sof /\ p.part = data[s] /\ data[s] \in Nat /\ data[s] > 0
          BY <2>1, <3>1, <3>2, <4>2 DEF Got
        <5>2. old = Song(data[s])
          BY <2>6, <3>1, <3>2, <5>1 DEF old
        <5>3. new = Song(data[s]) \o <<data[s]>>
          BY <4>2, <5>1, <5>2 DEF new
        <5>4. QED
          BY <4>2, <5>1, <5>3, SongIs DEF Whole
      <4>3. QED
        BY <4>1, <4>2
    <3>4. Closed(c, s)' /\ ~isOpen'[c][s]
      BY <1>5, <2>8, <3>3 DEF Closed
    <3>5. QED
      BY <1>2, <1>3, <1>5, <1>8, <3>1, <3>3, <3>4 DEF Received
  <2>9. QED
    BY <2>7, <2>8
<1>10. ASSUME NEW b \in Clients, NEW t \in Songs, <<b, t>> # <<c, s>>
      PROVE  Received(b, t)'
  <2>1. Received(b, t)
    BY DEF ReceiveInv
  <2>2. CASE b # c
    BY <1>2, <1>5, <1>8, <2>1, <2>2, Undisturbed
  <2>3. CASE b = c /\ t # s
    <3>1. Got(c, t)' = Got(c, t) /\ Closed(c, t)' = Closed(c, t) /\ filesIn'[c][t] = filesIn[c][t]
             /\ isOpen'[c][t] = isOpen[c][t]
      BY <1>5, <2>3 DEF Got, Closed
    <3>2. Nothing(queue, t) => Nothing(Tail(queue), t)
      BY <1>2, <1>3, <2>3, OtherTaken
    <3>3. InFlight(queue, t, Got(c, t), SentTo(c, t), Ended(c, t))
             => InFlight(Tail(queue), t, Got(c, t), SentTo(c, t), Ended(c, t))
      BY <1>2, <1>3, <2>3, OtherTaken
    <3>4. packets'[c] = Tail(packets[c]) /\ data'[t] = data[t] /\ SentTo(c, t)' = SentTo(c, t)
             /\ Ended(c, t)' = Ended(c, t)
      BY <1>2, <1>5, <1>8
    <3>5. QED
      BY <2>1, <2>3, <3>1, <3>2, <3>3, <3>4 DEF Received
  <2>4. QED
    BY <1>10, <2>2, <2>3
<1>11. ReceiveInv'
  BY <1>9, <1>10 DEF ReceiveInv
<1>12. QED
  BY <1>6, <1>7, <1>11

-----------------------------------------------------------------------------
\* The invariant holds in every state of the transfers.
LEMMA FileIsInvariant == Spec => []FileInv
<1>1. Init => FileInv
  BY FileInit
<1>2. FileInv /\ [Next]_vars => FileInv'
  <2> SUFFICES ASSUME FileInv, [Next]_vars PROVE FileInv'
    OBVIOUS
  <2>1. CASE Next
    BY <2>1, ClickKeeps, ReadKeeps, SendKeeps, ReceiveKeeps DEF Next, TransferThread
  <2>2. CASE UNCHANGED vars
    <3>1. UNCHANGED <<downloading, clicks, requests, filesOut, transferring, transfer, data, f_SOF, packets,
                      filesIn, isOpen>>
      BY <2>2 DEF vars, client, server, threads, files
    <3>2. FileTyped' /\ SendInv'
      BY <3>1 DEF FileInv, FileTyped, SendInv, Sent
    <3>3. ReceiveInv'
      BY <3>1 DEF FileInv, ReceiveInv, Received, Closed, Ended, Got, SentTo, Sent
    <3>4. QED
      BY <3>2, <3>3 DEF FileInv
  <2>3. QED
    BY <2>1, <2>2
<1>3. QED
  BY <1>1, <1>2, PTL DEF Spec

\* Variables stay in their types.
THEOREM FilesAreTyped == Spec => []TypeOK
<1>1. FileInv => TypeOK
  <2> SUFFICES ASSUME FileInv PROVE TypeOK
    OBVIOUS
  <2>1. ASSUME NEW c \in Clients, NEW i \in DOMAIN requests[c]
        PROVE  requests[c][i] \in [type : {"request", "cancel"}, song : Songs]
    <3> DEFINE Messages == [type : {"request", "cancel"}, song : Songs]
    <3>1. requests[c] \in Seq(Messages)
      BY DEF FileInv, FileTyped
    <3> HIDE DEF Messages
    <3>2. i \in 1..Len(requests[c])
      BY <3>1, LenProperties
    <3>3. requests[c][i] \in Messages
      BY <3>1, <3>2, ElementOfSeq
    <3>4. QED
      BY <3>3 DEF Messages
  <2>2. ASSUME NEW c \in Clients, NEW i \in DOMAIN packets[c]
        PROVE  packets[c][i] \in [song : Songs, part : 0..Parts, sof : BOOLEAN, eof : BOOLEAN]
    <3>1. packets[c] \in Seq(PacketSet) /\ i \in 1..Len(packets[c]) /\ packets[c][i] \in PacketSet
      BY ElementOfSeq, LenProperties DEF FileInv, FileTyped
    <3> DEFINE s == packets[c][i].song
    <3>2. s \in Songs /\ packets[c][i].part \in Nat
      BY <3>1 DEF PacketSet
    <3>3. Received(c, s) /\ SentTo(c, s) \in 0..Parts /\ Got(c, s) \in Nat
      <4>1. Got(c, s) \in Nat
        BY <3>2, LenProperties DEF Got, FileInv, FileTyped
      <4>2. QED
        BY <3>2, <4>1, SentIs DEF FileInv, ReceiveInv
    <3>4. ~Closed(c, s)
      BY <3>1, <3>3 DEF Received, Nothing
    <3>5. packets[c][i].part \in 0..Parts
      BY <3>1, <3>2, <3>3, <3>4, BoundAssumption DEF Received, InFlight
    <3>6. QED
      BY <3>1, <3>5 DEF PacketSet
  <2>3. QED
    BY <2>1, <2>2 DEF TypeOK, FileInv, FileTyped
<1>2. QED
  BY <1>1, FileIsInvariant, PTL

\* recvFile opens, appends and closes by the flags of the packet alone: what a
\* client has of a song is its beginning, without a hole, whatever other songs
\* and clients are served in between; closed and not cancelled, it is all of it.
THEOREM FilesArriveInOrder == Spec => []FilesGrowInOrder
<1>1. FileInv => FilesGrowInOrder
  <2> SUFFICES ASSUME FileInv, NEW c \in Clients, NEW s \in Songs, filesIn[c][s] # NoFile
               PROVE  /\ isOpen[c][s] => filesIn[c][s] = Song(Len(filesIn[c][s]))
                      /\ ~isOpen[c][s] /\ transferring[s][c] => SubSeq(filesIn[c][s], 1, Parts) = Song(Parts)
    BY DEF FilesGrowInOrder
  <2>1. Received(c, s) /\ Parts \in Nat
    BY BoundAssumption DEF FileInv, ReceiveInv
  <2>2. ASSUME isOpen[c][s] PROVE filesIn[c][s] = Song(Len(filesIn[c][s]))
    BY <2>1, <2>2 DEF Received, Got
  <2>3. ASSUME ~isOpen[c][s], transferring[s][c] PROVE SubSeq(filesIn[c][s], 1, Parts) = Song(Parts)
    <3>1. Ended(c, s) /\ filesIn[c][s] = Whole(data[s])
      BY <2>1, <2>3 DEF Received, Closed
    <3>2. data[s] = Parts
      BY <2>3, <3>1 DEF Ended, FileInv, SendInv
    <3>3. CASE Parts = 0
      <4>1. SubSeq(filesIn[c][s], 1, Parts) = <<>>
        BY <3>3, SubSeqEmpty
      <4>2. Song(0) = <<>>
        BY DEF Song
      <4>3. QED
        BY <3>3, <4>1, <4>2
    <3>4. CASE Parts > 0
      <4> DEFINE t == Song(Parts)
      <4>1. t \in Seq(Nat) /\ Len(t) = Parts /\ <<Parts>> \in Seq(Nat)
        <5>1. t \in Seq(Nat) /\ Len(t) = Parts
          BY <2>1, SongIs
        <5> HIDE DEF t
        <5>2. QED
          BY <2>1, <5>1
      <4>2. filesIn[c][s] = t \o <<Parts>>
        BY <3>1, <3>2, <3>4 DEF Whole
      <4> HIDE DEF t
      <4>3. SubSeq(t \o <<Parts>>, 1, Parts) = SubSeq(t, 1, Parts)
        BY <2>1, <3>4, <4>1, SubSeqOfConcat1
      <4>4. SubSeq(t, 1, Parts) = t
        BY <4>1, SubSeqFull
      <4>5. QED
        BY <4>2, <4>3, <4>4 DEF t
    <3>5. QED
      BY <2>1, <3>3, <3>4
  <2>4. QED
    BY <2>2, <2>3
<1>2. QED
  BY <1>1, FileIsInvariant, PTL
=============================================================================
