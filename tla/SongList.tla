------------------------------ MODULE SongList ------------------------------
(***************************************************************************)
(* The list of songs in the client's window: GuiScrollList with its bar    *)
(* and its pane, and the FileListItem of each song.  The window thread     *)
(* scrolls, resizes, paints and clicks; the control thread adds a song     *)
(* (ClientWindow::addRemoteFile) while it does so, without a lock.         *)
(*                                                                         *)
(* A double is a fraction.  WM_PAINT comes when nothing else is to be      *)
(* done: what is invalid is painted some time later, and only that.        *)
(***************************************************************************)
EXTENDS LinearLayout, FiniteSetsExt

CONSTANTS MaxSongs,       \* bound: songs that are added
          ItemHeight,     \* 64
          ButtonTop, ButtonBottom, PlayRight, SaveRight, Side,  \* 14, 50, 100, 56, 36
          WindowWidth, WindowHeights,   \* of the client area, as the user sizes it
          TopHeight, TrackerHeight, SeekHeight, SpacerHeight,   \* 32, 24, 64, 8
          BarWidth, TitleWidth, TargetWidth, ButtonWidth,      \* 16, 300, 200, 64
          MouseYs,        \* bound: where the mouse presses and drags the bar
          StrayHeights,   \* what totalHeight may hold before the first song
          Far             \* what an int holds that was made of a NaN, negated

\* The client's window sets a minimum size, 700 by 325, which GuiComponent enforces:
\* it is larger than its panels.
ASSUME SizeAssumption ==
    /\ WindowHeights \subseteq Nat
    /\ {TopHeight, TrackerHeight, SeekHeight, SpacerHeight, BarWidth, TitleWidth, TargetWidth, ButtonWidth}
          \subseteq Nat \ {0}
    /\ WindowWidth \in Nat
    /\ \A h \in WindowHeights : h > TopHeight + TrackerHeight + SeekHeight + SpacerHeight
    /\ WindowWidth > TitleWidth + TargetWidth /\ WindowWidth > 2 * ButtonWidth + 1 /\ WindowWidth > BarWidth

\* The buttons of an item lie in it, as far from its right edge as they are wide or more.
ASSUME ItemAssumption ==
    /\ ItemHeight \in Nat \ {0} /\ {ButtonTop, ButtonBottom, PlayRight, SaveRight, Side, Far} \subseteq Nat
    /\ Side <= SaveRight /\ Side <= PlayRight
    /\ MaxSongs \in Nat /\ StrayHeights \subseteq Int /\ MouseYs \subseteq Nat

VARIABLES windowHeight, listHeight, paneWidth,
          items,            \* yPos of each
          itemWidth,        \* the width each was last painted with
          totalHeight, region,              \* of the pane
          contentSize, currentPosition, trackerRect, barPreferred, \* of the bar
          drag,             \* its clickOffset while it is active
          adding,           \* what the control thread does
          barDirty,         \* the bar is to be painted
          drawn             \* what the pane shows, or that it is to be painted

layout  == <<windowHeight, listHeight, paneWidth>>
songs   == <<items, itemWidth>>
pane    == <<totalHeight, region>>
bar     == <<contentSize, currentPosition, trackerRect, barPreferred>>
painted == <<barDirty, drawn>>
listVars == <<layout, songs, pane, drag, bar, adding, painted>>

Column == <<Fixed(TopHeight), Stretched, Fixed(TrackerHeight), Fixed(SeekHeight), Fixed(SpacerHeight)>>
ListRow(width) == <<Stretched, Fixed(width)>>
TopRow == <<Fixed(TitleWidth), Fixed(TargetWidth), Stretched>>
SeekRow == <<Stretched, Fixed(ButtonWidth), Fixed(ButtonWidth), Stretched>>

\* torn: an item of the list was not in its place when it was painted.
Invalid == [width |-> 0, tops |-> <<>>, torn |-> FALSE]

Inactive == Far

NaN == <<0, 0>>
Fraction(n, d) == IF n <= 0 THEN <<0, 1>> ELSE IF n >= d THEN <<1, 1>> ELSE <<n, d>>
Truncated(n, d) == IF n < 0 THEN -((-n) \div d) ELSE n \div d
Times(position, n, d) == IF position = NaN THEN -Far ELSE Truncated(position[1] * n, position[2] * d)

\* onScroll, and the end of resize
Region(position, total, height) ==
    LET top == Times(position, total - height, 1)
    IN  [top |-> top, bottom |-> top + height]

ListInit ==
    /\ windowHeight \in WindowHeights
    /\ listHeight = Places(Column, windowHeight)[2].size
    /\ paneWidth = Places(ListRow(BarWidth), WindowWidth)[1].size
    /\ items = <<>> /\ itemWidth = <<>>
    /\ totalHeight \in StrayHeights
    /\ region = [top |-> 0, bottom |-> listHeight]
    /\ contentSize = 0 /\ currentPosition = <<0, 1>>
    /\ drag = Inactive
    /\ trackerRect = [top |-> 0, bottom |-> 0]
    /\ barPreferred = BarWidth
    /\ adding = "idle"
    /\ barDirty = TRUE /\ drawn = Invalid

-----------------------------------------------------------------------------
\* addRemoteFile: FileListItem, GuiScrollListPane::addItem, setContentSize
AddGoto(from, to) == adding = from /\ adding' = to

NewItem == [yPos |-> 0, width |-> 0]

AddPush ==
    /\ AddGoto("idle", "total")
    /\ Len(items) < MaxSongs
    /\ items' = Append(items, NewItem.yPos)
    /\ itemWidth' = Append(itemWidth, NewItem.width)
    /\ UNCHANGED <<layout, pane, drag, bar, painted>>

AddTotal ==
    /\ AddGoto("total", "move")
    /\ totalHeight' = ItemHeight + (IF Len(items) = 1 THEN 0 ELSE totalHeight)
    /\ UNCHANGED <<layout, songs, region, drag, bar, painted>>

AddMove ==
    /\ AddGoto("move", "content")
    /\ items' = [items EXCEPT ![Len(items)] = totalHeight - ItemHeight]
    /\ UNCHANGED <<layout, itemWidth, pane, drag, bar, painted>>

\* Only the bar is invalidated.
AddContent ==
    /\ AddGoto("content", "idle")
    /\ contentSize' = contentSize + ItemHeight
    /\ barDirty' = TRUE
    /\ UNCHANGED <<layout, songs, pane, drag, currentPosition, trackerRect, barPreferred, drawn>>

addRemoteFile == AddPush \/ AddTotal \/ AddMove \/ AddContent

-----------------------------------------------------------------------------
\* GuiScrollBar.  An empty list leaves the tracker as it is.
calculateTrackerSize ==
    LET top == Times(currentPosition, listHeight * (contentSize - listHeight), contentSize)
    IN  IF contentSize = 0 THEN UNCHANGED <<trackerRect, barPreferred>>
        ELSE /\ trackerRect' =
                    [top |-> top, bottom |-> Truncated(top * contentSize + listHeight * listHeight, contentSize)]
             /\ barPreferred' = IF listHeight >= contentSize THEN 1 ELSE BarWidth

PaintBar ==
    /\ barDirty /\ barDirty' = FALSE
    /\ calculateTrackerSize
    /\ UNCHANGED <<layout, songs, pane, drag, contentSize, currentPosition, adding, drawn>>

PressBar(y) ==
    /\ drag' = trackerRect.top - y
    /\ barDirty' = TRUE
    /\ UNCHANGED <<layout, songs, pane, bar, adding, drawn>>

\* Mutant: the way the tracker can go is its size too long.
PercentOfHeight(y) == Fraction(y, listHeight + trackerRect.bottom - trackerRect.top)

\* Where the mouse has dragged the tracker, cut to 0..1; a list that just fits
\* leaves no way to go.
Percent(y) ==
    LET way == listHeight - (trackerRect.bottom - trackerRect.top)
    IN  CASE way > 0 -> Fraction(y, way)
          [] way < 0 -> Fraction(-y, -way)
          [] way = 0 /\ y = 0 -> NaN
          [] OTHER -> Fraction(y, 1)

setTrackPosition(position) ==
    /\ currentPosition' = position
    /\ region' = Region(position, totalHeight, listHeight)

DragBar(y) ==
    /\ drag # Inactive
    /\ setTrackPosition(Percent(y + drag))
    /\ drawn' = Invalid /\ barDirty' = TRUE
    /\ UNCHANGED <<layout, songs, totalHeight, drag, contentSize, trackerRect, barPreferred, adding>>

\* A release elsewhere is not seen by the bar.
ReleaseBar ==
    /\ drag # Inactive /\ drag' = Inactive
    /\ barDirty' = TRUE
    /\ UNCHANGED <<layout, songs, pane, bar, adding, drawn>>

-----------------------------------------------------------------------------
\* GuiScrollListPane and FileListItem
Top(i) == items[i] - region.top

\* paint goes on until an item begins below the region, as the loop looks at it.
PaintedItems == {i \in DOMAIN items : \A j \in 1..i : Top(j) < region.bottom}

\* FileListItem::paint keeps the width for the clicks.
PaintItems ==
    /\ itemWidth' = [i \in DOMAIN items |-> IF i \in PaintedItems THEN paneWidth ELSE itemWidth[i]]
    /\ drawn' = [width |-> paneWidth, tops |-> [i \in PaintedItems |-> Top(i)],
                 torn |-> adding \in {"total", "move"}]

PaintPane ==
    /\ drawn = Invalid
    /\ PaintItems
    /\ UNCHANGED <<layout, items, pane, drag, bar, adding, barDirty>>

\* pointInPlayButton, pointInSaveButton, y counted from the top of the item
ButtonAt(x, y, width) ==
    IF y <= ButtonTop \/ y >= ButtonBottom THEN "none"
    ELSE IF width - PlayRight < x /\ x < width - PlayRight + Side THEN "play"
    ELSE IF width - SaveRight < x /\ x < width - SaveRight + Side THEN "save"
    ELSE "none"

NoButton == <<0, "none">>
On(i, button) == IF button = "none" THEN NoButton ELSE <<i, button>>

\* Mutant: the region is forgotten.
ClickedUnscrolled(x, y) ==
    LET under == {i \in DOMAIN items : items[i] < y /\ y < items[i] + ItemHeight}
        i == Min(under)
    IN  IF under = {} THEN NoButton ELSE On(i, ButtonAt(x, y - items[i], itemWidth[i]))

\* The first item that is under the mouse, if the loop gets to it, and its button.
Clicked(x, y) ==
    LET under == {i \in DOMAIN items :
                     /\ Top(i) < y /\ y < Top(i) + ItemHeight
                     /\ \A j \in 1..(i - 1) : Top(j) < region.bottom}
        i == Min(under)
    IN  IF under = {} THEN NoButton ELSE On(i, ButtonAt(x, y - Top(i), itemWidth[i]))

\* A song's button asks the control thread; the mark of a download is in FileTransfer,
\* here the list is drawn anew for it.
ClickPane(x, y) ==
    /\ Clicked(x, y)[2] = "save"
    /\ drawn' = Invalid /\ barDirty' = TRUE
    /\ UNCHANGED <<layout, songs, pane, drag, bar, adding>>

-----------------------------------------------------------------------------
\* The user sizes the window.
Resize(height) ==
    /\ height # windowHeight
    /\ windowHeight' = height
    /\ listHeight' = Places(Column, height)[2].size
    /\ paneWidth' = Places(ListRow(barPreferred), WindowWidth)[1].size
    /\ region' = Region(currentPosition, totalHeight, listHeight')
    /\ drawn' = Invalid /\ barDirty' = TRUE
    /\ UNCHANGED <<songs, totalHeight, drag, bar, adding>>

Ys == 0..(listHeight - 1)

ListMessage ==
    \/ PaintBar \/ PaintPane \/ ReleaseBar
    \/ \E y \in MouseYs \cap Ys : PressBar(y) \/ DragBar(y)
    \/ \E x \in 0..(paneWidth - 1), y \in Ys : ClickPane(x, y)
    \/ \E height \in WindowHeights : Resize(height)

-----------------------------------------------------------------------------
\* What the user sees at a point: of items drawn over each other, the last.
Seen(x, y) ==
    LET under == {i \in DOMAIN drawn.tops : drawn.tops[i] <= y /\ y < drawn.tops[i] + ItemHeight}
        i == Max(under)
    IN  IF under = {} THEN NoButton ELSE On(i, ButtonAt(x, y - drawn.tops[i], drawn.width))

\* A click does what the button says that is seen under the mouse, of the song it
\* is drawn with, and does nothing elsewhere: whatever was scrolled, resized or
\* added since, once the pane has been painted again, and unless it was painted
\* while the control thread had an item in the list that was not in its place.
ClicksAreOnWhatIsSeen ==
    drawn # Invalid /\ ~drawn.torn /\ region.top >= 0 =>
        \A x \in 0..(paneWidth - 1), y \in Ys : Clicked(x, y) = Seen(x, y)

\* Whoever drags the tracker from its top can bring every song into view, whole: not
\* kept by the code while the position of the bar is that of a list that just fitted,
\* 0/0, which makes the tracker a pixel too long until it is dragged again.
BarReachesEverySong ==
    adding = "idle" /\ ~barDirty /\ contentSize > listHeight =>
        \A i \in DOMAIN items : \E y \in Ys :
            LET shown == Region(Percent(y), totalHeight, listHeight)
            IN  shown.top <= items[i] /\ items[i] + ItemHeight <= shown.bottom

\* It is kept from any other position, however songs were added, the bar was dragged
\* and the window was sized before.
EverySongCanBeShown == currentPosition # NaN => BarReachesEverySong

\* The panels of the window and of its rows lie in it, one after the other, and the
\* list has its bar beside it, at every size the user may give the window.
PanelsFit ==
    LET Fit(components, room) ==
            LET places == Places(components, room)
                End(i) == places[i].at + places[i].size
            IN  \A i \in DOMAIN places :
                    /\ places[i].size > 0 /\ End(i) <= room
                    /\ \A j \in 1..(i - 1) : End(j) <= places[i].at
    IN  /\ Fit(Column, windowHeight)
        /\ \A row \in {TopRow, SeekRow, ListRow(barPreferred)} : Fit(row, WindowWidth)
=============================================================================
