---------------------------- MODULE ButtonPanel -----------------------------
(***************************************************************************)
(* Client/ButtonPanel: the buttons that play and stop.  What their click   *)
(* listeners do is in MusicBuffer and PlayWave.                            *)
(*                                                                         *)
(* Nothing captures the mouse, so that a button hears only of what happens *)
(* while the mouse is over it.  Nor does anything ask Windows to report    *)
(* that the mouse leaves (TrackMouseEvent), which a listener waits for.    *)
(* Here Windows may report it or not.                                      *)
(***************************************************************************)
EXTENDS GuiComponent

CONSTANTS Buttons, Elsewhere   \* where the mouse may be

VARIABLES mouseAt,       \* where the mouse is
          pressed,       \* its button is held
          buttonDown,    \* mouseDown
          buttonState,   \* which image is to be shown
          buttonShown,   \* what the screen shows
          buttonDirty    \* it is to be painted

mouse      == <<mouseAt, pressed>>
images     == <<buttonState, buttonShown, buttonDirty>>
buttonVars == <<mouse, buttonDown, images>>

ButtonInit ==
    /\ mouseAt = Elsewhere /\ pressed = FALSE
    /\ buttonDown = [b \in Buttons |-> FALSE]
    /\ buttonState = [b \in Buttons |-> "up"]
    /\ buttonShown = [b \in Buttons |-> "none"]
    /\ buttonDirty = [b \in Buttons |-> TRUE]

Draw(b, image) ==
    /\ buttonState' = [buttonState EXCEPT ![b] = image]
    /\ buttonDirty' = [buttonDirty EXCEPT ![b] = TRUE]
    /\ UNCHANGED buttonShown

\* onClick
PressButton(b) ==
    /\ mouseAt = b /\ ~pressed
    /\ pressed' = TRUE
    /\ buttonDown' = [buttonDown EXCEPT ![b] = TRUE]
    /\ Draw(b, "down")
    /\ UNCHANGED mouseAt

\* onClickUp; then the click listener is called.
ReleaseButton(b) ==
    /\ mouseAt = b /\ pressed
    /\ pressed' = FALSE
    /\ buttonDown' = [buttonDown EXCEPT ![b] = FALSE]
    /\ \/ buttonDown[b] /\ Draw(b, "up")
       \/ ~buttonDown[b] /\ UNCHANGED images
    /\ UNCHANGED mouseAt

\* The user presses or releases the mouse where no button hears of it.
ClickElsewhere ==
    /\ mouseAt = Elsewhere
    /\ pressed' = ~pressed
    /\ UNCHANGED <<mouseAt, buttonDown, images>>

\* onMouseMove
MoveOverButton(b) ==
    /\ mouseAt \in {Elsewhere, b}
    /\ mouseAt' = b
    /\ \/ buttonDown[b] /\ Draw(b, "down")
       \/ ~buttonDown[b] /\ UNCHANGED images
    /\ UNCHANGED <<pressed, buttonDown>>

onMouseLeave(b) ==
    \/ ~buttonDown[b] /\ Draw(b, "up")
    \/ buttonDown[b] /\ UNCHANGED images

MouseLeaves(b) ==
    /\ mouseAt = b
    /\ mouseAt' = Elsewhere
    /\ \/ onMouseLeave(b)
       \/ UNCHANGED images
    /\ UNCHANGED <<pressed, buttonDown>>

PaintButton(b) ==
    /\ buttonDirty[b]
    /\ buttonDirty' = [buttonDirty EXCEPT ![b] = FALSE]
    /\ buttonShown' = [buttonShown EXCEPT ![b] =
                          CASE Last(PaintedBy(<<"paint">>, TRUE)) = "paint" -> buttonState[b]
                            [] OTHER -> "background"]
    /\ UNCHANGED <<mouse, buttonDown, buttonState>>

ButtonMessage ==
    \/ ClickElsewhere
    \/ \E b \in Buttons : \/ PressButton(b) \/ ReleaseButton(b)
                          \/ MoveOverButton(b) \/ MouseLeaves(b) \/ PaintButton(b)

-----------------------------------------------------------------------------
\* Not so: "When the mouse is moved, and the mouse button is held down, un-press the
\* button if the mouse leaves the client area" (onMouseLeave, ButtonPanel.cpp:267-268).
\* Whether Windows reports it or not, the listener leaves a held button alone.
HeldButtonIsUnpressed == \A b \in Buttons : mouseAt # b => buttonState[b] = "up"
=============================================================================
