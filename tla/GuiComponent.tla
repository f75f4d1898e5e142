---------------------------- MODULE GuiComponent ----------------------------
(***************************************************************************)
(* GuiLibrary/GuiComponent: which functions a message of Windows gets to.  *)
(* A listener is known by its name; `ends' are those that return true.     *)
(***************************************************************************)
EXTENDS SequencesExt

DefWindowProc == "DefWindowProc"
drawBackground == "drawBackground"

addMessageListener(listeners, listener) == Append(listeners, listener)

\* The listeners that run: up to the first that ends the message.
triggerMessage(listeners, ends) ==
    LET i == SelectInSeq(listeners, LAMBDA l : l \in ends)
    IN  IF i = 0 THEN listeners ELSE SubSeq(listeners, 1, i)

WndProc(listeners, ends) ==
    LET ran == triggerMessage(listeners, ends)
    IN  IF ran # <<>> /\ Last(ran) \in ends THEN ran ELSE Append(ran, DefWindowProc)

\* init: the background comes after what the constructor has registered, and ends
\* the message where custom drawing is enabled.
PaintedBy(listeners, drawCustom) ==
    WndProc(addMessageListener(listeners, drawBackground),
            ToSet(listeners) \cup (IF drawCustom THEN {drawBackground} ELSE {}))
=============================================================================
