---------------------------- MODULE LinearLayout ----------------------------
(***************************************************************************)
(* GuiLibrary/GuiLinearLayout along its own direction: what a row or a     *)
(* column of components gets of the room of their container.  A component  *)
(* is known by its preferred size, 0 for none, and its weight.  Margins    *)
(* are 0 wherever the program sets them, and every component is visible.   *)
(***************************************************************************)
EXTENDS Integers, Sequences

\* A component that asks for a size gets it.
Fixed(size) == [preferred |-> size, weight |-> 1]
Stretched == Fixed(0)

\* What the first n sizes add up to.
SumTo(sizes, n) ==
    LET sum[i \in 0..n] == IF i = 0 THEN 0 ELSE sum[i - 1] + sizes[i]
    IN  sum[n]

Sum(sizes) == SumTo(sizes, Len(sizes))

Preferred(components) == Sum([i \in 1..Len(components) |-> components[i].preferred])

Weights(components) ==
    Sum([i \in 1..Len(components) |-> IF components[i].preferred = 0 THEN components[i].weight ELSE 0])

\* Mutant: the preferred sizes are not taken off what the others share.
RequestedOfAll(components, room, i) ==
    LET c == components[i]
    IN  IF c.preferred # 0 THEN c.preferred
        ELSE (room * c.weight) \div Weights(components)

\* totalRequestedSize; the container holds what is preferred.
Requested(components, room, i) ==
    LET c == components[i]
    IN  IF c.preferred # 0 THEN c.preferred
        ELSE ((room - Preferred(components)) * c.weight) \div Weights(components)

\* resize: where each component begins, and its size.
Places(components, room) ==
    LET sizes == [i \in 1..Len(components) |-> Requested(components, room, i)]
    IN  [i \in 1..Len(components) |-> [at |-> SumTo(sizes, i - 1), size |-> sizes[i]]]
=============================================================================
