------------------------------- MODULE MCHeap -------------------------------
(***************************************************************************)
(* A heap used as the jitter buffer uses it: the indexes inserted are      *)
(* ahead of the zero, at most Span, and the zero moves up to, not past,    *)
(* the root.                                                               *)
(***************************************************************************)
EXTENDS Heap

CONSTANTS Span,      \* how far ahead of the zero an index may be
          MaxSize    \* bound on the elements in the heap

Init == data = <<>> /\ relativeZero = 0

InsertIndex(index) ==
    /\ Len(data) < MaxSize
    /\ Distance(relativeZero, index) \in 1..Span
    /\ data' = Insert(data, index, relativeZero)
    /\ UNCHANGED relativeZero

RemoveRoot ==
    /\ data # <<>>
    /\ data' = Remove(data, relativeZero)
    /\ UNCHANGED relativeZero

SetRelativeZero ==
    /\ \A i \in 1..Len(data) : Distance(relativeZero, data[i]) > 1
    /\ relativeZero' = Wrap(relativeZero + 1)
    /\ UNCHANGED data

Next == (\E index \in Ints : InsertIndex(index)) \/ RemoveRoot \/ SetRelativeZero

Spec == Init /\ [][Next]_heapVars
=============================================================================
