-------------------------------- MODULE Heap --------------------------------
(***************************************************************************)
(* Buffer/Heap: the binary heap of the jitter buffer, as operators on the  *)
(* array of its indexes (the payload of an element is known by its index). *)
(* The order is relative to a moving zero: indexes above it come first,    *)
(* ascending, then those below it, so that the order survives the          *)
(* wrap-around of the index.  The array is 1-based here: the parent of     *)
(* element i is i \div 2, and its children are 2i and 2i+1.                *)
(*                                                                         *)
(* Insert and Remove say without a loop what becomes of the array; the     *)
(* loops are below, written as the code has them, to compare them with.    *)
(***************************************************************************)
EXTENDS Integers, Sequences, FiniteSets

CONSTANT MaxInt    \* the largest int; the smallest is -MaxInt - 1

ASSUME MaxIntAssumption == MaxInt \in Nat \ {0}

VARIABLES data,          \* the array of indexes
          relativeZero   \* the zero of their order

heapVars == <<data, relativeZero>>

Ints == (-MaxInt - 1)..MaxInt

\* Two's complement wrap-around of an int computation.
Wrap(x) == ((x + MaxInt + 1) % (2 * (MaxInt + 1))) - MaxInt - 1

\* How far one index is ahead of another, wrap-around included.
Distance(from, to) == (to - from) % (2 * (MaxInt + 1))

\* Mutant: the order of the numbers, whatever the zero.
ComparePlainly(index1, index2, zero) == index2 - index1

\* comapreIndexes: positive when index1 comes before index2.
CompareIndexes(index1, index2, zero) ==
    CASE index1 > zero /\ index2 < zero -> 1
      [] index1 < zero /\ index2 > zero -> -1
      [] index1 = zero \/ index2 = zero -> 0
      [] OTHER -> Wrap(index2 - index1)

Before(index1, index2, zero) == CompareIndexes(index1, index2, zero) > 0

\* The elements on the way from i to the root, i included.
Upwards[i \in Nat] == IF i = 0 THEN {} ELSE {i} \cup Upwards[i \div 2]

-----------------------------------------------------------------------------
(***************************************************************************)
(* insert: x is appended and heapify swaps it with its parent for as long  *)
(* as it comes before it.  The ancestors it overtakes each move down one   *)
(* place on the path.                                                      *)
(***************************************************************************)
Insert(heap, x, zero) ==
    LET n == Len(heap) + 1
        Overtaken(a) == /\ a \in Upwards[n] \ {n}
                        /\ \A b \in Upwards[n] : b \in a..(n - 1) => Before(x, heap[b], zero)
    IN  [i \in 1..n |->
            IF i \in Upwards[n] /\ Overtaken(i \div 2) THEN heap[i \div 2]
            ELSE IF i = n \/ Overtaken(i) THEN x
            ELSE heap[i]]

\* Mutants: the last element takes the place of the root and stays there, or
\* it is the last element that goes.
RemoveUntrickled(heap, zero) ==
    LET n == Len(heap) - 1
    IN  [i \in 1..n |-> IF i = 1 THEN heap[n + 1] ELSE heap[i]]

RemoveLast(heap, zero) == SubSeq(heap, 1, Len(heap) - 1)

(***************************************************************************)
(* remove: the last element x replaces the root, and trickleDown swaps it  *)
(* with its first child for as long as that child comes before it (the     *)
(* right child when neither comes first).  The children it yields to each    *)
(* move up one place.                                                      *)
(***************************************************************************)
Remove(heap, zero) ==
    LET n == Len(heap) - 1
        x == heap[n + 1]
        left(i) == 2 * (i \div 2)
        FirstChild(i) ==
            IF i = left(i)
            THEN i = n \/ Before(heap[i], heap[i + 1], zero)
            ELSE ~Before(heap[i - 1], heap[i], zero)
        Yielded(i) ==
            /\ i \in 2..n
            /\ \A a \in Upwards[i] \ {1} : FirstChild(a) /\ Before(heap[a], x, zero)
    IN  [i \in 1..n |->
            IF Yielded(2 * i) THEN heap[2 * i]
            ELSE IF Yielded(2 * i + 1) THEN heap[2 * i + 1]
            ELSE IF i = 1 \/ Yielded(i) THEN x
            ELSE heap[i]]

-----------------------------------------------------------------------------
\* heapify and trickleDown from an element of h, one swap per call.  Of two children
\* that are 2^31 apart (MaxInt + 1 here) neither comes before the other nor is equal
\* to it, and the code goes on for ever without a swap (Heap.cpp:248-271); here the
\* right one is taken.  A heap that is used as in MCHeap holds no such indexes.
Swap(h, i, j) == [h EXCEPT ![i] = h[j], ![j] = h[i]]

Heapify[curr \in Nat] ==
    [h \in Seq(Ints) |->
        IF curr \in 2..Len(h) /\ Before(h[curr], h[curr \div 2], relativeZero)
        THEN Heapify[curr \div 2][Swap(h, curr, curr \div 2)]
        ELSE h]

TrickleDown[curr \in Nat \ {0}] ==
    [h \in Seq(Ints) |->
        LET left == 2 * curr
            right == left + 1
            child == IF right > Len(h) \/ Before(h[left], h[right], relativeZero) THEN left ELSE right
        IN  IF left <= Len(h) /\ Before(h[child], h[curr], relativeZero)
            THEN TrickleDown[child][Swap(h, child, curr)]
            ELSE h]

\* Insert and Remove are what the loops of the code compute: every insertion that
\* heapify settles, and every removal that trickleDown settles.
LoopsAreComputed ==
    /\ \A i \in Ints : Insert(data, i, relativeZero) = Heapify[Len(data) + 1][Append(data, i)]
    /\ data # <<>> => Remove(data, relativeZero) =
                         LET n == Len(data)
                         IN  TrickleDown[1][SubSeq(Swap(data, 1, n), 1, n - 1)]

\* The root is the first of all elements in the order of arrival after the
\* zero, also when the indexes have wrapped around and the zero has moved since
\* they were inserted.
RootComesFirst == \A i \in 1..Len(data) : Distance(relativeZero, data[1]) <= Distance(relativeZero, data[i])

\* Nothing is lost or duplicated when elements trickle: an insertion adds its
\* index to the elements and a removal takes the root away.
Count(h, v) == Cardinality({i \in 1..Len(h) : h[i] = v})
KeepsElements ==
    [][ LET Gained(v) == Count(data', v) - Count(data, v)
        IN  IF Len(data') < Len(data)
            THEN \A i \in Ints : Gained(i) = (IF i = data[1] THEN -1 ELSE 0)
            ELSE Cardinality({i \in Ints : Gained(i) # 0}) = Len(data') - Len(data) ]_heapVars
=============================================================================
