----------------------------- MODULE JitterProofs -----------------------------
(***************************************************************************)
(* The jitter buffer counts its elements and slots, and is open or about   *)
(* to be whenever it holds any, for any capacity, any width of the index   *)
(* and any number of threads that put and get; fed by a stream, it is      *)
(* still that buffer, and moves to another index only after the strikes.   *)
(* A stream that only loses packets leaves none behind in the buffer, as   *)
(* insert and remove keep the heap in order; the last sections are about   *)
(* the heap in use, and show that its loops do what is said of it.         *)
(***************************************************************************)
EXTENDS JitterStream, FiniteSetTheorems, WellFoundedInduction, TLAPS

\* An index stays an int, whatever is added to it.
LEMMA WrapIsInt == \A x \in Int : Wrap(x) \in Ints
<1>1. \A a \in Int, b \in Nat \ {0} : a % b \in 0..(b - 1)
  OBVIOUS
<1>2. SUFFICES ASSUME NEW x \in Int PROVE Wrap(x) \in Ints
  OBVIOUS
<1>3. (x + MaxInt + 1) % (2 * (MaxInt + 1)) \in 0..(2 * MaxInt + 1)
  <2>1. /\ x + MaxInt + 1 \in Int /\ 2 * (MaxInt + 1) \in Nat \ {0}
        /\ 2 * (MaxInt + 1) - 1 = 2 * MaxInt + 1
    BY MaxIntAssumption
  <2>2. QED
    BY <1>1, <2>1
<1>4. QED
  BY <1>3, MaxIntAssumption DEF Wrap, Ints

-----------------------------------------------------------------------------
(***************************************************************************)
(* The heap.  Upwards is the way from an element to the root, and insert   *)
(* and remove shift the elements on a way: this keeps every element behind *)
(* its parent, for a heap of any size and any order by a rank.             *)
(***************************************************************************)
\* A set of natural numbers has a least element: with T the numbers a claim is
\* false of, this is induction.
LEMMA Least ==
    ASSUME NEW T, T \subseteq Nat, T # {}
    PROVE  \E x \in T : \A y \in T : x <= y
<1> DEFINE below(n) == 0..(n - 1)
           Sets == {below(n) : n \in T}
<1>1. IsWellFoundedOn(StrictSubsetOrdering(Nat), FiniteSubsetsOf(Nat))
  BY FS_StrictSubsetOrderingWellFounded
<1>2. Sets \subseteq FiniteSubsetsOf(Nat)
  <2>1. ASSUME NEW n \in T PROVE below(n) \in SUBSET Nat /\ IsFiniteSet(below(n))
    BY FS_Interval
  <2>2. QED
    BY <2>1 DEF FiniteSubsetsOf
<1>3. Sets # {}
  OBVIOUS
<1> HIDE DEF Sets
<1>4. PICK s \in Sets : \A r \in Sets : ~ (<<r, s>> \in StrictSubsetOrdering(Nat))
  BY <1>1, <1>2, <1>3, WFMin
<1>5. PICK x \in T : s = below(x)
  BY DEF Sets
<1>6. ASSUME NEW y \in T, y < x PROVE FALSE
  <2>1. below(y) \in SUBSET Nat /\ below(x) \in SUBSET Nat /\ below(y) \subseteq below(x)
    BY <1>6
  <2>2. y \in below(x) /\ y \notin below(y)
    BY <1>6
  <2>3. <<below(y), below(x)>> \in StrictSubsetOrdering(Nat)
    BY <2>1, <2>2 DEF StrictSubsetOrdering
  <2>4. below(y) \in Sets
    BY DEF Sets
  <2>5. QED
    BY <1>4, <1>5, <2>3, <2>4
<1>7. QED
  BY <1>6

\* Quotients by two: the parent of an element, and its two children.
LEMMA HalfIs ==
    /\ \A i \in Nat \ {0} : i \div 2 \in Nat /\ i \div 2 < i
    /\ \A i \in Nat : (2 * i) \div 2 = i /\ (2 * i + 1) \div 2 = i
    /\ \A i \in Nat : i = 2 * (i \div 2) \/ i = 2 * (i \div 2) + 1
    /\ \A i \in Nat : i \div 2 = 0 <=> i \in {0, 1}
OBVIOUS

\* The sets that hold the parents of their elements.
HoldsParents(S) == \A b \in S \ {1} : b \div 2 \in S

\* The way to the root, said without recursion: the least such set that holds i.
Way(i) == {a \in 1..i : \A S \in SUBSET (1..i) : i \in S /\ HoldsParents(S) => a \in S}

\* The way of an element begins with it, and goes on with that of its parent.
LEMMA WayGoesOn ==
    \A i \in Nat \ {0} : Way(i) = {i} \cup Way(i \div 2)
<1> SUFFICES ASSUME NEW i \in Nat \ {0} PROVE Way(i) = {i} \cup Way(i \div 2)
  OBVIOUS
<1> DEFINE h == i \div 2
<1>1. h \in Nat /\ h < i /\ (h = 0 <=> i = 1)
  BY HalfIs
<1> HIDE DEF h
<1>2. i \in Way(i)
  BY DEF Way
<1>3. ASSUME NEW a \in Way(h) PROVE a \in Way(i)
  <2>1. a \in 1..h /\ a \in 1..i
    BY <1>1 DEF Way
  <2>2. ASSUME NEW S \in SUBSET (1..i), i \in S, HoldsParents(S) PROVE a \in S
    <3> DEFINE R == S \cap (1..h)
    <3>1. h \in S
      BY <1>1, <2>1, <2>2 DEF HoldsParents, h
    <3>2. R \in SUBSET (1..h) /\ h \in R
      BY <1>1, <2>1, <3>1
    <3>3. ASSUME NEW b \in R \ {1} PROVE b \div 2 \in R
      <4>1. b \div 2 \in S
        BY <2>2, <3>3 DEF HoldsParents
      <4>2. b \in Nat \ {0} /\ b <= h
        BY <3>3
      <4>3. b \div 2 < b /\ b \div 2 \in 1..i
        BY <4>1, <4>2, HalfIs
      <4>4. QED
        BY <1>1, <4>1, <4>2, <4>3
    <3>4. QED
      BY <3>2, <3>3 DEF Way, HoldsParents
  <2>3. QED
    BY <2>1, <2>2 DEF Way
<1>4. ASSUME NEW a \in Way(i), a # i PROVE a \in Way(h)
  <2>1. \A S \in SUBSET (1..i) : i \in S /\ HoldsParents(S) => a \in S
    BY DEF Way
  <2>2. ASSUME NEW S \in SUBSET (1..h), h \in S, HoldsParents(S) PROVE a \in S
    <3> DEFINE R == S \cup {i}
    <3>1. R \in SUBSET (1..i) /\ i \in R
      BY <1>1
    <3>2. HoldsParents(R)
      BY <1>1, <2>2 DEF HoldsParents, h
    <3>3. QED
      BY <1>4, <2>1, <3>1, <3>2
  <2>3. a \in 1..h
    <3>1. CASE h = 0
      <4>1. HoldsParents({1}) /\ {1} \in SUBSET (1..i)
        BY <1>1, <3>1 DEF HoldsParents
      <4>2. QED
        BY <1>1, <1>4, <2>1, <3>1, <4>1
    <3>2. CASE h # 0
      <4> DEFINE R == (1..h) \cup {i}
      <4>1. R \in SUBSET (1..i) /\ i \in R
        BY <1>1
      <4>2. ASSUME NEW b \in R \ {1} PROVE b \div 2 \in R
        <5>1. b \in Nat \ {0} /\ b \div 2 \in Nat /\ b \div 2 < b /\ b \div 2 # 0
          BY <1>1, <4>2, HalfIs
        <5>2. QED
          BY <1>1, <4>2, <5>1 DEF h
      <4>3. HoldsParents(R)
        BY <4>2 DEF HoldsParents
      <4>4. QED
        BY <1>4, <2>1, <4>1, <4>3
    <3>3. QED
      BY <3>1, <3>2
  <2>4. QED
    BY <2>2, <2>3 DEF Way
<1>5. QED
  BY <1>2, <1>3, <1>4 DEF h

\* So Upwards is the way: the recursion that defines it has a solution, and one only.
LEMMA UpwardsIs == \A i \in Nat : Upwards[i] = Way(i)
<1> DEFINE up(f) == [i \in Nat |-> IF i = 0 THEN {} ELSE {i} \cup f[i \div 2]]
<1>1. Upwards = CHOOSE f : f = up(f)
  BY DEF Upwards
<1>2. Way(0) = {}
  BY DEF Way
<1>3. \E f : f = up(f)
  <2> DEFINE w == [i \in Nat |-> Way(i)]
  <2>1. ASSUME NEW i \in Nat PROVE w[i] = up(w)[i]
    BY <1>2, WayGoesOn, HalfIs
  <2>2. w = up(w)
    BY <2>1
  <2>3. QED
    BY <2>2
<1>4. Upwards = up(Upwards)
  BY <1>1, <1>3
<1>5. ASSUME NEW i \in Nat PROVE Upwards[i] = IF i = 0 THEN {} ELSE {i} \cup Upwards[i \div 2]
  <2>1. up(Upwards)[i] = IF i = 0 THEN {} ELSE {i} \cup Upwards[i \div 2]
    OBVIOUS
  <2>2. QED
    BY <1>4, <2>1
<1> HIDE DEF up
<1>6. ASSUME NEW i \in Nat, Upwards[i] # Way(i) PROVE FALSE
  <2> DEFINE T == {m \in Nat : Upwards[m] # Way(m)}
  <2>1. PICK m \in T : \A y \in T : m <= y
    <3>1. T \subseteq Nat /\ T # {}
      BY <1>6
    <3>2. QED
      BY <3>1, Least
  <2>2. m # 0
    BY <1>2, <1>5
  <2>3. m \div 2 \in Nat /\ m \div 2 < m
    BY <2>2, HalfIs
  <2>4. Upwards[m \div 2] = Way(m \div 2)
    BY <2>1, <2>3
  <2>5. QED
    BY <1>5, <2>2, <2>4, WayGoesOn
<1>7. QED
  BY <1>6

\* The way upwards begins at i, goes from each element to its parent, and passes no
\* other element.
LEMMA UpwardsGoesOn ==
    \A i \in Nat \ {0} :
        /\ i \in Upwards[i] /\ Upwards[i] \subseteq 1..i
        /\ Upwards[i] = {i} \cup Upwards[i \div 2]
        /\ HoldsParents(Upwards[i])
        /\ \A S \in SUBSET (1..i) : i \in S /\ HoldsParents(S) => Upwards[i] \subseteq S
<1> SUFFICES ASSUME NEW i \in Nat \ {0}
             PROVE  /\ i \in Way(i) /\ Way(i) \subseteq 1..i
                    /\ Way(i) = {i} \cup Way(i \div 2)
                    /\ HoldsParents(Way(i))
                    /\ \A S \in SUBSET (1..i) : i \in S /\ HoldsParents(S) => Way(i) \subseteq S
  BY UpwardsIs, HalfIs
<1>1. i \in Way(i) /\ Way(i) = {i} \cup Way(i \div 2)
  BY WayGoesOn
<1>2. Way(i) \subseteq 1..i
  BY DEF Way
<1>3. \A S \in SUBSET (1..i) : i \in S /\ HoldsParents(S) => Way(i) \subseteq S
  BY DEF Way
<1>4. ASSUME NEW b \in Way(i) \ {1} PROVE b \div 2 \in Way(i)
  <2>1. b \in 2..i /\ b \div 2 \in 1..i
    <3>1. b \in 2..i
      BY <1>2, <1>4
    <3>2. b \in Nat \ {0} /\ b \div 2 \in Nat /\ b \div 2 < b /\ b \div 2 # 0
      BY <3>1, HalfIs
    <3>3. QED
      BY <3>1, <3>2
  <2>2. ASSUME NEW S \in SUBSET (1..i), i \in S, HoldsParents(S) PROVE b \div 2 \in S
    BY <1>3, <1>4, <2>2 DEF HoldsParents
  <2>3. QED
    BY <2>1, <2>2 DEF Way
<1>5. QED
  BY <1>1, <1>2, <1>3, <1>4 DEF HoldsParents

\* One element of it is above another by its parent at least, and each but the first
\* is the parent of another.
LEMMA UpwardsIsAPath ==
    ASSUME NEW n \in Nat \ {0}, NEW a \in Upwards[n]
    PROVE  /\ Upwards[a] \subseteq Upwards[n]
           /\ \A b \in Upwards[n] : b < a => b \in Upwards[a \div 2] /\ b <= a \div 2
           /\ a # n => \E c \in Upwards[n] : c # 1 /\ c \div 2 = a
<1> DEFINE P == Upwards[n]
<1>1. P \subseteq 1..n /\ n \in P /\ HoldsParents(P)
  BY UpwardsGoesOn
<1>2. /\ Upwards[a] \subseteq P
      /\ \A b \in P : b < a => b \in Upwards[a \div 2]
  <2> DEFINE S == {i \in P : Upwards[i] \subseteq P /\ \A b \in P : b >= i \/ b \in Upwards[i]}
  <2>1. n \in S /\ S \in SUBSET (1..n)
    BY <1>1
  <2>2. ASSUME NEW i \in S \ {1} PROVE i \div 2 \in S
    <3>1. i \in Nat \ {0} /\ i \div 2 \in Nat \ {0} /\ i \div 2 < i
      BY <1>1, <2>2, HalfIs
    <3>2. i \div 2 \in P
      BY <1>1, <2>2 DEF HoldsParents
    <3>3. Upwards[i] = {i} \cup Upwards[i \div 2]
      BY <3>1, UpwardsGoesOn
    <3>4. ASSUME NEW b \in P PROVE b >= i \div 2 \/ b \in Upwards[i \div 2]
      <4>1. b \in Nat
        BY <1>1
      <4>2. b >= i \/ b \in Upwards[i]
        BY <2>2
      <4>3. QED
        BY <3>1, <3>3, <4>1, <4>2
    <3>5. Upwards[i \div 2] \subseteq P
      BY <2>2, <3>3
    <3>6. QED
      BY <3>2, <3>4, <3>5
  <2> HIDE DEF S
  <2>3. a \in S
    BY <2>1, <2>2, UpwardsGoesOn DEF HoldsParents
  <2>4. a \in Nat \ {0}
    BY <1>1
  <2>5. Upwards[a] = {a} \cup Upwards[a \div 2]
    BY <2>4, UpwardsGoesOn
  <2>6. ASSUME NEW b \in P, b < a PROVE b \in Upwards[a \div 2]
    <3>1. b \in Nat
      BY <1>1
    <3>2. QED
      BY <2>3, <2>4, <2>5, <2>6, <3>1 DEF S
  <2>7. QED
    BY <2>3, <2>6 DEF S
<1>3. ASSUME NEW b \in P, b < a PROVE b <= a \div 2
  <2>1. a \in Nat \ {0} /\ b \in Nat \ {0} /\ b \in Upwards[a \div 2]
    BY <1>1, <1>2, <1>3
  <2>2. a \div 2 \in Nat \ {0}
    <3>1. a \notin {0, 1}
      BY <1>3, <2>1
    <3>2. QED
      BY <2>1, <3>1, HalfIs
  <2>3. b \in 1..(a \div 2)
    BY <2>1, <2>2, UpwardsGoesOn
  <2>4. QED
    BY <2>2, <2>3
<1>4. ASSUME a # n PROVE \E c \in P : c # 1 /\ c \div 2 = a
  <2> DEFINE S == {i \in P : i = n \/ \E c \in P : c # 1 /\ c \div 2 = i}
  <2>1. S \in SUBSET (1..n) /\ n \in S
    BY <1>1
  <2>2. HoldsParents(S)
    BY <1>1 DEF HoldsParents
  <2>3. a \in S
    BY <2>1, <2>2, UpwardsGoesOn
  <2>4. QED
    BY <1>4, <2>3
<1>5. QED
  BY <1>2, <1>3, <1>4

\* insert adds one element and looks at none outside of the array.
LEMMA InsertAddsOne ==
    ASSUME NEW heap \in Seq(Ints), NEW x \in Ints, NEW zero
    PROVE  Insert(heap, x, zero) \in Seq(Ints) /\ Len(Insert(heap, x, zero)) = Len(heap) + 1
<1> DEFINE n == Len(heap) + 1
           Overtaken(a) == /\ a \in Upwards[n] \ {n}
                           /\ \A b \in Upwards[n] : b \in a..(n - 1) => Before(x, heap[b], zero)
           element(i) == IF i \in Upwards[n] /\ Overtaken(i \div 2) THEN heap[i \div 2]
                         ELSE IF i = n \/ Overtaken(i) THEN x ELSE heap[i]
<1>1. n \in Nat
  OBVIOUS
<1>2. ASSUME NEW i \in 1..n PROVE element(i) \in Ints
  <2>1. CASE i \in Upwards[n] /\ Overtaken(i \div 2)
    <3>1. i \div 2 \in 1..n /\ i \div 2 # n
      BY <1>1, <2>1, UpwardsGoesOn
    <3>2. i \div 2 \in 1..Len(heap)
      BY <3>1
    <3>3. QED
      BY <2>1, <3>2
  <2>2. CASE ~(i \in Upwards[n] /\ Overtaken(i \div 2)) /\ (i = n \/ Overtaken(i))
    <3>1. element(i) = x
      BY <2>2
    <3>2. QED
      BY <3>1
  <2>3. CASE ~(i \in Upwards[n] /\ Overtaken(i \div 2)) /\ ~(i = n \/ Overtaken(i))
    <3>1. element(i) = heap[i] /\ i \in 1..Len(heap)
      BY <2>3
    <3>2. QED
      BY <3>1
  <2>4. QED
    BY <2>1, <2>2, <2>3
<1>3. Insert(heap, x, zero) = [i \in 1..n |-> element(i)]
  BY DEF Insert
<1> HIDE DEF element, n
<1>4. QED
  BY <1>1, <1>2, <1>3 DEF n

\* remove takes one element away and looks at none outside of the array.
LEMMA RemoveTakesOne ==
    ASSUME NEW heap \in Seq(Ints), NEW zero, heap # <<>>
    PROVE  Remove(heap, zero) \in Seq(Ints) /\ Len(Remove(heap, zero)) = Len(heap) - 1
<1> DEFINE n == Len(heap) - 1
           x == heap[n + 1]
           left(i) == 2 * (i \div 2)
           FirstChild(i) == IF i = left(i)
                            THEN i = n \/ Before(heap[i], heap[i + 1], zero)
                            ELSE ~Before(heap[i - 1], heap[i], zero)
           Yielded(i) == /\ i \in 2..n
                         /\ \A a \in Upwards[i] \ {1} : FirstChild(a) /\ Before(heap[a], x, zero)
           element(i) == IF Yielded(2 * i) THEN heap[2 * i]
                         ELSE IF Yielded(2 * i + 1) THEN heap[2 * i + 1]
                         ELSE IF i = 1 \/ Yielded(i) THEN x
                         ELSE heap[i]
<1>1. n \in Nat /\ x \in Ints
  OBVIOUS
<1>2. \A i : Yielded(i) => i \in 2..n
  OBVIOUS
<1>3. Remove(heap, zero) = [i \in 1..n |-> element(i)]
  BY DEF Remove
<1>4. \A i \in 1..n : heap[i] \in Ints
  OBVIOUS
<1>5. ASSUME NEW i \in 1..n PROVE element(i) \in Ints
  <2> HIDE DEF Yielded, x
  <2>1. Yielded(2 * i) => heap[2 * i] \in Ints
    BY <1>2
  <2>2. Yielded(2 * i + 1) => heap[2 * i + 1] \in Ints
    BY <1>2
  <2> HIDE DEF n
  <2>3. QED
    BY <1>1, <1>4, <2>1, <2>2
<1> HIDE DEF element, n
<1>6. QED
  BY <1>1, <1>3, <1>5 DEF n

\* The parent of any element but the root.
LEMMA Halves == \A i \in Nat : i \notin {0, 1} => i \div 2 \in Nat \ {0} /\ i \div 2 < i
BY HalfIs

\* An order of the elements by a rank, the heap ordered by it, and no two alike.
\* An array whose elements are elements of another, at different places of it.
RanksBy(V, zero, r) == \A a, b \in V : r[a] \in Int /\ (Before(a, b, zero) <=> r[a] < r[b])
HeapOrdered(heap, r) == \A i \in 2..Len(heap) : r[heap[i \div 2]] <= r[heap[i]]
AllDiffer(heap, r) == \A i, j \in 1..Len(heap) : r[heap[i]] = r[heap[j]] => i = j
Rearranges(h, g) == \E p \in [1..Len(h) -> 1..Len(g)] :
                        /\ \A i, j \in 1..Len(h) : p[i] = p[j] => i = j
                        /\ \A i \in 1..Len(h) : h[i] = g[p[i]]

\* insert keeps a heap a heap, and its elements are the old ones and x.
THEOREM InsertKeepsHeap ==
    ASSUME NEW V, NEW zero, NEW r, RanksBy(V, zero, r),
           NEW heap \in Seq(V), HeapOrdered(heap, r), NEW x \in V,
           NEW h, h = Insert(heap, x, zero), Len(h) = Len(heap) + 1
    PROVE  HeapOrdered(h, r) /\ Rearranges(h, Append(heap, x))
<1> DEFINE m == Len(heap)
           n == m + 1
           P == Upwards[n]
           Overtaken(a) == /\ a \in P \ {n}
                           /\ \A b \in P : b \in a..(n - 1) => Before(x, heap[b], zero)
           src(i) == IF i \in P /\ Overtaken(i \div 2) THEN i \div 2
                     ELSE IF i = n \/ Overtaken(i) THEN n
                     ELSE i
           val(k) == IF k = n THEN x ELSE heap[k]
<1>1. /\ m \in Nat /\ n \in Nat \ {0} /\ n = m + 1
      /\ \A i \in 1..m : heap[i] \in V /\ r[heap[i]] \in Int
      /\ r[x] \in Int
  BY DEF RanksBy
<1>2. n \in P /\ P \subseteq 1..n /\ HoldsParents(P)
  BY <1>1, UpwardsGoesOn
<1>3. \A a : Overtaken(a) => a \in P /\ a \in 1..m /\ r[x] < r[heap[a]]
  <2> SUFFICES ASSUME NEW a, Overtaken(a) PROVE a \in P /\ a \in 1..m /\ r[x] < r[heap[a]]
    OBVIOUS
  <2>1. a \in P /\ a \in 1..m /\ a \in a..(n - 1)
    BY <1>1, <1>2
  <2>2. Before(x, heap[a], zero)
    BY <2>1
  <2>3. QED
    BY <1>1, <2>1, <2>2 DEF RanksBy
<1>4. \A a, b \in P : Overtaken(a) /\ a <= b /\ b # n => Overtaken(b)
  BY <1>1, <1>2
<1>5. ASSUME NEW i \in P, i # 1
      PROVE  i \div 2 \in P /\ i \div 2 \in 1..m /\ i \div 2 < i
  <2>1. i \div 2 \in P /\ i \in 2..n
    BY <1>1, <1>2, <1>5 DEF HoldsParents
  <2>2. i \div 2 \in Nat \ {0} /\ i \div 2 < i
    BY <2>1, Halves
  <2>3. QED
    BY <1>1, <2>1, <2>2
<1>6. ASSUME NEW i \in P, i # 1, ~Overtaken(i \div 2), i = n \/ Overtaken(i)
      PROVE  r[heap[i \div 2]] <= r[x]
  <2>1. i \div 2 \in P \ {n} /\ i \div 2 \in 1..m
    BY <1>1, <1>5, <1>6
  <2>2. PICK b \in P : b \in (i \div 2)..(n - 1) /\ ~Before(x, heap[b], zero)
    BY <1>6, <2>1
  <2>3. (b \in 1..m /\ ~(b < i)) \/ b = i \div 2
    <3>1. b \in 1..m /\ i \in 1..n
      BY <1>1, <1>2, <2>2
    <3>2. b < i => b <= i \div 2
      BY <1>1, <1>2, <2>2, UpwardsIsAPath
    <3>3. QED
      BY <2>1, <2>2, <3>1, <3>2
  <2>4. ~(b \in 1..m /\ ~(b < i))
    <3> SUFFICES ASSUME b \in 1..m, ~(b < i) PROVE FALSE
      OBVIOUS
    <3>1. i \in 1..n /\ i # n
      BY <1>1, <1>2
    <3>2. b \in i..(n - 1) /\ Overtaken(i)
      BY <1>1, <1>6, <3>1
    <3>3. QED
      BY <2>2, <3>2
  <2>5. ~Before(x, heap[i \div 2], zero)
    BY <2>2, <2>3, <2>4
  <2>6. ~(r[x] < r[heap[i \div 2]])
    BY <1>1, <2>1, <2>5 DEF RanksBy
  <2>7. QED
    BY <1>1, <2>1, <2>6
<1>7. /\ Len(h) = n
      /\ \A i \in 1..n : h[i] = val(src(i))
  <2>1. \A i \in 1..n : h[i] = IF i \in P /\ Overtaken(i \div 2) THEN heap[i \div 2]
                               ELSE IF i = n \/ Overtaken(i) THEN x ELSE heap[i]
    BY DEF Insert
  <2>2. \A i \in 1..n : i \in P /\ Overtaken(i \div 2) => i \div 2 # n
    OBVIOUS
  <2>3. QED
    BY <2>1, <2>2
<1> HIDE DEF m, n, P, Overtaken
<1>8. \A i \in 1..n : src(i) \in 1..n
  <2> SUFFICES ASSUME NEW i \in 1..n PROVE src(i) \in 1..n
    OBVIOUS
  <2>1. Overtaken(i \div 2) => i \div 2 \in 1..n
    BY <1>1, <1>3
  <2>2. QED
    BY <1>1, <2>1
<1>9. ASSUME NEW i \in 1..n, NEW j \in 1..n, src(i) = src(j), i < j PROVE FALSE
  <2>1. CASE i \in P /\ Overtaken(i \div 2)
    <3>1. src(i) = i \div 2 /\ i \div 2 \in P /\ i \div 2 \in 1..m
      BY <1>3, <2>1
    <3>2. j \in P /\ Overtaken(j \div 2) /\ j \div 2 = i \div 2
      <4>1. CASE j \in P /\ Overtaken(j \div 2)
        BY <1>9, <3>1, <4>1
      <4>2. CASE ~(j \in P /\ Overtaken(j \div 2)) /\ (j = n \/ Overtaken(j))
        BY <1>1, <1>9, <3>1, <4>2
      <4>3. CASE ~(j \in P /\ Overtaken(j \div 2)) /\ ~(j = n \/ Overtaken(j))
        BY <1>9, <2>1, <3>1, <4>3
      <4>4. QED
        BY <4>1, <4>2, <4>3
    <3>3. i <= j \div 2
      BY <1>1, <1>9, <2>1, <3>2, UpwardsIsAPath DEF P
    <3>4. i # 1
      BY <3>1, HalfIs
    <3>5. QED
      BY <1>5, <2>1, <3>2, <3>3, <3>4
  <2>2. CASE ~(i \in P /\ Overtaken(i \div 2)) /\ (i = n \/ Overtaken(i))
    <3>1. src(i) = n /\ i # n /\ Overtaken(i) /\ i \in P
      BY <1>1, <1>3, <1>9, <2>2
    <3>2. ~(j \in P /\ Overtaken(j \div 2)) /\ (j = n \/ Overtaken(j))
      <4>1. CASE j \in P /\ Overtaken(j \div 2)
        BY <1>1, <1>3, <1>9, <3>1, <4>1
      <4>2. CASE ~(j \in P /\ Overtaken(j \div 2)) /\ ~(j = n \/ Overtaken(j))
        BY <1>9, <3>1, <4>2
      <4>3. QED
        BY <4>1, <4>2
    <3>3. j \in P /\ j # 1
      BY <1>2, <1>3, <1>9, <3>2
    <3>4. i <= j \div 2
      BY <1>1, <1>9, <3>1, <3>3, UpwardsIsAPath DEF P
    <3>5. j \div 2 \in P /\ j \div 2 # n
      BY <1>1, <1>5, <3>3
    <3>6. Overtaken(j \div 2)
      BY <1>4, <3>1, <3>4, <3>5
    <3>7. QED
      BY <3>2, <3>3, <3>6
  <2>3. CASE ~(i \in P /\ Overtaken(i \div 2)) /\ ~(i = n \/ Overtaken(i))
    <3>1. src(i) = i /\ i # n /\ ~Overtaken(i)
      BY <2>3
    <3>2. CASE j \in P /\ Overtaken(j \div 2)
      BY <1>9, <3>1, <3>2
    <3>3. CASE ~(j \in P /\ Overtaken(j \div 2))
      BY <1>1, <1>9, <3>1, <3>3
    <3>4. QED
      BY <3>2, <3>3
  <2>4. QED
    BY <2>1, <2>2, <2>3
<1>10. Rearranges(h, Append(heap, x))
  <2> DEFINE p == [i \in 1..n |-> src(i)]
  <2>1. Len(Append(heap, x)) = n /\ \A k \in 1..n : Append(heap, x)[k] = val(k)
    BY <1>1 DEF n, m
  <2>2. p \in [1..n -> 1..n]
    BY <1>8
  <2> HIDE DEF src, val
  <2>3. ASSUME NEW i \in 1..n, NEW j \in 1..n, p[i] = p[j] PROVE i = j
    <3>1. ~(i < j) /\ ~(j < i)
      BY <1>9, <2>3
    <3>2. QED
      BY <1>1, <3>1
  <2>4. \A i \in 1..n : h[i] = Append(heap, x)[p[i]]
    BY <1>7, <1>8, <2>1
  <2> HIDE DEF p
  <2>5. QED
    BY <1>7, <2>1, <2>2, <2>3, <2>4 DEF Rearranges
<1>11. HeapOrdered(h, r)
  <2> SUFFICES ASSUME NEW i \in 2..n PROVE r[h[i \div 2]] <= r[h[i]]
    BY <1>7 DEF HeapOrdered
  <2> DEFINE q == i \div 2
  <2>1. q \in 1..m /\ q < i /\ q # n /\ q \in 1..n /\ i \in 1..n /\ i # 1
    <3>1. q \in Nat \ {0} /\ q < i
      BY <1>1, Halves
    <3>2. QED
      BY <1>1, <3>1
  <2>2. i # n => i \in 1..m /\ r[heap[q]] <= r[heap[i]]
    BY <1>1 DEF HeapOrdered, m
  <2>3. r[heap[q]] \in Int
    BY <1>1, <2>1
  <2>4. q \in P /\ Overtaken(q \div 2) =>
           q \div 2 \in 1..m /\ r[heap[q \div 2]] <= r[heap[q]] /\ r[heap[q \div 2]] \in Int
    <3> SUFFICES ASSUME q \in P, Overtaken(q \div 2)
                 PROVE  q \div 2 \in 1..m /\ r[heap[q \div 2]] <= r[heap[q]] /\ r[heap[q \div 2]] \in Int
      OBVIOUS
    <3>1. q \div 2 \in 1..m
      BY <1>3
    <3>2. q # 1
      BY <3>1, HalfIs
    <3>3. q \in 2..Len(heap)
      BY <1>1, <2>1, <3>2 DEF m
    <3>4. QED
      BY <1>1, <3>1, <3>3 DEF HeapOrdered
  <2>5. h[q] = val(src(q)) /\ h[i] = val(src(i))
    BY <1>7, <2>1
  <2>6. CASE i \notin P
    <3>1. i # n /\ ~Overtaken(i) /\ src(i) = i /\ val(i) = heap[i] /\ r[heap[i]] \in Int
      BY <1>1, <1>2, <1>3, <2>2, <2>6
    <3>2. r[val(src(q))] <= r[heap[q]] /\ r[val(src(q))] \in Int
      <4>1. CASE q \in P /\ Overtaken(q \div 2)
        BY <1>1, <2>3, <2>4, <4>1
      <4>2. CASE ~(q \in P /\ Overtaken(q \div 2)) /\ Overtaken(q)
        <5>1. src(q) = n /\ val(n) = x
          BY <4>2
        <5>2. r[x] < r[heap[q]]
          BY <1>3, <4>2
        <5>3. QED
          BY <1>1, <2>3, <5>1, <5>2
      <4>3. CASE ~(q \in P /\ Overtaken(q \div 2)) /\ ~Overtaken(q)
        <5>1. src(q) = q /\ val(q) = heap[q]
          BY <2>1, <4>3
        <5> HIDE DEF src, val
        <5>2. QED
          BY <2>3, <5>1
      <4>4. QED
        BY <4>1, <4>2, <4>3
    <3>3. QED
      BY <2>2, <2>3, <2>5, <3>1, <3>2
  <2>7. CASE i \in P /\ Overtaken(q)
    <3>1. src(i) = q /\ val(q) = heap[q] /\ q \in P
      BY <1>3, <2>1, <2>7
    <3>2. r[val(src(q))] <= r[heap[q]]
      <4>1. CASE Overtaken(q \div 2)
        <5>1. src(q) = q \div 2 /\ val(q \div 2) = heap[q \div 2]
          BY <1>1, <2>4, <3>1, <4>1
        <5>2. QED
          BY <2>4, <3>1, <4>1, <5>1
      <4>2. CASE ~Overtaken(q \div 2)
        <5>1. src(q) = n /\ val(n) = x
          BY <2>7, <4>2
        <5>2. r[x] < r[heap[q]]
          BY <1>3, <2>7
        <5>3. QED
          BY <1>1, <2>3, <5>1, <5>2
      <4>3. QED
        BY <4>1, <4>2
    <3>3. QED
      BY <2>5, <3>1, <3>2
  <2>8. CASE i \in P /\ ~Overtaken(q)
    <3>1. q \in P /\ src(q) = q /\ val(q) = heap[q]
      <4>1. q \in P
        BY <1>5, <2>1, <2>8
      <4>2. ~Overtaken(q \div 2)
        <5> SUFFICES ASSUME Overtaken(q \div 2) PROVE FALSE
          OBVIOUS
        <5>1. q \div 2 \in P /\ q \div 2 \in 1..m /\ r[heap[q \div 2]] <= r[heap[q]]
          BY <1>3, <2>4, <4>1
        <5>2. q # 1 => q \div 2 < q
          BY <1>5, <4>1
        <5>3. q # 1
          BY <5>1, HalfIs
        <5>4. q \div 2 <= q /\ q # n
          BY <2>1, <5>1, <5>2, <5>3
        <5>5. QED
          BY <1>4, <2>8, <4>1, <5>1, <5>4
      <4>3. QED
        BY <2>1, <2>8, <4>1, <4>2
    <3>2. CASE i = n \/ Overtaken(i)
      <4>1. src(i) = n /\ val(n) = x
        BY <2>8, <3>2
      <4>2. r[heap[q]] <= r[x]
        BY <1>6, <2>1, <2>8, <3>2
      <4>3. QED
        BY <2>5, <3>1, <4>1, <4>2
    <3>3. CASE i # n /\ ~Overtaken(i)
      <4>1. src(i) = i /\ val(i) = heap[i]
        BY <2>8, <3>3
      <4>2. QED
        BY <2>2, <2>5, <3>1, <3>3, <4>1
    <3>4. QED
      BY <3>2, <3>3
  <2>9. QED
    BY <2>6, <2>7, <2>8
<1>12. QED
  BY <1>10, <1>11

\* remove keeps a heap a heap, and its elements are the old ones without the root.
THEOREM RemoveKeepsHeap ==
    ASSUME NEW V, NEW zero, NEW r, RanksBy(V, zero, r),
           NEW heap \in Seq(V), heap # <<>>, HeapOrdered(heap, r),
           NEW h, h = Remove(heap, zero), Len(h) = Len(heap) - 1
    PROVE  HeapOrdered(h, r) /\ Rearranges(h, Tail(heap))
<1> DEFINE n == Len(heap) - 1
           x == heap[n + 1]
           left(i) == 2 * (i \div 2)
           FirstChild(i) == IF i = left(i)
                            THEN i = n \/ Before(heap[i], heap[i + 1], zero)
                            ELSE ~Before(heap[i - 1], heap[i], zero)
           Yielded(i) == /\ i \in 2..n
                         /\ \A a \in Upwards[i] \ {1} : FirstChild(a) /\ Before(heap[a], x, zero)
           Passed(i) == i = 1 \/ Yielded(i)
           src(i) == IF Yielded(2 * i) THEN 2 * i
                     ELSE IF Yielded(2 * i + 1) THEN 2 * i + 1
                     ELSE IF Passed(i) THEN n + 1
                     ELSE i
           rank(i) == r[heap[i]]
<1>1. /\ n \in Nat /\ Len(heap) = n + 1
      /\ \A i \in 1..(n + 1) : heap[i] \in V /\ rank(i) \in Int
      /\ x = heap[n + 1]
  BY DEF RanksBy
<1>2. \A i, j \in 1..(n + 1) : Before(heap[i], heap[j], zero) <=> rank(i) < rank(j)
  BY <1>1 DEF RanksBy
<1>3. Len(Tail(heap)) = n /\ \A k \in 1..n : Tail(heap)[k] = heap[k + 1]
  BY <1>1
<1>4. /\ Len(h) = n
      /\ \A i \in 1..n : h[i] = heap[src(i)]
  BY DEF Remove
<1>5. \A i \in 2..n : rank(i \div 2) <= rank(i)
  BY <1>1 DEF HeapOrdered
<1>6. ASSUME NEW i \in 2..n, NEW j \in 2..n, i # j, i \div 2 = j \div 2, FirstChild(i)
      PROVE  ~FirstChild(j) /\ rank(i) <= rank(j)
  <2>1. /\ i = 2 * (i \div 2) \/ i = 2 * (i \div 2) + 1
        /\ j = 2 * (i \div 2) \/ j = 2 * (i \div 2) + 1
    BY <1>1, <1>6, HalfIs
  <2>2. CASE i = left(i)
    <3>1. j = i + 1 /\ i # n /\ j # left(j) /\ j - 1 = i
      BY <1>1, <1>6, <2>1, <2>2
    <3>2. Before(heap[i], heap[j], zero)
      BY <1>6, <2>2, <3>1
    <3>3. rank(i) < rank(j) /\ rank(i) \in Int /\ rank(j) \in Int
      BY <1>1, <1>2, <3>2
    <3> HIDE DEF rank
    <3>4. rank(i) <= rank(j)
      BY <3>3
    <3>5. ~FirstChild(j)
      BY <3>1, <3>2
    <3>6. QED
      BY <3>4, <3>5
  <2>3. CASE i # left(i)
    <3>1. i = j + 1 /\ j # n /\ j = left(j) /\ i - 1 = j
      BY <1>1, <1>6, <2>1, <2>3
    <3>2. ~Before(heap[j], heap[i], zero)
      BY <1>6, <2>3, <3>1
    <3>3. ~(rank(j) < rank(i))
      BY <1>1, <1>2, <1>6, <3>2
    <3>4. rank(i) \in Int /\ rank(j) \in Int
      BY <1>1
    <3> HIDE DEF rank
    <3>5. rank(i) <= rank(j)
      BY <3>3, <3>4
    <3>6. QED
      BY <3>1, <3>2, <3>5
  <2>4. QED
    BY <2>2, <2>3
<1>7. ASSUME NEW i \in 2..n, ~FirstChild(i)
      PROVE  \E s \in 2..n : s # i /\ s \div 2 = i \div 2 /\ FirstChild(s)
  <2> DEFINE q == i \div 2
  <2>1. /\ q \in Nat \ {0} /\ (i = 2 * q \/ i = 2 * q + 1)
        /\ (2 * q) \div 2 = q /\ (2 * q + 1) \div 2 = q
    BY <1>1, HalfIs, Halves
  <2> HIDE DEF q
  <2>2. CASE i = left(i)
    <3>1. i + 1 \in 2..n /\ (i + 1) \div 2 = q /\ i + 1 # left(i + 1)
      BY <1>1, <1>7, <2>1, <2>2 DEF q
    <3>2. ~Before(heap[i], heap[i + 1], zero)
      BY <1>7, <2>2
    <3>3. FirstChild(i + 1)
      BY <1>1, <3>1, <3>2
    <3>4. QED
      BY <1>1, <3>1, <3>3 DEF q
  <2>3. CASE i # left(i)
    <3>1. i - 1 \in 2..n /\ (i - 1) \div 2 = q /\ i - 1 = left(i - 1)
      BY <1>1, <1>7, <2>1, <2>3 DEF q
    <3>2. Before(heap[i - 1], heap[i], zero)
      BY <1>7, <2>3
    <3>3. FirstChild(i - 1)
      BY <1>1, <3>1, <3>2
    <3>4. i - 1 # i
      BY <1>1
    <3> HIDE DEF FirstChild
    <3>5. QED
      BY <3>1, <3>3, <3>4 DEF q
  <2>4. QED
    BY <2>2, <2>3
<1> HIDE DEF FirstChild
<1>8. Upwards[1] = {1}
  <2>1. Upwards[1] \subseteq 1..1 /\ 1 \in Upwards[1]
    BY UpwardsGoesOn
  <2>2. QED
    BY <2>1
<1>9. ASSUME NEW j, Passed(j), NEW c \in Upwards[j], c # 1
      PROVE  Yielded(c)
  <2>1. j \in 2..n
    BY <1>8, <1>9
  <2>2. j \in Nat \ {0}
    BY <1>1, <2>1
  <2>3. Upwards[c] \subseteq Upwards[j] /\ c \in 2..n
    <3>1. c \in 1..j
      BY <1>9, <2>2, UpwardsGoesOn
    <3>2. QED
      BY <1>1, <1>9, <2>1, <2>2, <3>1, UpwardsIsAPath
  <2>4. Yielded(j)
    BY <1>9, <2>1
  <2>5. QED
    BY <2>3, <2>4
<1>10. ASSUME NEW i, Yielded(i)
       PROVE  /\ i \in 2..n /\ FirstChild(i) /\ rank(i) < rank(n + 1) /\ Passed(i \div 2)
  <2>1. i \in 2..n /\ i \in Nat \ {0} /\ i # 1
    BY <1>1, <1>10
  <2>2. i \in Upwards[i] /\ i \div 2 \in Upwards[i]
    BY <2>1, UpwardsGoesOn DEF HoldsParents
  <2>3. FirstChild(i) /\ Before(heap[i], x, zero)
    BY <1>10, <2>1, <2>2
  <2>4. rank(i) < rank(n + 1)
    BY <1>1, <1>2, <2>1, <2>3
  <2>5. Passed(i \div 2)
    BY <1>9, <1>10, <2>2
  <2>6. QED
    BY <2>1, <2>3, <2>4, <2>5
<1>11. ASSUME NEW i \in 2..n, Passed(i \div 2), FirstChild(i), rank(i) < rank(n + 1)
       PROVE  Yielded(i)
  <2>1. i \in Nat \ {0} /\ i # 1 /\ Upwards[i] = {i} \cup Upwards[i \div 2]
    <3>1. i \in Nat \ {0} /\ i # 1
      BY <1>1
    <3>2. QED
      BY <3>1, UpwardsGoesOn
  <2>2. \A a \in Upwards[i \div 2] \ {1} : Yielded(a) /\ FirstChild(a) /\ Before(heap[a], x, zero)
    <3> SUFFICES ASSUME NEW a \in Upwards[i \div 2], a # 1
                 PROVE  Yielded(a) /\ FirstChild(a) /\ Before(heap[a], x, zero)
      OBVIOUS
    <3>1. Yielded(a)
      BY <1>9, <1>11
    <3>2. a \in 2..n /\ FirstChild(a) /\ rank(a) < rank(n + 1)
      BY <1>10, <3>1
    <3>3. QED
      BY <1>1, <1>2, <3>1, <3>2
  <2>3. Before(heap[i], x, zero)
    BY <1>1, <1>2, <1>11
  <2>4. QED
    BY <1>11, <2>1, <2>2, <2>3
<1> HIDE DEF Yielded, n, x
<1>12. ASSUME NEW i \in 2..n
       PROVE  /\ i \div 2 \in 1..n /\ i \div 2 < i
              /\ i = 2 * (i \div 2) \/ i = 2 * (i \div 2) + 1
  <2>1. i \in Nat /\ i \notin {0, 1}
    BY <1>1
  <2>2. QED
    BY <1>1, <2>1, Halves, HalfIs
<1>13. \A c : Yielded(c) => c \in 2..n /\ src(c \div 2) = c /\ c \div 2 \in 1..n
  <2> SUFFICES ASSUME NEW c, Yielded(c) PROVE c \in 2..n /\ src(c \div 2) = c /\ c \div 2 \in 1..n
    OBVIOUS
  <2>1. c \in 2..n
    BY <1>10
  <2>2. c \div 2 \in 1..n /\ (c = 2 * (c \div 2) \/ c = 2 * (c \div 2) + 1)
    BY <1>12, <2>1
  <2>3. PICK q \in 1..n : q = c \div 2
    BY <2>2
  <2>4. CASE c = 2 * q
    <3>1. Yielded(2 * q)
      BY <2>4
    <3>2. src(q) = 2 * q
      BY <3>1
    <3>3. src(c \div 2) = src(q)
      BY <2>3
    <3> HIDE DEF src
    <3>4. QED
      BY <2>1, <2>2, <2>4, <3>2, <3>3
  <2>5. CASE c = 2 * q + 1
    <3>1. ~Yielded(2 * q)
      <4> SUFFICES ASSUME Yielded(2 * q) PROVE FALSE
        OBVIOUS
      <4>0. 2 * q # c
        BY <1>1, <2>5
      <4>1. 2 * q \in 2..n /\ FirstChild(2 * q) /\ FirstChild(c) /\ 2 * q # c
        BY <1>10, <4>0
      <4>2. (2 * q) \div 2 = c \div 2
        BY <1>1, <2>3, HalfIs
      <4>3. QED
        BY <1>6, <2>1, <4>1, <4>2
    <3>2. Yielded(2 * q + 1)
      BY <2>5
    <3>3. src(q) = 2 * q + 1
      BY <3>1, <3>2
    <3>4. src(c \div 2) = src(q)
      BY <2>3
    <3> HIDE DEF src
    <3>5. QED
      BY <2>1, <2>2, <2>5, <3>3, <3>4
  <2>6. QED
    BY <2>1, <2>2, <2>3, <2>4, <2>5
<1>14. ASSUME NEW i \in 1..n, \A c : Yielded(c) => c \div 2 # i
       PROVE  src(i) = IF Passed(i) THEN n + 1 ELSE i
  <2>1. (2 * i) \div 2 = i /\ (2 * i + 1) \div 2 = i
    BY <1>1, HalfIs
  <2>2. QED
    BY <1>14, <2>1
<1> HIDE DEF src
\* The way of the elements that yielded is a single path.
<1>15. ASSUME NEW i \in 1..n, NEW j \in 1..n, Passed(i), Passed(j), i <= j
       PROVE  i \in Upwards[j]
  <2> DEFINE T == {k \in 1..n : Passed(k) /\ \E l \in 1..n : Passed(l) /\ k <= l /\ k \notin Upwards[l]}
  <2>1. T = {}
    <3> SUFFICES ASSUME T # {} PROVE FALSE
      OBVIOUS
    <3>1. T \subseteq Nat
      BY <1>1
    <3>2. PICK k \in T : \A y \in T : k <= y
      BY <3>1, Least
    <3>3. PICK l \in 1..n : Passed(l) /\ k <= l /\ k \notin Upwards[l]
      BY <3>2
    <3>4. k \in 1..n /\ Passed(k) /\ l \in Nat \ {0}
      BY <1>1, <3>2
    <3>5. l \in Upwards[l] /\ 1 \in Upwards[l]
      <4>1. l \in Upwards[l]
        BY <3>4, UpwardsGoesOn
      <4>2. 1 \in Upwards[l]
        <5>1. CASE 1 \notin Upwards[l]
          <6>1. PICK y \in Upwards[l] : \A z \in Upwards[l] : y <= z
            <7>1. Upwards[l] \subseteq Nat /\ Upwards[l] # {}
              BY <3>4, <4>1, UpwardsGoesOn
            <7>2. QED
              BY <7>1, Least
          <6>2. y \in 1..l /\ y # 1 /\ y \div 2 \in Upwards[l]
            BY <3>4, <5>1, <6>1, UpwardsGoesOn DEF HoldsParents
          <6>3. y \in Nat /\ y \notin {0, 1}
            BY <3>4, <6>2
          <6>4. y \div 2 \in Nat /\ y \div 2 < y
            BY <6>3, Halves
          <6>5. QED
            BY <6>1, <6>2, <6>3, <6>4
        <5>2. QED
          BY <5>1
      <4>3. QED
        BY <4>1, <4>2
    <3>6. k # 1 /\ k # l
      BY <3>3, <3>5
    <3>7. Yielded(k) /\ k \in 2..n
      BY <1>10, <3>4, <3>6
    <3>8. k \div 2 \in 1..n /\ k \div 2 < k /\ Passed(k \div 2)
      BY <1>10, <1>12, <3>7
    <3>9. k \div 2 \in Upwards[l] /\ k \div 2 # l
      <4>1. k \div 2 \notin T
        BY <1>1, <3>2, <3>8
      <4>2. k \div 2 <= l /\ k \div 2 # l
        BY <1>1, <3>3, <3>4, <3>8
      <4>3. QED
        BY <3>3, <3>8, <4>1, <4>2
    <3>10. PICK c \in Upwards[l] : c # 1 /\ c \div 2 = k \div 2
      BY <3>4, <3>9, UpwardsIsAPath
    <3>11. Yielded(c)
      BY <1>9, <3>3, <3>10
    <3>12. c = k
      BY <1>13, <3>7, <3>10, <3>11
    <3>13. QED
      BY <3>3, <3>10, <3>12
  <2>2. QED
    BY <1>15, <2>1
<1>16. ASSUME NEW i \in 1..n, NEW j \in 1..n, Passed(i), Passed(j), i < j
       PROVE  \E c : Yielded(c) /\ c \div 2 = i
  <2>1. i \in Upwards[j] /\ i # j /\ j \in Nat \ {0}
    BY <1>1, <1>15, <1>16
  <2>2. PICK c \in Upwards[j] : c # 1 /\ c \div 2 = i
    BY <2>1, UpwardsIsAPath
  <2>3. QED
    BY <1>9, <1>16, <2>2
\* Where the elements come from.
<1>17. ASSUME NEW i \in 1..n
       PROVE  \/ \E c : Yielded(c) /\ c \div 2 = i /\ src(i) = c
              \/ (\A c : Yielded(c) => c \div 2 # i) /\ Passed(i) /\ src(i) = n + 1
              \/ (\A c : Yielded(c) => c \div 2 # i) /\ ~Passed(i) /\ src(i) = i
  BY <1>13, <1>14
<1>18. \A i \in 1..n : src(i) \in 2..(n + 1)
  <2> SUFFICES ASSUME NEW i \in 1..n PROVE src(i) \in 2..(n + 1)
    OBVIOUS
  <2>1. \A c : Yielded(c) => c \in 2..n
    BY <1>10
  <2>2. QED
    BY <1>1, <1>17, <2>1
<1>19. ASSUME NEW i \in 1..n, NEW j \in 1..n, i < j, src(i) = src(j) PROVE FALSE
  <2>1. i # j /\ j # n + 1 /\ i # n + 1
    BY <1>1, <1>19
  <2>2. \A c : Yielded(c) => c # n + 1 /\ Passed(c)
    BY <1>1, <1>10
  <2>3. CASE Passed(i) /\ Passed(j)
    <3>1. PICK c : Yielded(c) /\ c \div 2 = i /\ src(i) = c
      BY <1>13, <1>16, <1>19, <2>3
    <3>2. QED
      BY <1>17, <1>19, <2>1, <2>2, <2>3, <3>1
  <2>4. CASE ~(Passed(i) /\ Passed(j))
    BY <1>17, <1>19, <2>1, <2>2, <2>4
  <2>5. QED
    BY <2>3, <2>4
<1>20. Rearranges(h, Tail(heap))
  <2> DEFINE p == [i \in 1..n |-> src(i) - 1]
  <2>1. p \in [1..n -> 1..n]
    BY <1>1, <1>18
  <2>2. ASSUME NEW i \in 1..n, NEW j \in 1..n, p[i] = p[j] PROVE i = j
    <3>1. src(i) = src(j)
      <4>1. src(i) - 1 = src(j) - 1 /\ src(i) \in Int /\ src(j) \in Int
        BY <1>1, <1>18, <2>2
      <4>2. QED
        BY <4>1
    <3>2. ~(i < j) /\ ~(j < i)
      BY <1>19, <3>1
    <3>3. QED
      BY <1>1, <3>2
  <2>3. ASSUME NEW i \in 1..n PROVE h[i] = Tail(heap)[p[i]]
    <3>1. p[i] \in 1..n /\ p[i] + 1 = src(i)
      BY <1>1, <1>18
    <3>2. QED
      BY <1>3, <1>4, <3>1
  <2> HIDE DEF p
  <2>4. /\ p \in [1..Len(h) -> 1..Len(Tail(heap))]
        /\ \A i, j \in 1..Len(h) : p[i] = p[j] => i = j
        /\ \A i \in 1..Len(h) : h[i] = Tail(heap)[p[i]]
    BY <1>3, <1>4, <2>1, <2>2, <2>3
  <2>5. QED
    BY <2>4 DEF Rearranges
<1>21. HeapOrdered(h, r)
  <2> SUFFICES ASSUME NEW i \in 2..n PROVE r[h[i \div 2]] <= r[h[i]]
    BY <1>4 DEF HeapOrdered
  <2>1. PICK q \in 1..n : q = i \div 2 /\ q < i
    BY <1>12
  <2>2. i \in 1..n /\ i \in 1..(n + 1) /\ q \in 1..(n + 1) /\ i # 1 /\ n + 1 \in 1..(n + 1)
    BY <1>1
  <2>3. h[q] = heap[src(q)] /\ h[i] = heap[src(i)]
    BY <1>4, <2>2
  <2>4. SUFFICES rank(src(q)) <= rank(src(i))
    BY <2>1, <2>3
  <2>5. rank(q) <= rank(i)
    BY <1>5, <2>1
  <2>6. \A k \in 1..(n + 1) : rank(k) \in Int
    BY <1>1
  <2> HIDE DEF rank
  <2>7. CASE Yielded(i)
    <3>1. src(q) = i /\ rank(i) < rank(n + 1)
      BY <1>10, <1>13, <2>1, <2>7
    <3>2. CASE \E c : Yielded(c) /\ c \div 2 = i /\ src(i) = c
      <4>1. PICK c : Yielded(c) /\ c \div 2 = i /\ src(i) = c
        BY <3>2
      <4>2. c \in 2..n
        BY <1>10, <4>1
      <4>3. QED
        BY <1>5, <3>1, <4>1, <4>2
    <3>3. CASE src(i) = n + 1
      BY <2>2, <2>6, <3>1, <3>3
    <3>4. QED
      BY <1>17, <2>2, <2>7, <3>2, <3>3
  <2>8. CASE ~Yielded(i)
    <3>1. ~Passed(i) /\ src(i) = i
      <4>1. ~Passed(i)
        BY <2>2, <2>8
      <4>2. \A c : Yielded(c) => c \div 2 # i
        BY <1>10, <4>1
      <4>3. QED
        BY <1>14, <2>2, <4>1, <4>2
    <3>2. CASE \E c : Yielded(c) /\ c \div 2 = q /\ src(q) = c
      <4>1. PICK c : Yielded(c) /\ c \div 2 = q /\ src(q) = c
        BY <3>2
      <4>2. c \in 2..n /\ FirstChild(c) /\ c # i
        BY <1>10, <2>8, <4>1
      <4>3. rank(c) <= rank(i)
        BY <1>6, <2>1, <4>1, <4>2
      <4>4. QED
        BY <3>1, <4>1, <4>3
    <3>3. CASE (\A c : Yielded(c) => c \div 2 # q) /\ Passed(q) /\ src(q) = n + 1
      <4>1. ASSUME NEW s \in 2..n, s \div 2 = q, FirstChild(s) PROVE rank(n + 1) <= rank(s)
        <5>1. ~Yielded(s)
          BY <3>3, <4>1
        <5>2. ~(rank(s) < rank(n + 1))
          BY <1>11, <3>3, <4>1, <5>1
        <5>3. s \in 1..(n + 1) /\ s # n + 1
          BY <1>1
        <5>4. QED
          BY <2>2, <2>6, <5>2, <5>3
      <4>2. CASE FirstChild(i)
        BY <2>1, <3>1, <3>3, <4>1, <4>2
      <4>3. CASE ~FirstChild(i)
        <5>1. PICK s \in 2..n : s # i /\ s \div 2 = i \div 2 /\ FirstChild(s)
          BY <1>7, <4>3
        <5>2. rank(s) <= rank(i)
          BY <1>6, <5>1 DEF rank
        <5>3. rank(n + 1) <= rank(s)
          BY <2>1, <4>1, <5>1
        <5>4. s \in 1..(n + 1)
          BY <1>1
        <5>5. QED
          BY <2>2, <2>6, <3>1, <3>3, <5>2, <5>3, <5>4
      <4>4. QED
        BY <4>2, <4>3
    <3>4. CASE src(q) = q
      BY <2>5, <3>1, <3>4
    <3>5. QED
      BY <1>17, <3>2, <3>3, <3>4
  <2>9. QED
    BY <2>7, <2>8
<1>22. QED
  BY <1>20, <1>21

\* The root of a heap is the first of its elements.
THEOREM RootIsFirst ==
    ASSUME NEW V, NEW r, \A a \in V : r[a] \in Int,
           NEW heap \in Seq(V), HeapOrdered(heap, r)
    PROVE  \A i \in 2..Len(heap) : r[heap[1]] <= r[heap[i]]
<1> DEFINE T == {i \in 2..Len(heap) : ~(r[heap[1]] <= r[heap[i]])}
<1>1. Len(heap) \in Nat /\ \A i \in 1..Len(heap) : heap[i] \in V /\ r[heap[i]] \in Int
  OBVIOUS
<1>2. T = {}
  <2> SUFFICES ASSUME T # {} PROVE FALSE
    OBVIOUS
  <2>1. T \subseteq Nat
    BY <1>1
  <2>2. PICK k \in T : \A y \in T : k <= y
    BY <2>1, Least
  <2>3. k \in 2..Len(heap) /\ ~(r[heap[1]] <= r[heap[k]])
    OBVIOUS
  <2>4. k \div 2 \in Nat \ {0} /\ k \div 2 < k
    BY <1>1, <2>3, Halves
  <2>5. r[heap[k \div 2]] <= r[heap[k]]
    BY <2>3 DEF HeapOrdered
  <2>6. k \div 2 \notin T
    BY <1>1, <2>2, <2>4
  <2>7. k \div 2 = 1 \/ r[heap[1]] <= r[heap[k \div 2]]
    BY <1>1, <2>3, <2>4, <2>6
  <2>8. k \div 2 \in 1..Len(heap) /\ 1 \in 1..Len(heap) /\ k \in 1..Len(heap)
    BY <1>1, <2>3, <2>4
  <2>9. QED
    BY <1>1, <2>3, <2>5, <2>7, <2>8
<1>3. QED
  BY <1>2

\* An array that rearranges another holds none but its elements, and if those all
\* differ its own do.
LEMMA RearrangedElements ==
    ASSUME NEW h, NEW g, NEW r, Rearranges(h, g)
    PROVE  /\ \A i \in 1..Len(h) : \E j \in 1..Len(g) : h[i] = g[j]
           /\ AllDiffer(g, r) => AllDiffer(h, r)
<1>1. PICK p \in [1..Len(h) -> 1..Len(g)] :
          /\ \A i, j \in 1..Len(h) : p[i] = p[j] => i = j
          /\ \A i \in 1..Len(h) : h[i] = g[p[i]]
  BY DEF Rearranges
<1>2. \A i \in 1..Len(h) : p[i] \in 1..Len(g)
  BY <1>1
<1>3. QED
  BY <1>1, <1>2 DEF AllDiffer

-----------------------------------------------------------------------------
FillingLabels  == {"putLock", "putCheck", "putInsert"}
ClaimingLabels == {"getLock", "getWait", "getTake"}

Those(f, S) == {u \in Threads : f[u] \in S}
Bit(label, labels) == IF label \in labels THEN 1 ELSE 0

\* Elements and slots only add up while no semaphore is released past its
\* maximum, which follows from the sums and from who holds the mutex.
IInv == TypeOK /\ MutualExclusion /\ ElementsAreCounted

\* A step of one thread changes the number of threads at a set of labels by
\* what its two labels say.
LEMMA MoveCount ==
    ASSUME NEW f \in [Threads -> Labels], NEW t \in Threads, NEW to, NEW S
    PROVE  /\ Cardinality(Those(f, S)) \in Nat
           /\ Cardinality(Those([f EXCEPT ![t] = to], S)) \in Nat
           /\ Cardinality(Those([f EXCEPT ![t] = to], S))
                = Cardinality(Those(f, S)) + Bit(to, S) - Bit(f[t], S)
<1> DEFINE A == Those(f, S)
           B == Those([f EXCEPT ![t] = to], S)
<1>1. IsFiniteSet(A) /\ IsFiniteSet(B) /\ Cardinality(A) \in Nat /\ Cardinality(B) \in Nat
  <2>1. A \subseteq Threads /\ B \subseteq Threads
    BY DEF Those
  <2>2. QED
    BY <2>1, ThreadAssumption, FS_Subset, FS_CardinalityType
<1>2. CASE to \in S <=> f[t] \in S
  <2>1. A = B
    BY <1>2 DEF Those
  <2>2. QED
    BY <1>1, <1>2, <2>1 DEF Bit
<1>3. CASE to \in S /\ f[t] \notin S
  <2>1. B = A \cup {t} /\ t \notin A
    BY <1>3 DEF Those
  <2>2. Cardinality(B) = Cardinality(A) + 1
    BY <1>1, <2>1, FS_AddElement
  <2>3. QED
    BY <1>1, <1>3, <2>2 DEF Bit
<1>4. CASE to \notin S /\ f[t] \in S
  <2>1. B = A \ {t} /\ t \in A
    BY <1>4 DEF Those
  <2>2. Cardinality(B) = Cardinality(A) - 1
    BY <1>1, <2>1, FS_RemoveElement
  <2>3. QED
    BY <1>1, <1>4, <2>2 DEF Bit
<1>5. QED
  BY <1>2, <1>3, <1>4

\* The two groups that are counted, and what they count when a thread is in one.
LEMMA GroupCounts ==
    ASSUME pc \in [Threads -> Labels], NEW t \in Threads
    PROVE  /\ Cardinality(Filling) \in Nat /\ Cardinality(Claiming) \in Nat
           /\ pc[t] \in FillingLabels => Cardinality(Filling) > 0
           /\ pc[t] \in ClaimingLabels => Cardinality(Claiming) > 0
           /\ \A from, to : Goto(t, from, to) =>
                 /\ Cardinality(Filling)' = Cardinality(Filling) + Bit(to, FillingLabels) - Bit(from, FillingLabels)
                 /\ Cardinality(Claiming)' = Cardinality(Claiming) + Bit(to, ClaimingLabels) - Bit(from, ClaimingLabels)
<1>1. /\ Filling = Those(pc, FillingLabels) /\ Filling' = Those(pc', FillingLabels)
      /\ Claiming = Those(pc, ClaimingLabels) /\ Claiming' = Those(pc', ClaimingLabels)
  BY DEF Filling, Claiming, At, Those, FillingLabels, ClaimingLabels
<1>2. \A S : IsFiniteSet(Those(pc, S))
  BY ThreadAssumption, FS_Subset DEF Those
<1>3. \A S : Cardinality(Those(pc, S)) \in Nat /\ (pc[t] \in S => Cardinality(Those(pc, S)) # 0)
  <2>1. SUFFICES ASSUME NEW S PROVE Cardinality(Those(pc, S)) \in Nat /\ (pc[t] \in S => Cardinality(Those(pc, S)) # 0)
    OBVIOUS
  <2>2. pc[t] \in S => t \in Those(pc, S)
    BY DEF Those
  <2>3. QED
    BY <1>2, <2>2, FS_CardinalityType, FS_EmptySet
<1>4. ASSUME NEW from, NEW to, Goto(t, from, to)
      PROVE  /\ Cardinality(Filling)' = Cardinality(Filling) + Bit(to, FillingLabels) - Bit(from, FillingLabels)
             /\ Cardinality(Claiming)' = Cardinality(Claiming) + Bit(to, ClaimingLabels) - Bit(from, ClaimingLabels)
  BY <1>1, <1>4, MoveCount DEF Goto
<1>5. QED
  BY <1>1, <1>3, <1>4

\* What a step of a thread does to the mutex.
KeepsMutex(t, from, to) ==
    \/ from \notin Locking /\ to \in Locking /\ access = NoThread /\ access' = t
    \/ from \in Locking /\ to \notin Locking /\ access' = NoThread
    \/ (from \in Locking <=> to \in Locking) /\ access' = access

\* What it does to the elements, the free slots and the tokens.
Adds(l, e, d) ==
    /\ data' \in Seq(Ints) /\ Len(data') = Len(data) + l
    /\ notFull' = notFull + e /\ notFull' >= 0
    /\ notEmpty' = notEmpty + d /\ notEmpty' >= 0

\* The variables that no sum is about.
OthersTyped ==
    /\ relativeZero \in Ints /\ lastIndex \in Ints /\ strikes \in Int
    /\ canGet \in BOOLEAN /\ delayed \in Nat
    /\ index \in [Threads -> Ints] /\ result \in [Threads -> {0, 1}]

\* A step keeps the sums when what it adds to elements, slots and tokens is what
\* it moves between the groups.
LEMMA StepKeepsIInv ==
    ASSUME IInv, NEW t \in Threads, NEW from \in Labels, NEW to \in Labels,
           Goto(t, from, to), KeepsMutex(t, from, to), OthersTyped',
           NEW l \in Int, NEW e \in Int, NEW d \in Int, Adds(l, e, d),
           l = d + (Bit(to, ClaimingLabels) - Bit(from, ClaimingLabels)),
           0 = e + (Bit(to, FillingLabels) - Bit(from, FillingLabels)) + l
    PROVE  IInv'
<1> DEFINE f == Bit(to, FillingLabels) - Bit(from, FillingLabels)
           c == Bit(to, ClaimingLabels) - Bit(from, ClaimingLabels)
<1>1. f \in Int /\ c \in Int
  BY DEF Bit
<1>2. /\ Cardinality(Filling) \in Nat /\ Cardinality(Filling)' = Cardinality(Filling) + f
      /\ Cardinality(Claiming) \in Nat /\ Cardinality(Claiming)' = Cardinality(Claiming) + c
  BY <1>1, GroupCounts DEF IInv, TypeOK, Bit
<1>3. pc' \in [Threads -> Labels] /\ access' \in Threads \cup {NoThread}
  BY DEF IInv, TypeOK, Goto, KeepsMutex
<1>4. Cardinality(Filling)' \in Nat /\ Cardinality(Claiming)' \in Nat
  <2>1. \A S : Cardinality(Those(pc', S)) \in Nat
    BY MoveCount DEF IInv, TypeOK, Goto
  <2>2. QED
    BY <2>1 DEF Filling, Claiming, At, Those
<1> HIDE DEF f, c
<1>5. Len(data) \in Nat /\ notFull \in Nat /\ notEmpty \in Nat /\ Capacity \in Nat
  BY CapacityAssumption DEF IInv, TypeOK
<1>6. l = d + c /\ 0 = e + f + l
  BY DEF f, c
<1>7. ElementsAreCounted'
  <2>1. /\ Len(data) = notEmpty + Cardinality(Claiming)
        /\ notFull + Cardinality(Filling) + Len(data) = Capacity
    BY DEF IInv, ElementsAreCounted
  <2>2. /\ Len(data') = Len(data) + l
        /\ notFull' = notFull + e /\ notEmpty' = notEmpty + d
    BY DEF Adds
  <2>3. Len(data') = notEmpty' + Cardinality(Claiming)'
    BY <1>1, <1>2, <1>5, <1>6, <2>1, <2>2
  <2>4. notFull' + Cardinality(Filling)' = (notFull + Cardinality(Filling)) + (e + f)
    BY <1>1, <1>2, <1>5, <2>2
  <2>5. (notFull' + Cardinality(Filling)') + Len(data') = Capacity
    <3>1. \A a, b, k, m \in Int : a + b = Capacity /\ 0 = k + m => (a + k) + (b + m) = Capacity
      BY <1>5
    <3>2. notFull + Cardinality(Filling) \in Int /\ Len(data) \in Int /\ e + f \in Int /\ l \in Int
      BY <1>1, <1>2, <1>5
    <3>3. (notFull + Cardinality(Filling)) + Len(data) = Capacity /\ 0 = (e + f) + l
      BY <1>6, <2>1
    <3>4. QED
      BY <2>2, <2>4, <3>1, <3>2, <3>3
  <2>6. QED
    BY <2>3, <2>5 DEF ElementsAreCounted
<1>8. notFull' \in 0..Capacity /\ notEmpty' \in 0..Capacity
  BY <1>1, <1>4, <1>5, <1>7 DEF Adds, ElementsAreCounted
<1>9. MutualExclusion'
  BY ThreadAssumption DEF IInv, TypeOK, MutualExclusion, KeepsMutex, Goto
<1>10. TypeOK'
  BY <1>3, <1>8 DEF TypeOK, OthersTyped, Adds
<1>11. QED
  BY <1>7, <1>9, <1>10 DEF IInv

\* What the sums leave to a thread that is part of one of them.
LEMMA Margins ==
    ASSUME IInv, NEW t \in Threads
    PROVE  /\ pc[t] \in FillingLabels => notFull < Capacity /\ notEmpty < Capacity
           /\ pc[t] \in ClaimingLabels => data # <<>> /\ notFull < Capacity /\ notEmpty < Capacity
<1>1. /\ Cardinality(Filling) \in Nat /\ Cardinality(Claiming) \in Nat
      /\ pc[t] \in FillingLabels => Cardinality(Filling) > 0
      /\ pc[t] \in ClaimingLabels => Cardinality(Claiming) > 0
  BY GroupCounts DEF IInv, TypeOK
<1>2. Len(data) \in Nat /\ notFull \in Nat /\ notEmpty \in Nat /\ Capacity \in Nat
  BY CapacityAssumption DEF IInv, TypeOK
<1>3. /\ Len(data) = notEmpty + Cardinality(Claiming)
      /\ notFull + Cardinality(Filling) + Len(data) = Capacity
  BY DEF IInv, ElementsAreCounted
<1>4. pc[t] \in ClaimingLabels => Len(data) # 0
  BY <1>1, <1>2, <1>3
<1>5. QED
  BY <1>1, <1>2, <1>3, <1>4

\* A step inside put keeps the invariant.
LEMMA PutKeepsIInv ==
    ASSUME IInv, NEW t \in Threads, Put(t)
    PROVE  IInv'
<1>1. CASE PutSlot(t)
  <2>1. Goto(t, "putSlot", "putLock") /\ KeepsMutex(t, "putSlot", "putLock") /\ OthersTyped'
    BY <1>1 DEF PutSlot, Goto, KeepsMutex, Locking, OthersTyped, IInv, TypeOK, shared, counts
  <2>2. Adds(0, -1, 0)
    BY <1>1 DEF PutSlot, Adds, Released, IInv, TypeOK, shared, counts
  <2>3. QED
    BY <2>1, <2>2, StepKeepsIInv DEF Bit, FillingLabels, ClaimingLabels, Labels, Locking
<1>2. CASE PutLock(t)
  <2>1. Goto(t, "putLock", "putCheck") /\ KeepsMutex(t, "putLock", "putCheck") /\ OthersTyped'
    BY <1>2 DEF PutLock, Lock, Goto, KeepsMutex, Locking, OthersTyped, IInv, TypeOK, shared, counts
  <2>2. Adds(0, 0, 0)
    BY <1>2 DEF PutLock, Lock, Adds, Released, IInv, TypeOK, shared, counts
  <2>3. QED
    BY <2>1, <2>2, StepKeepsIInv DEF Bit, FillingLabels, ClaimingLabels, Labels, Locking
<1>3. CASE PutAccept(t)
  <2>1. Goto(t, "putCheck", "putInsert") /\ KeepsMutex(t, "putCheck", "putInsert") /\ OthersTyped'
    BY <1>3 DEF PutAccept, Goto, KeepsMutex, Locking, OthersTyped, IInv, TypeOK, shared, counts
  <2>2. Adds(0, 0, 0)
    BY <1>3 DEF PutAccept, Adds, Released, IInv, TypeOK, shared, counts
  <2>3. QED
    BY <2>1, <2>2, StepKeepsIInv DEF Bit, FillingLabels, ClaimingLabels, Labels, Locking
<1>4. CASE PutInsert(t)
  <2>1. Goto(t, "putInsert", "putUnlock") /\ KeepsMutex(t, "putInsert", "putUnlock") /\ OthersTyped'
    BY <1>4 DEF PutInsert, Goto, KeepsMutex, Locking, OthersTyped, IInv, TypeOK
  <2>2. data' \in Seq(Ints) /\ Len(data') = Len(data) + 1
    BY <1>4, InsertAddsOne DEF PutInsert, IInv, TypeOK
  <2>3. notEmpty < Capacity
    BY <2>1, Margins DEF Goto, FillingLabels
  <2>4. Adds(1, 0, 1)
    BY <1>4, <2>2, <2>3 DEF PutInsert, Adds, Released, IInv, TypeOK
  <2>5. QED
    BY <2>1, <2>4, StepKeepsIInv DEF Bit, FillingLabels, ClaimingLabels, Labels, Locking
<1>5. CASE PutReject(t)
  <2>1. Goto(t, "putCheck", "putUnlock") /\ KeepsMutex(t, "putCheck", "putUnlock")
    BY <1>5 DEF PutReject, Goto, KeepsMutex, Locking
  <2>2. OthersTyped'
    BY <1>5 DEF PutReject, OthersTyped, IInv, TypeOK
  <2>3. notFull < Capacity
    BY <2>1, Margins DEF Goto, FillingLabels
  <2>4. Adds(0, 1, 0)
    BY <1>5, <2>3 DEF PutReject, Adds, Released, IInv, TypeOK
  <2>5. QED
    BY <2>1, <2>2, <2>4, StepKeepsIInv DEF Bit, FillingLabels, ClaimingLabels, Labels, Locking
<1>6. CASE PutUnlock(t)
  <2>1. Goto(t, "putUnlock", "putReturn") /\ KeepsMutex(t, "putUnlock", "putReturn") /\ OthersTyped'
    BY <1>6 DEF PutUnlock, Goto, KeepsMutex, Locking, OthersTyped, IInv, TypeOK, shared, counts
  <2>2. Adds(0, 0, 0)
    BY <1>6 DEF PutUnlock, Adds, Released, IInv, TypeOK, shared, counts
  <2>3. QED
    BY <2>1, <2>2, StepKeepsIInv DEF Bit, FillingLabels, ClaimingLabels, Labels, Locking
<1>7. CASE PutReturn(t)
  <2>1. Goto(t, "putReturn", "idle") /\ KeepsMutex(t, "putReturn", "idle") /\ OthersTyped'
    BY <1>7 DEF PutReturn, Goto, KeepsMutex, Locking, OthersTyped, IInv, TypeOK, shared, counts
  <2>2. Adds(0, 0, 0)
    BY <1>7 DEF PutReturn, Adds, Released, IInv, TypeOK, shared, counts
  <2>3. QED
    BY <2>1, <2>2, StepKeepsIInv DEF Bit, FillingLabels, ClaimingLabels, Labels, Locking
<1>8. QED
  BY <1>1, <1>2, <1>3, <1>4, <1>5, <1>6, <1>7 DEF Put

\* So does a step inside get.
LEMMA GetKeepsIInv ==
    ASSUME IInv, NEW t \in Threads, Get(t)
    PROVE  IInv'
<1>1. CASE GetToken(t)
  <2>1. Goto(t, "getToken", "getLock") /\ KeepsMutex(t, "getToken", "getLock") /\ OthersTyped'
    BY <1>1 DEF GetToken, Goto, KeepsMutex, Locking, OthersTyped, IInv, TypeOK, shared, counts
  <2>2. Adds(0, 0, -1)
    BY <1>1 DEF GetToken, Adds, Released, IInv, TypeOK, shared, counts
  <2>3. QED
    BY <2>1, <2>2, StepKeepsIInv DEF Bit, FillingLabels, ClaimingLabels, Labels, Locking
<1>2. CASE GetLock(t)
  <2>1. Goto(t, "getLock", "getWait") /\ KeepsMutex(t, "getLock", "getWait") /\ OthersTyped'
    BY <1>2 DEF GetLock, Lock, Goto, KeepsMutex, Locking, OthersTyped, IInv, TypeOK, shared, counts
  <2>2. Adds(0, 0, 0)
    BY <1>2 DEF GetLock, Lock, Adds, Released, IInv, TypeOK, shared, counts
  <2>3. QED
    BY <2>1, <2>2, StepKeepsIInv DEF Bit, FillingLabels, ClaimingLabels, Labels, Locking
<1>3. CASE GetWait(t)
  <2>1. Goto(t, "getWait", "getTake") /\ KeepsMutex(t, "getWait", "getTake") /\ OthersTyped'
    BY <1>3 DEF GetWait, Goto, KeepsMutex, Locking, OthersTyped, IInv, TypeOK, shared, counts
  <2>2. Adds(0, 0, 0)
    BY <1>3 DEF GetWait, Adds, Released, IInv, TypeOK, shared, counts
  <2>3. QED
    BY <2>1, <2>2, StepKeepsIInv DEF Bit, FillingLabels, ClaimingLabels, Labels, Locking
<1>4. CASE GetTake(t)
  <2>1. Goto(t, "getTake", "getReset") /\ KeepsMutex(t, "getTake", "getReset")
    BY <1>4 DEF GetTake, Goto, KeepsMutex, Locking
  <2>2. data # <<>> /\ notFull < Capacity /\ notEmpty < Capacity
    BY <2>1, Margins DEF Goto, ClaimingLabels
  <2>3. OthersTyped'
    <3>1. data[1] \in Ints
      BY <2>2 DEF IInv, TypeOK
    <3>2. lastIndex + 1 \in Int
      BY MaxIntAssumption DEF IInv, TypeOK, Ints
    <3>3. Wrap(lastIndex + 1) \in Ints
      BY <3>2, WrapIsInt
    <3>4. QED
      BY <1>4, <3>1, <3>3 DEF GetTake, OthersTyped, IInv, TypeOK
  <2>4. CASE lastIndex' = data[1]
    <3>1. data' \in Seq(Ints) /\ Len(data') = Len(data) - 1
      BY <1>4, <2>2, <2>4, RemoveTakesOne DEF GetTake, IInv, TypeOK
    <3>2. Adds(-1, 1, 0)
      BY <1>4, <2>2, <2>4, <3>1 DEF GetTake, Adds, Released, IInv, TypeOK
    <3>3. QED
      BY <2>1, <2>3, <3>2, StepKeepsIInv DEF Bit, FillingLabels, ClaimingLabels, Labels, Locking
  <2>5. CASE lastIndex' # data[1]
    <3>1. Adds(0, 0, 1)
      BY <1>4, <2>2, <2>5 DEF GetTake, Adds, Released, IInv, TypeOK
    <3>2. QED
      BY <2>1, <2>3, <3>1, StepKeepsIInv DEF Bit, FillingLabels, ClaimingLabels, Labels, Locking
  <2>6. QED
    BY <2>4, <2>5
<1>5. CASE GetReset(t)
  <2>1. Goto(t, "getReset", "getUnlock") /\ KeepsMutex(t, "getReset", "getUnlock") /\ OthersTyped'
    BY <1>5 DEF GetReset, Goto, KeepsMutex, Locking, OthersTyped, IInv, TypeOK, shared, counts
  <2>2. Adds(0, 0, 0)
    BY <1>5 DEF GetReset, Adds, Released, IInv, TypeOK, shared, counts
  <2>3. QED
    BY <2>1, <2>2, StepKeepsIInv DEF Bit, FillingLabels, ClaimingLabels, Labels, Locking
<1>6. CASE GetUnlock(t)
  <2>1. Goto(t, "getUnlock", "idle") /\ KeepsMutex(t, "getUnlock", "idle") /\ OthersTyped'
    BY <1>6 DEF GetUnlock, Goto, KeepsMutex, Locking, OthersTyped, IInv, TypeOK, shared, counts
  <2>2. Adds(0, 0, 0)
    BY <1>6 DEF GetUnlock, Adds, Released, IInv, TypeOK, shared, counts
  <2>3. QED
    BY <2>1, <2>2, StepKeepsIInv DEF Bit, FillingLabels, ClaimingLabels, Labels, Locking
<1>7. QED
  BY <1>1, <1>2, <1>3, <1>4, <1>5, <1>6 DEF Get

\* The calls themselves, and the end of the delay, leave the sums alone.
LEMMA CallKeepsIInv ==
    ASSUME IInv, NEW t \in Threads, (\E i \in Ints : PutCall(t, i)) \/ GetCall(t)
    PROVE  IInv'
<1>1. ASSUME NEW i \in Ints, PutCall(t, i)
      PROVE  IInv'
  <2>1. Goto(t, "idle", "putSlot") /\ KeepsMutex(t, "idle", "putSlot") /\ OthersTyped'
    BY <1>1 DEF PutCall, Goto, KeepsMutex, Locking, OthersTyped, IInv, TypeOK, shared
  <2>2. Adds(0, 0, 0)
    BY <1>1 DEF PutCall, Adds, IInv, TypeOK, shared, counts
  <2>3. QED
    BY <2>1, <2>2, StepKeepsIInv DEF Bit, FillingLabels, ClaimingLabels, Labels, Locking
<1>2. CASE GetCall(t)
  <2>1. Goto(t, "idle", "getToken") /\ KeepsMutex(t, "idle", "getToken") /\ OthersTyped'
    BY <1>2 DEF GetCall, Goto, KeepsMutex, Locking, OthersTyped, IInv, TypeOK, shared, counts
  <2>2. Adds(0, 0, 0)
    BY <1>2 DEF GetCall, Adds, Released, IInv, TypeOK, shared, counts
  <2>3. QED
    BY <2>1, <2>2, StepKeepsIInv DEF Bit, FillingLabels, ClaimingLabels, Labels, Locking
<1>3. QED
  BY <1>1, <1>2

\* The buffer as constructed satisfies the inductive invariant.
LEMMA InitIInv == Init => IInv
<1> SUFFICES ASSUME Init PROVE IInv
  OBVIOUS
<1>1. TypeOK
  <2>1. 0 \in Ints
    BY MaxIntAssumption DEF Ints
  <2>2. Capacity \in 0..Capacity /\ 0 \in 0..Capacity
    BY CapacityAssumption
  <2>3. data \in Seq(Ints) /\ strikes \in Int
    BY StrikeAssumption DEF Init
  <2>4. QED
    BY <2>1, <2>2, <2>3 DEF Init, TypeOK, Labels
<1>2. MutualExclusion
  BY ThreadAssumption DEF Init, MutualExclusion, Locking
<1>3. Filling = {} /\ Claiming = {} /\ Cardinality({}) = 0
  BY FS_EmptySet DEF Init, Filling, Claiming, At
<1>4. ElementsAreCounted
  BY <1>3, CapacityAssumption DEF Init, ElementsAreCounted
<1>5. QED
  BY <1>1, <1>2, <1>4 DEF IInv

\* Every step of put, get and the timer keeps the inductive invariant.
LEMMA NextIInv == IInv /\ [Next]_vars => IInv'
<1> SUFFICES ASSUME IInv, [Next]_vars PROVE IInv'
  OBVIOUS
<1>1. \A t : t \in Putters \/ t \in Getters => t \in Threads
  BY DEF Threads
<1>2. CASE \E t \in Putters : (\E i \in Ints : PutCall(t, i)) \/ Put(t)
  BY <1>1, <1>2, CallKeepsIInv, PutKeepsIInv
<1>3. CASE \E t \in Getters : GetCall(t) \/ Get(t)
  BY <1>1, <1>3, CallKeepsIInv, GetKeepsIInv
<1>4. CASE DelayedSet \/ UNCHANGED vars
  <2>1. /\ canGet' \in BOOLEAN /\ delayed' \in Nat
        /\ UNCHANGED <<data, relativeZero, lastIndex, strikes, counts, access, pc, index, result>>
    <3>1. CASE DelayedSet
      BY <3>1 DEF DelayedSet, IInv, TypeOK
    <3>2. CASE UNCHANGED vars
      BY <3>2 DEF vars, shared, IInv, TypeOK
    <3>3. QED
      BY <1>4, <3>1, <3>2
  <2>2. QED
    BY <2>1 DEF counts, IInv, TypeOK, MutualExclusion, ElementsAreCounted, Filling, Claiming, At
<1>5. QED
  BY <1>2, <1>3, <1>4 DEF Next

\* The inductive invariant holds in every state of the buffer.
LEMMA Invariance == Spec => []IInv
BY InitIInv, NextIInv, PTL DEF Spec

\* Elements and slots add up, whatever is put: a getter never looks at the root
\* of an empty heap, and neither semaphore is released past its maximum.
THEOREM ElementsAddUp == Spec => []ElementsAreCounted
BY Invariance, PTL DEF IInv

\* Every variable keeps its type; the array stays a sequence of ints.
THEOREM BufferIsTyped == Spec => []TypeOK
BY Invariance, PTL DEF IInv

-----------------------------------------------------------------------------
(***************************************************************************)
(* The delay.  That the buffer is open while an element is taken is what   *)
(* makes it stay open, or close, when it was the last one.                 *)
(***************************************************************************)
TakersAreOpen == \A t \in Threads : pc[t] = "getTake" => canGet

OpenInv == OpenOrDelayed /\ TakersAreOpen

\* A thread that holds the mutex is the only one between its two ends.
LEMMA HolderIsAlone ==
    ASSUME IInv, NEW t \in Threads, pc[t] \in Locking
    PROVE  \A u \in Threads \ {t} : pc[u] \notin Locking
BY ThreadAssumption DEF IInv, MutualExclusion

\* The steps of put: the first element of an empty buffer starts the one timer.
LEMMA PutKeepsOpenInv ==
    ASSUME IInv, OpenInv, NEW t \in Threads, Put(t)
    PROVE  OpenInv'
<1> USE DEF OpenInv, OpenOrDelayed, TakersAreOpen
<1>0. pc \in [Threads -> Labels]
  BY DEF IInv, TypeOK
<1>1. CASE PutAccept(t)
  <2>1. /\ pc[t] = "putCheck" /\ pc' = [pc EXCEPT ![t] = "putInsert"]
        /\ delayed' = (IF data = <<>> THEN delayed + 1 ELSE delayed)
        /\ UNCHANGED <<data, canGet>>
    BY <1>1 DEF PutAccept, Goto
  <2>2. \A u \in Threads : pc[u] \notin {"putInsert", "getReset"}
    BY <2>1, HolderIsAlone DEF Locking
  <2>3. CASE data = <<>>
    <3>1. delayed = 0 /\ ~canGet
      BY <2>2, <2>3
    <3>2. pc'[t] = "putInsert" /\ delayed' = 1 /\ ~canGet'
      BY <1>0, <2>1, <2>3, <3>1
    <3>3. \A u \in Threads : pc'[u] # "getTake"
      BY <1>0, <2>1, <3>1
    <3>4. QED
      BY <3>2, <3>3
  <2>4. CASE data # <<>>
    BY <1>0, <2>1, <2>4
  <2>5. QED
    BY <2>3, <2>4
<1>2. CASE PutInsert(t)
  <2>1. /\ pc[t] = "putInsert" /\ pc' = [pc EXCEPT ![t] = "putUnlock"]
        /\ UNCHANGED <<canGet, delayed>>
    BY <1>2 DEF PutInsert, Goto
  <2>2. data' \in Seq(Ints) /\ Len(data') = Len(data) + 1 /\ Len(data) \in Nat
    BY <1>2, InsertAddsOne DEF PutInsert, IInv, TypeOK
  <2>3. data' # <<>>
    BY <2>2
  <2>4. QED
    BY <1>0, <2>1, <2>3
<1>3. CASE PutSlot(t) \/ PutLock(t) \/ PutReject(t) \/ PutUnlock(t) \/ PutReturn(t)
  <2>1. /\ pc[t] \notin {"putInsert", "getReset"}
        /\ \E to \in Labels \ {"putInsert", "getReset", "getTake"} : pc' = [pc EXCEPT ![t] = to]
        /\ UNCHANGED <<data, canGet, delayed>>
    BY <1>3 DEF PutSlot, PutLock, PutReject, PutUnlock, PutReturn, Lock, Goto, shared, Labels, Locking
  <2>2. QED
    BY <1>0, <2>1
<1>4. QED
  BY <1>1, <1>2, <1>3 DEF Put

\* The steps of get: the event is reset exactly when the last element went.
LEMMA GetKeepsOpenInv ==
    ASSUME IInv, OpenInv, NEW t \in Threads, Get(t)
    PROVE  OpenInv'
<1> USE DEF OpenInv, OpenOrDelayed, TakersAreOpen
<1>0. pc \in [Threads -> Labels]
  BY DEF IInv, TypeOK
<1>1. CASE GetTake(t)
  <2>1. /\ pc[t] = "getTake" /\ pc' = [pc EXCEPT ![t] = "getReset"]
        /\ UNCHANGED <<canGet, delayed>>
    BY <1>1 DEF GetTake, Goto
  <2>2. data # <<>>
    BY <2>1, Margins DEF ClaimingLabels
  <2>3. canGet /\ delayed = 0
    BY <2>1, <2>2
  <2>4. pc'[t] = "getReset" /\ \A u \in Threads : pc'[u] # "putInsert"
    BY <1>0, <2>1, HolderIsAlone DEF Locking
  <2>5. QED
    BY <1>0, <2>1, <2>3, <2>4
<1>2. CASE GetReset(t)
  <2>1. /\ pc[t] = "getReset" /\ pc' = [pc EXCEPT ![t] = "getUnlock"]
        /\ canGet' = (canGet /\ data # <<>>) /\ UNCHANGED <<data, delayed>>
    BY <1>2 DEF GetReset, Goto
  <2>2. \A u \in Threads : pc[u] \notin {"putInsert", "getTake"}
    BY <2>1, HolderIsAlone DEF Locking
  <2>3. QED
    BY <1>0, <2>1, <2>2
<1>3. CASE GetWait(t)
  <2>1. /\ pc[t] = "getWait" /\ pc' = [pc EXCEPT ![t] = "getTake"]
        /\ canGet /\ UNCHANGED <<data, canGet, delayed>>
    BY <1>3 DEF GetWait, Goto, shared
  <2>2. QED
    BY <1>0, <2>1
<1>4. CASE GetToken(t) \/ GetLock(t) \/ GetUnlock(t)
  <2>1. /\ pc[t] \notin {"putInsert", "getReset"}
        /\ \E to \in Labels \ {"putInsert", "getReset", "getTake"} : pc' = [pc EXCEPT ![t] = to]
        /\ UNCHANGED <<data, canGet, delayed>>
    BY <1>4 DEF GetToken, GetLock, GetUnlock, Lock, Goto, shared, Labels, Locking
  <2>2. QED
    BY <1>0, <2>1
<1>5. QED
  BY <1>1, <1>2, <1>3, <1>4 DEF Get

\* Every step keeps the account of event and timer.
LEMMA NextOpenInv == IInv /\ OpenInv /\ [Next]_vars => OpenInv'
<1> SUFFICES ASSUME IInv, OpenInv, [Next]_vars PROVE OpenInv'
  OBVIOUS
<1>1. \A t : t \in Putters \/ t \in Getters => t \in Threads
  BY DEF Threads
<1>2. ASSUME NEW t \in Threads, (\E i \in Ints : PutCall(t, i)) \/ GetCall(t) PROVE OpenInv'
  <2>1. /\ pc[t] = "idle"
        /\ \E to \in {"putSlot", "getToken"} : pc' = [pc EXCEPT ![t] = to]
        /\ UNCHANGED <<data, canGet, delayed>>
    BY <1>2 DEF PutCall, GetCall, Goto, shared
  <2>2. pc \in [Threads -> Labels]
    BY DEF IInv, TypeOK
  <2>3. QED
    BY <2>1, <2>2 DEF OpenInv, OpenOrDelayed, TakersAreOpen
<1>3. CASE DelayedSet
  <2>1. delayed > 0 /\ delayed' = delayed - 1 /\ canGet' /\ UNCHANGED <<data, pc>>
    BY <1>3 DEF DelayedSet
  <2>2. QED
    BY <2>1 DEF OpenInv, OpenOrDelayed, TakersAreOpen
<1>4. CASE UNCHANGED vars
  BY <1>4 DEF vars, shared, OpenInv, OpenOrDelayed, TakersAreOpen
<1>5. QED
  BY <1>1, <1>2, <1>3, <1>4, PutKeepsOpenInv, GetKeepsOpenInv DEF Next

\* A buffer with elements is open or has exactly one timer running, an empty one
\* has neither: a getter that sleeps with the mutex in its hand is woken.
THEOREM OpenExactlyWhenFilled == Spec => []OpenOrDelayed
<1>1. Init => OpenInv
  BY DEF Init, OpenInv, OpenOrDelayed, TakersAreOpen
<1>2. OpenInv => OpenOrDelayed
  BY DEF OpenInv
<1>3. QED
  BY <1>1, <1>2, NextOpenInv, Invariance, PTL DEF Spec

-----------------------------------------------------------------------------
(***************************************************************************)
(* The stream.  Its packets have indexes that are ints, so that all it     *)
(* does to the buffer is what any caller may do.                           *)
(***************************************************************************)
StreamIsTyped == next \in Ints

\* A step of the stream is a step of the buffer, or leaves it alone, and sends only indexes of the stream.
LEMMA StreamStep ==
    ASSUME StreamIsTyped, [StreamNext]_allVars
    PROVE  StreamIsTyped' /\ [Next]_vars
<1>0. next + 1 \in Int /\ \A late \in 1..MaxLate : next - late \in Int
  BY MaxIntAssumption, StreamAssumption DEF StreamIsTyped, Ints
<1>1. CASE \E t \in Putters : Deliver(t) \/ DeliverLate(t)
  <2>1. PICK t \in Putters : Deliver(t) \/ DeliverLate(t)
    BY <1>1
  <2>2. CASE Deliver(t)
    BY <1>0, <2>2, WrapIsInt DEF Deliver, StreamIsTyped, Next
  <2>3. CASE DeliverLate(t)
    <3>1. PICK late \in 1..MaxLate : PutCall(t, Wrap(next - late))
      BY <2>3 DEF DeliverLate
    <3>2. Wrap(next - late) \in Ints
      BY <1>0, WrapIsInt
    <3>3. QED
      BY <2>3, <3>1, <3>2 DEF DeliverLate, streamVars, StreamIsTyped, Next
  <2>4. QED
    BY <2>1, <2>2, <2>3
<1>2. CASE \E t \in Putters : PutStep(t)
  BY <1>2 DEF PutStep, StreamIsTyped, Next
<1>3. CASE Lose
  BY <1>0, <1>3, WrapIsInt DEF Lose, StreamIsTyped
<1>4. CASE Restart
  <2>1. 1 \in Ints
    BY MaxIntAssumption DEF Ints
  <2>2. QED
    BY <1>4, <2>1 DEF Restart, StreamIsTyped
<1>5. CASE (\E t \in Getters : GetCall(t) \/ Get(t)) /\ UNCHANGED streamVars
  BY <1>5 DEF streamVars, StreamIsTyped, Next
<1>6. CASE DelayedSet /\ UNCHANGED streamVars
  BY <1>6 DEF streamVars, StreamIsTyped, Next
<1>7. CASE UNCHANGED allVars
  BY <1>7 DEF allVars, streamVars, StreamIsTyped
<1>8. QED
  BY <1>1, <1>2, <1>3, <1>4, <1>5, <1>6, <1>7 DEF StreamNext

\* A stream that begins finds the buffer as constructed.
LEMMA StreamInitIsTyped == StreamInit => StreamIsTyped /\ Init
BY MaxIntAssumption DEF StreamInit, StreamIsTyped, Ints

\* Fed by the stream, with its losses, late packets and restarts, the buffer is
\* the buffer that may be given any index.
THEOREM StreamImplementsBuffer == StreamSpec => Spec
BY StreamInitIsTyped, StreamStep, PTL DEF StreamSpec, Spec

\* Hence what holds of the buffer holds of the stream that is checked.
THEOREM StreamIsCountedAndOpen == StreamSpec => [](ElementsAreCounted /\ OpenOrDelayed)
BY StreamImplementsBuffer, ElementsAddUp, OpenExactlyWhenFilled, PTL

-----------------------------------------------------------------------------
(***************************************************************************)
(* The strikes.  A counter that starts at 0 is the number of packets that  *)
(* were rejected since one was accepted, both counted up to the limit.     *)
(***************************************************************************)
StrikesAreRejections == strikes = rejected

\* Puts count a rejection twice, in the buffer and in the history.
LEMMA PutStepKeepsStrikes ==
    ASSUME StrikesAreRejections, NEW t \in Putters, PutStep(t)
    PROVE  StrikesAreRejections'
<1> USE DEF StrikesAreRejections
<1>1. CASE PutInsert(t)
  <2>1. rejected' = 0
    BY <1>1 DEF PutStep, PutInsert, PutReject, Goto
  <2>2. QED
    BY <1>1, <2>1 DEF PutInsert
<1>2. CASE PutReject(t)
  <2>1. ~PutInsert(t)
    BY <1>2 DEF PutInsert, PutReject, Goto
  <2>2. rejected' = IF rejected > StrikeLimit THEN rejected ELSE rejected + 1
    BY <1>2, <2>1 DEF PutStep
  <2>3. QED
    BY <1>2, <2>2 DEF PutReject
<1>3. CASE ~PutInsert(t) /\ ~PutReject(t)
  <2>1. rejected' = rejected
    BY <1>3 DEF PutStep
  <2>2. PutSlot(t) \/ PutLock(t) \/ PutAccept(t) \/ PutUnlock(t) \/ PutReturn(t)
    BY <1>3 DEF PutStep, Put
  <2>3. QED
    BY <2>1, <2>2 DEF PutSlot, PutLock, PutAccept, PutUnlock, PutReturn, Lock, shared
<1>4. QED
  BY <1>1, <1>2, <1>3

\* The lower end of the window, the last index handed out, is in the window.
LEMMA LastIndexIsInWindow ==
    ASSUME lastIndex \in Ints
    PROVE  IsIndexInReceiveWindow(lastIndex)
<1>1. Wrap(lastIndex + Capacity) \in Ints /\ lastIndex \in Int
  BY WrapIsInt, MaxIntAssumption, CapacityAssumption DEF Ints
<1>2. QED
  BY <1>1, MaxIntAssumption DEF IsIndexInReceiveWindow, Ints

\* The buffer moves to the index of a rejected packet exactly when more than
\* StrikeLimit packets were rejected in a row before it, provided that the
\* counter, which the code leaves uninitialised, happens to start at 0.
THEOREM JumpsNeedStrikes ==
    ASSUME StrayStrikes = {0} PROVE StreamSpec => JumpNeedsStrikes
<1>1. StreamInit => StrikesAreRejections
  BY DEF StreamInit, Init, StrikesAreRejections
<1>2. StrikesAreRejections /\ [StreamNext]_allVars => StrikesAreRejections'
  <2> SUFFICES ASSUME StrikesAreRejections, [StreamNext]_allVars PROVE StrikesAreRejections'
    OBVIOUS
  <2>1. CASE \E t \in Putters : PutStep(t)
    BY <2>1, PutStepKeepsStrikes
  <2>2. CASE ~\E t \in Putters : PutStep(t)
    <3>1. UNCHANGED <<strikes, rejected>>
      BY <2>2 DEF StreamNext, Deliver, DeliverLate, Lose, Restart, PutCall, GetCall, Get, GetToken, GetLock,
                  GetWait, GetTake, GetReset, GetUnlock, Lock, DelayedSet, allVars, vars, streamVars, shared
    <3>2. QED
      BY <3>1 DEF StrikesAreRejections
  <2>3. QED
    BY <2>1, <2>2
<1>3. IInv /\ StrikesAreRejections /\ [StreamNext]_allVars
        => [\A t \in Putters : PutReject(t) => (lastIndex' # lastIndex <=> rejected > StrikeLimit)]_allVars
  <2> SUFFICES ASSUME IInv, StrikesAreRejections, NEW t \in Putters, PutReject(t)
               PROVE  lastIndex' # lastIndex <=> rejected > StrikeLimit
    OBVIOUS
  <2>1. index[t] # lastIndex
    BY LastIndexIsInWindow DEF PutReject, IInv, TypeOK
  <2>2. QED
    BY <2>1 DEF PutReject, StrikesAreRejections
<1>4. QED
  BY <1>1, <1>2, <1>3, StreamImplementsBuffer, Invariance, PTL DEF StreamSpec, JumpNeedsStrikes
-----------------------------------------------------------------------------
(***************************************************************************)
(* The circle the indexes lie on, and the order of the heap on it.         *)
(***************************************************************************)
\* A remainder, when at most one divisor must be added or taken away.
LEMMA ModuloIs ==
    ASSUME NEW w \in Nat \ {0}, NEW x \in Int, -w <= x, x < 2 * w
    PROVE  x % w = IF x < 0 THEN x + w ELSE IF x < w THEN x ELSE x - w
<1> DEFINE q == x \div w
           m == x % w
<1>1. q \in Int /\ m \in 0..(w - 1) /\ x = (w * q) + m
  OBVIOUS
<1> HIDE DEF q, m
<1>2. q \in {-1, 0, 1}
  <2>1. q >= 2 => w * q >= 2 * w
    BY <1>1
  <2>2. q <= -2 => w * q <= -(2 * w)
    BY <1>1
  <2>3. w * q \in Int
    BY <1>1
  <2>4. QED
    BY <1>1, <2>1, <2>2, <2>3
<1>3. w * (-1) = -w /\ w * 0 = 0 /\ w * 1 = w
  OBVIOUS
<1>4. x = m - w \/ x = m \/ x = m + w
  BY <1>1, <1>2, <1>3
<1>5. QED
  BY <1>1, <1>4 DEF m

\* The indexes lie on a circle of this length.
Round == 2 * (MaxInt + 1)

\* How far one index is from another, and which is the next one.
LEMMA CircleIs ==
    /\ Round \in Nat \ {0}
    /\ \A a, b \in Ints : Distance(a, b) = IF a <= b THEN b - a ELSE b - a + Round
    /\ \A a \in Ints : Wrap(a + 1) = IF a = MaxInt THEN -MaxInt - 1 ELSE a + 1
    /\ \A a \in Ints : Wrap(a + Capacity) = IF a + Capacity <= MaxInt THEN a + Capacity ELSE a + Capacity - Round
    /\ \A d \in (-MaxInt)..MaxInt : Wrap(d) = d
<1>1. Round \in Nat \ {0} /\ MaxInt \in Nat \ {0} /\ Capacity \in Nat \ {0} /\ Capacity <= MaxInt
  BY MaxIntAssumption, CapacityAssumption DEF Round
<1>2. ASSUME NEW a \in Ints, NEW b \in Ints
      PROVE  Distance(a, b) = IF a <= b THEN b - a ELSE b - a + Round
  <2>1. b - a \in Int /\ -Round <= b - a /\ b - a < Round /\ b - a < 2 * Round /\ (b - a < 0 <=> ~(a <= b))
    BY <1>1 DEF Ints, Round
  <2>2. (b - a) % Round = IF b - a < 0 THEN b - a + Round ELSE b - a
    BY <1>1, <2>1, ModuloIs
  <2>3. QED
    BY <2>1, <2>2 DEF Distance, Round
<1>3. ASSUME NEW x \in Int, -MaxInt - 1 <= x, x < MaxInt + 1 + Round
      PROVE  Wrap(x) = IF x <= MaxInt THEN x ELSE x - Round
  <2>1. x + MaxInt + 1 \in Int /\ ~(x + MaxInt + 1 < 0) /\ x + MaxInt + 1 < 2 * Round /\ -Round <= x + MaxInt + 1
        /\ (x + MaxInt + 1 < Round <=> x <= MaxInt)
    BY <1>1, <1>3 DEF Round
  <2>2. (x + MaxInt + 1) % Round = IF x <= MaxInt THEN x + MaxInt + 1 ELSE x + MaxInt + 1 - Round
    <3> DEFINE y == x + MaxInt + 1
    <3>1. y \in Int /\ -Round <= y /\ y < 2 * Round /\ ~(y < 0) /\ (y < Round <=> x <= MaxInt)
      BY <2>1
    <3> HIDE DEF y
    <3>2. y % Round = IF y < 0 THEN y + Round ELSE IF y < Round THEN y ELSE y - Round
      BY <1>1, <3>1, ModuloIs
    <3>3. y % Round = IF x <= MaxInt THEN y ELSE y - Round
      BY <3>1, <3>2
    <3>4. QED
      BY <1>1, <1>3, <3>3, SMT DEF y
  <2>3. QED
    BY <1>1, <2>2 DEF Wrap, Round
<1>4. ASSUME NEW a \in Ints
      PROVE  /\ Wrap(a + 1) = IF a = MaxInt THEN -MaxInt - 1 ELSE a + 1
             /\ Wrap(a + Capacity) = IF a + Capacity <= MaxInt THEN a + Capacity ELSE a + Capacity - Round
  <2>1. a \in Int /\ -MaxInt - 1 <= a /\ a <= MaxInt
    BY <1>1 DEF Ints
  <2>2. Wrap(a + 1) = IF a + 1 <= MaxInt THEN a + 1 ELSE a + 1 - Round
    BY <1>1, <1>3, <2>1 DEF Round
  <2>3. Wrap(a + Capacity) = IF a + Capacity <= MaxInt THEN a + Capacity ELSE a + Capacity - Round
    BY <1>1, <1>3, <2>1 DEF Round
  <2>4. QED
    BY <1>1, <2>1, <2>2, <2>3 DEF Round
<1>5. ASSUME NEW d \in (-MaxInt)..MaxInt PROVE Wrap(d) = d
  BY <1>1, <1>3 DEF Round
<1>6. QED
  BY <1>1, <1>2, <1>4, <1>5

\* Distances, as the stream and the reader move on.
LEMMA DistanceIs ==
    /\ \A a, b \in Ints : Distance(a, b) \in 0..(Round - 1)
    /\ \A a, b, c \in Ints : Distance(a, b) = Distance(a, c) => b = c
    /\ \A a, b \in Ints : Distance(a, b) < Round - 1 => Distance(a, Wrap(b + 1)) = Distance(a, b) + 1
    /\ \A a, b \in Ints : Distance(a, b) > 0 => Distance(Wrap(a + 1), b) = Distance(a, b) - 1
    /\ \A a, b \in Ints : Distance(a, b) = 0 => Distance(Wrap(a + 1), b) = Round - 1
    /\ \A a, b \in Ints : Distance(a, b) = 1 <=> b = Wrap(a + 1)
    /\ \A a \in Ints : Distance(a, a) = 0 /\ Wrap(a + 1) \in Ints
<1>1. MaxInt \in Nat \ {0} /\ Round = 2 * (MaxInt + 1)
  BY MaxIntAssumption DEF Round
<1>2. \A a \in Ints : Wrap(a + 1) \in Ints
  BY WrapIsInt DEF Ints
<1>3. \A a, b \in Ints : Distance(a, b) = IF a <= b THEN b - a ELSE b - a + Round
  BY CircleIs
<1>4. \A a \in Ints : Wrap(a + 1) = IF a = MaxInt THEN -MaxInt - 1 ELSE a + 1
  BY CircleIs
<1>5. \A a : a \in Ints <=> a \in Int /\ -MaxInt - 1 <= a /\ a <= MaxInt
  BY <1>1 DEF Ints
<1> HIDE DEF Ints
<1>6. \A a, b \in Ints : Distance(a, b) \in 0..(Round - 1)
  BY <1>1, <1>3, <1>5
<1>7. \A a, b, c \in Ints : Distance(a, b) = Distance(a, c) => b = c
  BY <1>1, <1>3, <1>5
<1>8. ASSUME NEW a \in Ints, NEW b \in Ints, Distance(a, b) < Round - 1
      PROVE  Distance(a, Wrap(b + 1)) = Distance(a, b) + 1
  BY <1>1, <1>2, <1>3, <1>4, <1>5, <1>8
<1>9. ASSUME NEW a \in Ints, NEW b \in Ints, Distance(a, b) > 0
      PROVE  Distance(Wrap(a + 1), b) = Distance(a, b) - 1
  BY <1>1, <1>2, <1>3, <1>4, <1>5, <1>9
<1>10. \A a, b \in Ints : Distance(a, b) = 1 <=> b = Wrap(a + 1)
  BY <1>1, <1>2, <1>3, <1>4, <1>5
<1>11. \A a \in Ints : Distance(a, a) = 0
  BY <1>1, <1>3, <1>5
<1>12. ASSUME NEW a \in Ints, NEW b \in Ints, Distance(a, b) = 0
       PROVE  Distance(Wrap(a + 1), b) = Round - 1
  BY <1>1, <1>2, <1>3, <1>4, <1>5, <1>12
<1>13. QED
  BY <1>2, <1>6, <1>7, <1>8, <1>9, <1>10, <1>11, <1>12

\* Of two indexes that follow the zero by no more than half the circle, the order of
\* the heap puts the nearer one first: also across the wrap-around.
LEMMA NearerIsBefore ==
    ASSUME NEW zero \in Ints, NEW a \in Ints, NEW b \in Ints,
           Distance(zero, a) \in 1..(MaxInt + 1), Distance(zero, b) \in 1..(MaxInt + 1)
    PROVE  Before(a, b, zero) <=> Distance(zero, a) < Distance(zero, b)
<1>1. MaxInt \in Nat \ {0} /\ Round = 2 * (MaxInt + 1)
  BY MaxIntAssumption DEF Round
<1>2. /\ Distance(zero, a) = IF zero <= a THEN a - zero ELSE a - zero + Round
      /\ Distance(zero, b) = IF zero <= b THEN b - zero ELSE b - zero + Round
  BY CircleIs
<1>3. /\ zero \in Int /\ -MaxInt - 1 <= zero /\ zero <= MaxInt
      /\ a \in Int /\ -MaxInt - 1 <= a /\ a <= MaxInt
      /\ b \in Int /\ -MaxInt - 1 <= b /\ b <= MaxInt
  BY <1>1 DEF Ints
<1>4. a # zero /\ b # zero
  BY <1>1, <1>2, <1>3
<1>5. CASE a > zero /\ b < zero
  <2>1. CompareIndexes(a, b, zero) = 1
    BY <1>3, <1>4, <1>5 DEF CompareIndexes
  <2>2. Distance(zero, a) < Distance(zero, b)
    BY <1>1, <1>2, <1>3, <1>5
  <2>3. QED
    BY <2>1, <2>2 DEF Before
<1>6. CASE a < zero /\ b > zero
  <2>1. CompareIndexes(a, b, zero) = -1
    BY <1>3, <1>4, <1>6 DEF CompareIndexes
  <2>2. ~(Distance(zero, a) < Distance(zero, b))
    BY <1>1, <1>2, <1>3, <1>6
  <2>3. QED
    BY <2>1, <2>2 DEF Before
<1>7. CASE (a > zero /\ b > zero) \/ (a < zero /\ b < zero)
  <2>1. CompareIndexes(a, b, zero) = Wrap(b - a)
    BY <1>3, <1>4, <1>7 DEF CompareIndexes
  <2>2. b - a \in (-MaxInt)..MaxInt
    BY <1>1, <1>2, <1>3, <1>7
  <2>3. Wrap(b - a) = b - a
    BY <2>2, CircleIs
  <2>4. (b - a > 0) <=> Distance(zero, a) < Distance(zero, b)
    BY <1>1, <1>2, <1>3, <1>7
  <2>5. QED
    BY <2>1, <2>3, <2>4 DEF Before
<1>8. QED
  BY <1>3, <1>4, <1>5, <1>6, <1>7

\* What is ahead by no more than the capacity is in the receive window.
LEMMA AheadIsInWindow ==
    ASSUME lastIndex \in Ints, NEW i \in Ints, Distance(lastIndex, i) \in 1..Capacity
    PROVE  IsIndexInReceiveWindow(i)
<1>1. MaxInt \in Nat \ {0} /\ Round = 2 * (MaxInt + 1) /\ Capacity \in Nat \ {0} /\ Capacity <= MaxInt
  BY MaxIntAssumption, CapacityAssumption DEF Round
<1>2. /\ Distance(lastIndex, i) = IF lastIndex <= i THEN i - lastIndex ELSE i - lastIndex + Round
      /\ Wrap(lastIndex + Capacity) = IF lastIndex + Capacity <= MaxInt THEN lastIndex + Capacity
                                      ELSE lastIndex + Capacity - Round
  BY CircleIs
<1>3. /\ lastIndex \in Int /\ -MaxInt - 1 <= lastIndex /\ lastIndex <= MaxInt
      /\ i \in Int /\ -MaxInt - 1 <= i /\ i <= MaxInt
  BY <1>1 DEF Ints
<1>4. QED
  BY <1>1, <1>2, <1>3 DEF IsIndexInReceiveWindow

-----------------------------------------------------------------------------
(***************************************************************************)
(* The stream of one sender that only loses packets, no further ahead of   *)
(* the reader than the window: what ElementsAreAhead and IsPlayout need,   *)
(* as a late packet breaks them.                                           *)
(***************************************************************************)
OneStream ==
    /\ MaxLate = 0 /\ MaxRestarts = 0 /\ MaxAhead \in 1..Capacity
    /\ \A t, u \in Putters : t = u
    /\ Putters \cap Getters = {}

\* How far ahead of an index the others are.
AheadOf(zero) == [i \in Ints |-> Distance(zero, i)]
Ahead == AheadOf(lastIndex)

\* What is in the buffer, on its way into it and still to be sent follows the
\* reader in this order, within the window; and the heap, whose zero may be one
\* index behind the reader, is ordered by it.
AheadInv ==
    /\ restarts = 0
    /\ lastIndex = relativeZero \/ lastIndex = Wrap(relativeZero + 1)
    /\ HeapOrdered(data, Ahead) /\ AllDiffer(data, Ahead)
    /\ Ahead[next] \in 1..(MaxAhead + 1)
    /\ data = <<>> /\ (\A t \in Putters : ~Coming(t)) => Ahead[next] <= MaxAhead
    /\ \A i \in 1..Len(data) : Ahead[data[i]] \in 1..MaxAhead /\ Ahead[data[i]] < Ahead[next]
    /\ \A t \in Putters : Coming(t) =>
          /\ Ahead[index[t]] \in 1..MaxAhead /\ Ahead[index[t]] < Ahead[next]
          /\ \A i \in 1..Len(data) : Ahead[data[i]] < Ahead[index[t]]

\* The sizes: the window is less than half of the circle.
LEMMA WindowIsSmall ==
    ASSUME OneStream
    PROVE  /\ MaxAhead \in Nat \ {0} /\ Capacity \in Nat \ {0} /\ MaxAhead <= Capacity
           /\ Capacity <= MaxInt /\ MaxInt \in Nat \ {0}
           /\ Round \in Nat /\ Capacity + 2 < Round
BY MaxIntAssumption, CapacityAssumption DEF OneStream, Round

\* The indexes in the window.
Window(zero) == {i \in Ints : Distance(zero, i) \in 1..Capacity}

\* The heap orders them by how far ahead of the reader they are, with its zero
\* where the reader is or one index behind.
LEMMA WindowIsRanked ==
    ASSUME NEW last \in Ints, NEW zero \in Ints, last = zero \/ last = Wrap(zero + 1)
    PROVE  RanksBy(Window(last), zero, AheadOf(last))
<1>1. /\ MaxInt \in Nat \ {0} /\ Capacity \in Nat \ {0} /\ Capacity <= MaxInt
      /\ Round \in Nat /\ Round - 1 > Capacity
  BY MaxIntAssumption, CapacityAssumption DEF Round
<1>2. \A i \in Window(last) : i \in Ints /\ Distance(last, i) \in 1..Capacity /\ AheadOf(last)[i] = Distance(last, i)
  BY DEF Window, AheadOf
<1>3. CASE last = zero
  <2>1. ASSUME NEW a \in Window(last), NEW b \in Window(last)
        PROVE  Before(a, b, zero) <=> Distance(last, a) < Distance(last, b)
    <3>1. a \in Ints /\ b \in Ints /\ Distance(zero, a) \in 1..(MaxInt + 1) /\ Distance(zero, b) \in 1..(MaxInt + 1)
      BY <1>1, <1>2, <1>3
    <3>2. QED
      BY <1>3, <3>1, NearerIsBefore
  <2>2. QED
    BY <1>2, <2>1 DEF RanksBy
<1>4. CASE last = Wrap(zero + 1)
  <2>1. ASSUME NEW i \in Window(last)
        PROVE  Distance(zero, i) \in 1..(MaxInt + 1) /\ Distance(zero, i) = Distance(last, i) + 1
    <3>1. i \in Ints /\ Distance(last, i) \in 1..Capacity
      BY <1>2
    <3>2. Distance(zero, i) \in 0..(Round - 1)
      BY <3>1, DistanceIs
    <3>3. Distance(zero, i) # 0
      BY <1>1, <1>4, <3>1, DistanceIs
    <3>4. Distance(last, i) = Distance(zero, i) - 1
      BY <1>4, <3>1, <3>2, <3>3, DistanceIs
    <3>5. QED
      BY <1>1, <3>1, <3>2, <3>4
  <2>2. ASSUME NEW a \in Window(last), NEW b \in Window(last)
        PROVE  Before(a, b, zero) <=> Distance(last, a) < Distance(last, b)
    <3>1. Before(a, b, zero) <=> Distance(zero, a) < Distance(zero, b)
      BY <1>2, <2>1, NearerIsBefore
    <3>2. QED
      BY <1>2, <2>1, <3>1
  <2>3. QED
    BY <1>2, <2>2 DEF RanksBy
<1>5. QED
  BY <1>3, <1>4

\* What the type invariant and the order say of the variables they are about.
LEMMA AheadFacts ==
    ASSUME OneStream, IInv, StreamIsTyped, AheadInv
    PROVE  /\ lastIndex \in Ints /\ relativeZero \in Ints /\ next \in Ints /\ data \in Seq(Ints)
           /\ pc \in [Threads -> Labels] /\ index \in [Threads -> Ints]
           /\ data \in Seq(Window(lastIndex))
           /\ \A i \in Ints : Ahead[i] = Distance(lastIndex, i) /\ Ahead[i] \in Nat
           /\ RanksBy(Window(lastIndex), relativeZero, Ahead)
           /\ RanksBy(Window(lastIndex), lastIndex, Ahead)
           /\ \A t \in Putters : t \in Threads
<1>1. /\ lastIndex \in Ints /\ relativeZero \in Ints /\ next \in Ints /\ data \in Seq(Ints)
      /\ pc \in [Threads -> Labels] /\ index \in [Threads -> Ints]
  BY DEF IInv, TypeOK, StreamIsTyped
<1>2. \A i \in Ints : Ahead[i] = Distance(lastIndex, i)
  BY DEF Ahead, AheadOf
<1>3. \A i \in Ints : Ahead[i] \in Nat
  <2>1. \A i \in Ints : Distance(lastIndex, i) \in 0..(Round - 1)
    BY <1>1, DistanceIs
  <2>2. QED
    BY <1>2, <2>1
<1>4. data \in Seq(Window(lastIndex))
  <2>1. ASSUME NEW i \in 1..Len(data) PROVE data[i] \in Window(lastIndex)
    <3>1. data[i] \in Ints /\ Ahead[data[i]] \in 1..MaxAhead
      BY <1>1 DEF AheadInv
    <3>2. QED
      BY <1>2, <3>1, WindowIsSmall DEF Window
  <2>2. QED
    BY <1>1, <2>1
<1>5. RanksBy(Window(lastIndex), relativeZero, Ahead) /\ RanksBy(Window(lastIndex), lastIndex, Ahead)
  BY <1>1, WindowIsRanked DEF Ahead, AheadInv
<1>6. QED
  BY <1>1, <1>2, <1>3, <1>4, <1>5 DEF Threads

\* A step that moves a thread and none of what is ordered keeps the order.
LEMMA QuietKeepsAhead ==
    ASSUME AheadInv, UNCHANGED <<data, lastIndex, relativeZero, next, restarts>>,
           \A u \in Putters : (Coming(u)' <=> Coming(u)) /\ (Coming(u) => index'[u] = index[u])
    PROVE  AheadInv'
BY DEF AheadInv, Ahead

\* The steps of the sender: the packet it sends, or loses, is the next one, and
\* still within the window.
LEMMA SenderKeepsAhead ==
    ASSUME OneStream, IInv, StreamIsTyped, AheadInv, (\E t \in Putters : Deliver(t)) \/ Lose
    PROVE  AheadInv'
<1>1. /\ next' = Wrap(next + 1) /\ UNCHANGED <<data, lastIndex, relativeZero, restarts>>
      /\ Ahead[next] \in 1..MaxAhead
  <2>1. CASE Lose
    <3>1. Ahead[next] = Distance(lastIndex, next) /\ Ahead[next] \in 1..(MaxAhead + 1)
      BY AheadFacts DEF AheadInv
    <3>2. QED
      BY <2>1, <3>1, WindowIsSmall DEF Lose, vars, shared
  <2>2. CASE \E t \in Putters : Deliver(t)
    <3>1. PICK t \in Putters : Deliver(t)
      BY <2>2
    <3>2. restarts = 0 /\ restarts \in Int /\ Ahead[next] = Distance(lastIndex, next) /\ Ahead[next] \in 1..(MaxAhead + 1)
      BY AheadFacts DEF AheadInv
    <3>3. Paced \/ Idle
      BY <3>1, <3>2 DEF Deliver
    <3>4. Idle => Ahead[next] <= MaxAhead
      BY DEF Idle, AheadInv, Coming
    <3>5. Ahead[next] <= MaxAhead
      BY <3>2, <3>3, <3>4 DEF Paced
    <3>6. QED
      BY <3>1, <3>2, <3>5, WindowIsSmall DEF Deliver, PutCall, shared
  <2>3. QED
    BY <2>1, <2>2
<1>2. next \in Ints /\ next' \in Ints /\ lastIndex \in Ints
  BY <1>1, AheadFacts, DistanceIs
<1>3. Ahead' = Ahead /\ Ahead'[next'] = Ahead[next] + 1
  <2>1. Ahead' = Ahead
    BY <1>1 DEF Ahead
  <2>2. Distance(lastIndex, next) = Ahead[next] /\ Distance(lastIndex, next') = Ahead[next']
    BY <1>2, AheadFacts
  <2>3. Distance(lastIndex, next) < Round - 1
    BY <1>1, <2>2, WindowIsSmall
  <2>4. Distance(lastIndex, next') = Distance(lastIndex, next) + 1
    BY <1>1, <1>2, <2>3, DistanceIs
  <2>5. QED
    BY <2>1, <2>2, <2>4
<1>4. Ahead[next] \in Nat /\ MaxAhead \in Nat
  BY <1>1, WindowIsSmall
<1>5. \A i \in 1..Len(data) : Ahead[data[i]] \in 1..MaxAhead /\ Ahead[data[i]] < Ahead[next]
  BY DEF AheadInv
<1>6. CASE Lose
  <2>1. UNCHANGED <<pc, index>>
    BY <1>6 DEF Lose, vars
  <2>2. Ahead'[next'] <= MaxAhead
    <3>1. Distance(lastIndex, next) < MaxAhead /\ Ahead[next] = Distance(lastIndex, next)
      BY <1>2, <1>6, AheadFacts DEF Lose
    <3>2. QED
      BY <1>3, <1>4, <3>1
  <2>3. \A t \in Putters : Coming(t)' => 
           /\ Ahead[index[t]] \in 1..MaxAhead /\ Ahead[index[t]] < Ahead[next]
           /\ \A i \in 1..Len(data) : Ahead[data[i]] < Ahead[index[t]]
    BY <2>1 DEF AheadInv, Coming
  <2> DEFINE a == Ahead[next]
             b == Ahead'[next']
  <2>4. b = a + 1 /\ a \in Nat /\ b \in 1..(MaxAhead + 1)
    BY <1>3, <1>4, <2>2
  <2>5. \A k \in 1..MaxAhead : k < a => k < b
    BY <2>4
  <2>6. QED
    BY <1>1, <1>3, <1>5, <2>1, <2>2, <2>3, <2>4, <2>5 DEF AheadInv, Coming
<1>7. CASE \E t \in Putters : Deliver(t)
  <2>1. PICK t \in Putters : Deliver(t)
    BY <1>7
  <2>2. pc'[t] = "putSlot" /\ index'[t] = next
    BY <2>1, AheadFacts DEF Deliver, PutCall, Goto
  <2>3. \A u \in Putters : u = t
    BY DEF OneStream
  <2> DEFINE a == Ahead[next]
             b == Ahead'[next']
  <2>4. b = a + 1 /\ a \in Nat /\ b \in 1..(MaxAhead + 1) /\ a < b
    BY <1>1, <1>3, <1>4
  <2>5. \A k \in 1..MaxAhead : k < a => k < b
    BY <2>4
  <2>6. Coming(t)'
    BY <2>2 DEF Coming
  <2>7. QED
    BY <1>1, <1>3, <1>5, <2>2, <2>3, <2>4, <2>5, <2>6 DEF AheadInv
<1>8. QED
  BY <1>6, <1>7

\* The steps of put: what comes is within the window, so that it is not rejected,
\* and insert finds it its place in the order.
LEMMA PutKeepsAhead ==
    ASSUME OneStream, IInv, StreamIsTyped, AheadInv, NEW t \in Putters, PutStep(t)
    PROVE  AheadInv'
<1>1. /\ pc \in [Threads -> Labels] /\ t \in Threads /\ index \in [Threads -> Ints]
      /\ lastIndex \in Ints /\ UNCHANGED <<next, restarts>>
  BY AheadFacts DEF PutStep
<1>2. \A u \in Putters : u = t
  BY DEF OneStream
<1>3. Coming(t) => /\ Ahead[index[t]] = Distance(lastIndex, index[t])
                   /\ Ahead[index[t]] \in 1..MaxAhead /\ Ahead[index[t]] < Ahead[next]
                   /\ \A i \in 1..Len(data) : Ahead[data[i]] < Ahead[index[t]]
  BY <1>1, AheadFacts DEF AheadInv
<1>4. CASE PutSlot(t) \/ PutLock(t) \/ PutAccept(t) \/ PutUnlock(t) \/ PutReturn(t)
  <2>1. /\ UNCHANGED <<data, lastIndex, relativeZero, index>>
        /\ \E to \in Labels : /\ pc' = [pc EXCEPT ![t] = to]
                              /\ Coming(t) <=> to \in {"putSlot", "putLock", "putCheck", "putInsert"}
    BY <1>4 DEF PutSlot, PutLock, PutAccept, PutUnlock, PutReturn, Lock, Goto, shared, Labels, Locking, Coming
  <2>2. Coming(t)' <=> Coming(t)
    BY <1>1, <2>1 DEF Coming
  <2>3. QED
    BY <1>1, <1>2, <2>1, <2>2, QuietKeepsAhead
<1>5. CASE PutReject(t)
  <2>1. Coming(t)
    BY <1>5 DEF PutReject, Goto, Coming
  <2>2. index[t] \in Ints /\ Distance(lastIndex, index[t]) \in 1..Capacity
    BY <1>1, <1>3, <2>1, WindowIsSmall
  <2>3. QED
    BY <1>1, <1>5, <2>2, AheadIsInWindow DEF PutReject
<1>6. CASE PutInsert(t)
  <2>1. PICK x \in Ints : x = index[t]
    BY <1>1
  <2>2. /\ pc[t] = "putInsert" /\ pc' = [pc EXCEPT ![t] = "putUnlock"]
        /\ data' = Insert(data, x, relativeZero)
        /\ UNCHANGED <<lastIndex, relativeZero>>
    BY <1>6, <2>1 DEF PutInsert, Goto
  <2>3. /\ Ahead[x] = Distance(lastIndex, x)
        /\ Ahead[x] \in 1..MaxAhead /\ Ahead[x] < Ahead[next]
        /\ \A i \in 1..Len(data) : Ahead[data[i]] < Ahead[x]
    BY <1>3, <2>1, <2>2 DEF Coming
  <2>4. x \in Window(lastIndex)
    BY <2>3, WindowIsSmall DEF Window
  <2>5. /\ data \in Seq(Ints) /\ data \in Seq(Window(lastIndex)) /\ \A i \in Ints : Ahead[i] \in Nat
        /\ RanksBy(Window(lastIndex), relativeZero, Ahead)
        /\ HeapOrdered(data, Ahead) /\ AllDiffer(data, Ahead)
    BY AheadFacts DEF AheadInv
  <2>6. \A i \in 1..Len(data) : Ahead[data[i]] # Ahead[x]
    BY <2>3, <2>5
  <2>7. Len(data') = Len(data) + 1 /\ data' \in Seq(Ints)
    BY <2>2, <2>5, InsertAddsOne
  <2>8. /\ HeapOrdered(data', Ahead) /\ AllDiffer(data', Ahead)
        /\ \A i \in 1..Len(data') : data'[i] = x \/ \E j \in 1..Len(data) : data'[i] = data[j]
    <3> DEFINE g == Append(data, x)
    <3>1. HeapOrdered(data', Ahead) /\ Rearranges(data', g)
      BY <2>2, <2>4, <2>5, <2>7, InsertKeepsHeap
    <3>2. Len(g) = Len(data) + 1 /\ \A i \in 1..Len(g) : g[i] = IF i \in 1..Len(data) THEN data[i] ELSE x
      BY <2>5
    <3>3. \A i \in 1..Len(g) : i \notin 1..Len(data) => i = Len(data) + 1
      BY <2>5, <3>2
    <3>4. AllDiffer(g, Ahead)
      BY <2>5, <2>6, <3>2, <3>3 DEF AllDiffer
    <3> HIDE DEF g
    <3>5. AllDiffer(data', Ahead) /\ \A i \in 1..Len(data') : \E j \in 1..Len(g) : data'[i] = g[j]
      BY <3>1, <3>4, RearrangedElements
    <3>6. QED
      BY <3>1, <3>2, <3>5
  <2>9. \A i \in 1..Len(data') : Ahead[data'[i]] \in 1..MaxAhead /\ Ahead[data'[i]] < Ahead[next]
    BY <2>3, <2>8 DEF AheadInv
  <2>10. Ahead' = Ahead /\ data' # <<>>
    BY <2>2, <2>5, <2>7 DEF Ahead
  <2>11. ~Coming(t)'
    BY <1>1, <2>2 DEF Coming
  <2>12. QED
    BY <1>1, <1>2, <2>2, <2>8, <2>9, <2>10, <2>11 DEF AheadInv
<1>7. QED
  BY <1>4, <1>5, <1>6 DEF PutStep, Put

\* get moves the reader on by one index: to the root, which it takes, or to an
\* index that everything else is ahead of.
LEMMA TakeKeepsAhead ==
    ASSUME OneStream, IInv, StreamIsTyped, AheadInv, NEW t \in Threads, GetTake(t),
           UNCHANGED streamVars
    PROVE  AheadInv'
<1>1. /\ pc[t] = "getTake" /\ pc' = [pc EXCEPT ![t] = "getReset"]
      /\ \E i : index' = [index EXCEPT ![t] = i]
      /\ relativeZero' = lastIndex /\ lastIndex' = Wrap(lastIndex + 1)
      /\ IF lastIndex' = data[1] THEN data' = Remove(data, lastIndex) ELSE data' = data
      /\ UNCHANGED <<next, restarts>>
  BY DEF GetTake, Goto, streamVars
<1>2. /\ lastIndex \in Ints /\ next \in Ints /\ data \in Seq(Ints) /\ data \in Seq(Window(lastIndex))
      /\ pc \in [Threads -> Labels] /\ index \in [Threads -> Ints]
      /\ \A i \in Ints : Ahead[i] = Distance(lastIndex, i) /\ Ahead[i] \in Nat
      /\ RanksBy(Window(lastIndex), lastIndex, Ahead)
      /\ HeapOrdered(data, Ahead) /\ AllDiffer(data, Ahead)
      /\ \A u \in Putters : u \in Threads
  BY AheadFacts DEF AheadInv
<1>3. data # <<>> /\ Len(data) \in Nat \ {0} /\ data[1] \in Ints
  <2>1. data # <<>>
    BY <1>1, Margins DEF ClaimingLabels
  <2>2. QED
    BY <1>2, <2>1
<1>4. MaxAhead \in Nat \ {0}
  BY WindowIsSmall
<1>5. /\ \A i \in 1..Len(data) : data[i] \in Ints /\ Ahead[data[i]] \in 1..MaxAhead /\ Ahead[data[i]] < Ahead[next]
      /\ \A u \in Putters : Coming(u) =>
            /\ index[u] \in Ints /\ Ahead[index[u]] \in 1..MaxAhead /\ Ahead[index[u]] < Ahead[next]
            /\ \A i \in 1..Len(data) : Ahead[data[i]] < Ahead[index[u]]
      /\ Ahead[next] \in 1..(MaxAhead + 1)
  BY <1>2 DEF AheadInv
<1>6. \A i \in 2..Len(data) : Ahead[data[1]] < Ahead[data[i]]
  <2>1. \A i \in Window(lastIndex) : Ahead[i] \in Int
    BY <1>2 DEF Window
  <2>2. \A i \in 2..Len(data) : Ahead[data[1]] <= Ahead[data[i]]
    BY <1>2, <2>1, RootIsFirst
  <2>3. ASSUME NEW i \in 2..Len(data) PROVE Ahead[data[1]] < Ahead[data[i]]
    <3>1. i \in 1..Len(data) /\ 1 \in 1..Len(data) /\ i # 1
      BY <1>3
    <3>2. Ahead[data[1]] # Ahead[data[i]]
      BY <1>2, <3>1 DEF AllDiffer
    <3>3. Ahead[data[1]] \in 1..MaxAhead /\ Ahead[data[i]] \in 1..MaxAhead
      BY <1>5, <3>1
    <3>4. QED
      BY <1>4, <2>2, <3>2, <3>3
  <2>4. QED
    BY <2>3
<1>7. Ahead[data[1]] = 1 <=> lastIndex' = data[1]
  <2>1. Distance(lastIndex, data[1]) = 1 <=> data[1] = Wrap(lastIndex + 1)
    BY <1>2, <1>3, DistanceIs
  <2>2. QED
    BY <1>1, <1>2, <1>3, <2>1
\* What is left in the buffer is ahead by two at least.
<1>8. /\ data' \in Seq(Ints) /\ HeapOrdered(data', Ahead) /\ AllDiffer(data', Ahead)
      /\ \A i \in 1..Len(data') : /\ Ahead[data'[i]] >= 2
                                  /\ \E j \in 1..Len(data) : data'[i] = data[j]
      /\ lastIndex' = data[1] => Len(data') = Len(data) - 1
  <2>1. CASE lastIndex' = data[1]
    <3>1. data' = Remove(data, lastIndex)
      BY <1>1, <2>1
    <3>2. data' \in Seq(Ints) /\ Len(data') = Len(data) - 1
      BY <1>2, <1>3, <3>1, RemoveTakesOne
    <3>3. /\ HeapOrdered(data', Ahead) /\ AllDiffer(data', Ahead)
          /\ \A i \in 1..Len(data') : \E j \in 2..Len(data) : data'[i] = data[j]
      <4>1. PICK V : V = Window(lastIndex)
        OBVIOUS
      <4>2. PICK r : r = Ahead
        OBVIOUS
      <4>3. RanksBy(V, lastIndex, r) /\ data \in Seq(V) /\ HeapOrdered(data, r) /\ AllDiffer(data, r)
        BY <1>2, <4>1, <4>2
      <4>4. HeapOrdered(data', r) /\ Rearranges(data', Tail(data))
        BY <1>3, <3>1, <3>2, <4>3, RemoveKeepsHeap
      <4>5. Len(Tail(data)) = Len(data) - 1 /\ \A k \in 1..Len(Tail(data)) : Tail(data)[k] = data[k + 1]
        BY <1>2, <1>3
      <4>6. \A k \in 1..Len(Tail(data)) : k + 1 \in 2..Len(data) /\ k + 1 \in 1..Len(data)
        BY <1>3, <4>5
      <4>7. AllDiffer(Tail(data), r)
        <5> SUFFICES ASSUME NEW i \in 1..Len(Tail(data)), NEW j \in 1..Len(Tail(data)),
                            r[Tail(data)[i]] = r[Tail(data)[j]]
                     PROVE  i = j
          BY DEF AllDiffer
        <5>1. i + 1 = j + 1
          BY <4>3, <4>5, <4>6 DEF AllDiffer
        <5>2. QED
          BY <5>1
      <4>8. AllDiffer(data', r) /\ \A i \in 1..Len(data') : \E j \in 1..Len(Tail(data)) : data'[i] = Tail(data)[j]
        BY <4>4, <4>7, RearrangedElements
      <4>9. \A i \in 1..Len(data') : \E j \in 2..Len(data) : data'[i] = data[j]
        BY <4>5, <4>6, <4>8
      <4>10. QED
        BY <4>2, <4>4, <4>8, <4>9
    <3>4. ASSUME NEW i \in 1..Len(data')
          PROVE  Ahead[data'[i]] >= 2 /\ \E j \in 1..Len(data) : data'[i] = data[j]
      <4>1. PICK j \in 2..Len(data) : data'[i] = data[j]
        BY <3>3
      <4>2. j \in 1..Len(data)
        OBVIOUS
      <4>3. Ahead[data[1]] = 1 /\ Ahead[data[1]] < Ahead[data[j]] /\ Ahead[data[j]] \in 1..MaxAhead
        BY <1>5, <1>6, <1>7, <2>1, <4>2
      <4>4. Ahead[data[j]] >= 2
        BY <1>4, <4>3
      <4>5. QED
        BY <4>1, <4>2, <4>4
    <3>5. QED
      BY <3>2, <3>3, <3>4
  <2>2. CASE lastIndex' # data[1]
    <3>1. data' = data
      BY <1>1, <2>2
    <3>2. Ahead[data[1]] >= 2
      <4>1. Ahead[data[1]] \in 1..MaxAhead /\ Ahead[data[1]] # 1
        BY <1>3, <1>5, <1>7, <2>2
      <4>2. QED
        BY <1>4, <4>1
    <3>3. ASSUME NEW i \in 1..Len(data) PROVE Ahead[data[i]] >= 2
      <4>1. CASE i = 1
        BY <3>2, <4>1
      <4>2. CASE i # 1
        <5>1. i \in 2..Len(data)
          BY <4>2
        <5>2. Ahead[data[1]] < Ahead[data[i]] /\ Ahead[data[i]] \in 1..MaxAhead /\ Ahead[data[1]] \in 1..MaxAhead
          BY <1>3, <1>5, <1>6, <5>1
        <5>3. QED
          BY <1>4, <3>2, <5>2
      <4>3. QED
        BY <4>1, <4>2
    <3>4. QED
      BY <1>2, <2>2, <3>1, <3>3
  <2>3. QED
    BY <2>1, <2>2
\* So is everything that comes after the root.
<1>9. ASSUME NEW i \in Ints, Ahead[data[1]] < Ahead[i]
      PROVE  Ahead[i] >= 2
  <2>1. Ahead[data[1]] \in 1..MaxAhead /\ Ahead[i] \in Nat
    BY <1>2, <1>3, <1>5
  <2>2. QED
    BY <1>4, <1>9, <2>1
<1>10. ASSUME NEW i \in Ints, Ahead[i] >= 2
       PROVE  Ahead'[i] = Ahead[i] - 1 /\ Ahead'[i] >= 1
  <2>1. Ahead'[i] = Distance(lastIndex', i) /\ Ahead[i] = Distance(lastIndex, i) /\ Ahead[i] \in Nat
    BY <1>2 DEF Ahead, AheadOf
  <2>2. Distance(lastIndex, i) > 0
    BY <1>10, <2>1
  <2>3. Distance(Wrap(lastIndex + 1), i) = Distance(lastIndex, i) - 1
    BY <1>2, <2>2, DistanceIs
  <2>4. QED
    BY <1>1, <1>10, <2>1, <2>3
<1>11. ASSUME NEW i \in 1..Len(data')
       PROVE  /\ data'[i] \in Ints /\ Ahead[data'[i]] \in 2..MaxAhead /\ Ahead[data'[i]] < Ahead[next]
              /\ Ahead'[data'[i]] = Ahead[data'[i]] - 1
  <2>1. PICK j \in 1..Len(data) : data'[i] = data[j]
    BY <1>8
  <2>2. data[j] \in Ints /\ Ahead[data[j]] \in 1..MaxAhead /\ Ahead[data[j]] < Ahead[next] /\ Ahead[data[j]] >= 2
    BY <1>5, <1>8, <2>1
  <2>3. QED
    BY <1>4, <1>10, <2>1, <2>2
<1>12. Ahead[next] \in 2..(MaxAhead + 1) /\ Ahead'[next] = Ahead[next] - 1
  <2>1. Ahead[next] >= 2
    BY <1>2, <1>3, <1>5, <1>9
  <2>2. QED
    BY <1>2, <1>4, <1>5, <1>10, <2>1
<1>13. ASSUME NEW u \in Putters, Coming(u)'
       PROVE  /\ Coming(u) /\ index'[u] = index[u] /\ index[u] \in Ints
              /\ Ahead[index[u]] \in 2..MaxAhead /\ Ahead[index[u]] < Ahead[next]
              /\ Ahead'[index[u]] = Ahead[index[u]] - 1
              /\ \A i \in 1..Len(data') : Ahead[data'[i]] < Ahead[index[u]]
  <2>1. Coming(u) /\ index'[u] = index[u]
    BY <1>1, <1>2, <1>13 DEF Coming
  <2>2. /\ index[u] \in Ints /\ Ahead[index[u]] \in 1..MaxAhead /\ Ahead[index[u]] < Ahead[next]
        /\ \A i \in 1..Len(data) : Ahead[data[i]] < Ahead[index[u]]
    BY <1>5, <2>1
  <2>3. Ahead[index[u]] >= 2
    BY <1>3, <1>9, <2>2
  <2>4. \A i \in 1..Len(data') : Ahead[data'[i]] < Ahead[index[u]]
    BY <1>8, <2>2
  <2>5. QED
    BY <1>4, <1>10, <2>1, <2>2, <2>3, <2>4
<1>14. HeapOrdered(data', Ahead') /\ AllDiffer(data', Ahead')
  <2>1. ASSUME NEW i \in 2..Len(data') PROVE Ahead'[data'[i \div 2]] <= Ahead'[data'[i]]
    <3>1. i \div 2 \in 1..Len(data') /\ i \in 1..Len(data')
      <4>1. Len(data') \in Nat
        BY <1>8
      <4>2. i \in Nat /\ i \notin {0, 1} /\ i <= Len(data')
        BY <4>1
      <4>3. i \div 2 \in Nat \ {0} /\ i \div 2 < i
        BY <4>2, Halves
      <4>4. QED
        BY <4>1, <4>2, <4>3
    <3>2. Ahead[data'[i \div 2]] <= Ahead[data'[i]]
      BY <1>8 DEF HeapOrdered
    <3>3. QED
      BY <1>4, <1>11, <3>1, <3>2
  <2>2. ASSUME NEW i \in 1..Len(data'), NEW j \in 1..Len(data'), Ahead'[data'[i]] = Ahead'[data'[j]] PROVE i = j
    <3>1. Ahead[data'[i]] = Ahead[data'[j]]
      BY <1>4, <1>11, <2>2
    <3>2. QED
      BY <1>8, <3>1 DEF AllDiffer
  <2>3. QED
    BY <2>1, <2>2 DEF HeapOrdered, AllDiffer
<1>15. AheadInv'
  <2>1. restarts' = 0 /\ lastIndex' = Wrap(relativeZero' + 1)
    BY <1>1 DEF AheadInv
  <2>2. Ahead'[next'] \in 1..MaxAhead /\ Ahead'[next'] \in 1..(MaxAhead + 1) /\ Ahead'[next'] <= MaxAhead
    BY <1>1, <1>4, <1>12
  <2>3. ASSUME NEW i \in 1..Len(data')
        PROVE  Ahead'[data'[i]] \in 1..MaxAhead /\ Ahead'[data'[i]] < Ahead'[next']
    <3>1. /\ Ahead[data'[i]] \in 2..MaxAhead /\ Ahead[data'[i]] < Ahead[next]
          /\ Ahead'[data'[i]] = Ahead[data'[i]] - 1
      BY <1>11
    <3>2. Ahead'[next'] = Ahead[next] - 1 /\ Ahead[next] \in 2..(MaxAhead + 1)
      BY <1>1, <1>12
    <3>3. QED
      BY <1>4, <3>1, <3>2
  <2>4. ASSUME NEW u \in Putters, Coming(u)'
        PROVE  /\ Ahead'[index'[u]] \in 1..MaxAhead /\ Ahead'[index'[u]] < Ahead'[next']
               /\ \A i \in 1..Len(data') : Ahead'[data'[i]] < Ahead'[index'[u]]
    <3>1. /\ index'[u] = index[u] /\ Ahead[index[u]] \in 2..MaxAhead /\ Ahead[index[u]] < Ahead[next]
          /\ Ahead'[index[u]] = Ahead[index[u]] - 1
          /\ \A i \in 1..Len(data') : Ahead[data'[i]] < Ahead[index[u]]
      BY <1>13, <2>4
    <3>2. Ahead'[next'] = Ahead[next] - 1 /\ Ahead[next] \in 2..(MaxAhead + 1)
      BY <1>1, <1>12
    <3>3. Ahead'[index'[u]] \in 1..MaxAhead /\ Ahead'[index'[u]] < Ahead'[next']
      BY <1>4, <3>1, <3>2
    <3>4. ASSUME NEW i \in 1..Len(data') PROVE Ahead'[data'[i]] < Ahead'[index'[u]]
      <4>1. /\ Ahead[data'[i]] \in 2..MaxAhead /\ Ahead'[data'[i]] = Ahead[data'[i]] - 1
            /\ Ahead[data'[i]] < Ahead[index[u]]
        BY <1>11, <3>1
      <4>2. QED
        BY <1>4, <3>1, <4>1
    <3>5. QED
      BY <3>3, <3>4
  <2>5. QED
    BY <1>14, <2>1, <2>2, <2>3, <2>4 DEF AheadInv
<1>16. QED
  BY <1>15

\* Every step of the stream keeps the order.
LEMMA NextAhead ==
    ASSUME OneStream, IInv, StreamIsTyped, AheadInv, [StreamNext]_allVars
    PROVE  AheadInv'
<1>0. /\ \A t : t \in Putters \/ t \in Getters => t \in Threads
      /\ pc \in [Threads -> Labels] /\ index \in [Threads -> Ints]
  BY AheadFacts DEF Threads
<1>1. CASE \E t \in Putters : DeliverLate(t)
  BY <1>1 DEF DeliverLate, OneStream
<1>2. CASE Restart
  BY <1>2 DEF Restart, AheadInv, OneStream
<1>3. CASE (\E t \in Getters : GetCall(t) \/ Get(t)) /\ UNCHANGED streamVars
  <2>1. PICK t \in Getters : GetCall(t) \/ Get(t)
    BY <1>3
  <2>2. CASE GetTake(t)
    BY <1>0, <1>3, <2>2, TakeKeepsAhead
  <2>3. CASE ~GetTake(t)
    <3>1. /\ UNCHANGED <<data, lastIndex, relativeZero, index>>
          /\ \E to \in Labels : /\ pc' = [pc EXCEPT ![t] = to]
                                /\ to \notin {"putSlot", "putLock", "putCheck", "putInsert"}
          /\ ~Coming(t)
      BY <2>1, <2>3 DEF GetCall, Get, GetToken, GetLock, GetWait, GetReset, GetUnlock, Lock, Goto, shared, Labels,
                        Locking, Coming
    <3>2. \A u \in Putters : Coming(u)' <=> Coming(u)
      BY <1>0, <3>1 DEF Coming
    <3>3. QED
      BY <1>3, <3>1, <3>2, QuietKeepsAhead DEF streamVars
  <2>4. QED
    BY <2>2, <2>3
<1>4. CASE (DelayedSet /\ UNCHANGED streamVars) \/ UNCHANGED allVars
  <2>1. UNCHANGED <<data, lastIndex, relativeZero, next, restarts, pc, index>>
    BY <1>4 DEF DelayedSet, streamVars, allVars, vars, shared
  <2>2. QED
    BY <2>1, QuietKeepsAhead DEF Coming
<1>5. QED
  BY <1>1, <1>2, <1>3, <1>4, SenderKeepsAhead, PutKeepsAhead DEF StreamNext

\* A stream that begins is one packet ahead of the reader.
LEMMA InitAhead ==
    ASSUME OneStream, StreamInit
    PROVE  AheadInv
<1>1. data = <<>> /\ relativeZero = 0 /\ lastIndex = 0 /\ next = 1 /\ restarts = 0
      /\ \A t \in Putters : ~Coming(t)
  BY DEF StreamInit, Init, Coming, Threads
<1>2. 0 \in Ints /\ 1 \in Ints /\ Wrap(0 + 1) = 1
  BY MaxIntAssumption, CircleIs DEF Ints
<1>3. Distance(0, 1) = 1
  BY <1>2, DistanceIs
<1>4. Ahead[next] = 1
  BY <1>1, <1>2, <1>3 DEF Ahead, AheadOf
<1>5. QED
  BY <1>1, <1>4, WindowIsSmall DEF AheadInv, HeapOrdered, AllDiffer

\* The order holds in every state of such a stream.
LEMMA AheadInvariance ==
    ASSUME OneStream PROVE StreamSpec => [](IInv /\ StreamIsTyped /\ AheadInv)
<1>1. StreamInit => IInv /\ StreamIsTyped /\ AheadInv
  BY StreamInitIsTyped, InitIInv, InitAhead
<1>2. IInv /\ StreamIsTyped /\ AheadInv /\ [StreamNext]_allVars => (IInv /\ StreamIsTyped /\ AheadInv)'
  BY StreamStep, NextIInv, NextAhead
<1>3. QED
  BY <1>1, <1>2, PTL DEF StreamSpec

\* Everything in the buffer is still to come, for any capacity and any width of the
\* index, wherever it wraps around: no packet stays behind and is played for ever.
THEOREM NoneIsLeftBehind ==
    ASSUME OneStream PROVE StreamSpec => []ElementsAreAhead
<1>1. IInv /\ StreamIsTyped /\ AheadInv => ElementsAreAhead
  <2> SUFFICES ASSUME IInv, StreamIsTyped, AheadInv, NEW k \in 1..Len(data)
               PROVE  Distance(lastIndex, data[k]) \in 1..Capacity
    BY DEF ElementsAreAhead, Elements
  <2>1. data[k] \in Window(lastIndex)
    BY AheadFacts
  <2>2. QED
    BY <2>1 DEF Window
<1>2. QED
  BY <1>1, AheadInvariance, PTL

-----------------------------------------------------------------------------
(***************************************************************************)
(* The loops: heapify and trickleDown, as the code has them, end and       *)
(* compute what Insert and Remove say without a loop.                      *)
(***************************************************************************)
\* A swap of two elements leaves the others.
LEMMA SwapIs ==
    ASSUME NEW V, NEW h \in Seq(V), NEW i \in 1..Len(h), NEW j \in 1..Len(h), i # j
    PROVE  /\ Swap(h, i, j) \in Seq(V) /\ Len(Swap(h, i, j)) = Len(h)
           /\ Swap(h, i, j)[i] = h[j] /\ Swap(h, i, j)[j] = h[i]
           /\ \A k \in 1..Len(h) : k \notin {i, j} => Swap(h, i, j)[k] = h[k]
<1>1. Swap(h, i, j) \in [1..Len(h) -> V] /\ Len(h) \in Nat
  BY DEF Swap
<1>2. Swap(h, i, j) \in Seq(V) /\ Len(Swap(h, i, j)) = Len(h)
  BY <1>1
<1>3. QED
  BY <1>2 DEF Swap

\* What heapify does to an array from the element c on: the elements that the one at c
\* comes before move down its way, as in Insert.
Overtakes(z, h, c, a) == /\ c \in 1..Len(h) /\ a \in Upwards[c] \ {c}
                      /\ \A b \in Upwards[c] : b \in a..(c - 1) => Before(h[c], h[b], z)
Sifted(z, h, c) == [i \in 1..Len(h) |-> IF i \in Upwards[c] /\ Overtakes(z, h, c, i \div 2) THEN h[i \div 2]
                                     ELSE IF i = c \/ Overtakes(z, h, c, i) THEN h[c] ELSE h[i]]

\* One swap of heapify, and then what it does from the parent on.
LEMMA SiftedGoesOn ==
    ASSUME NEW z, NEW h \in Seq(Ints), NEW c \in Nat
    PROVE  Sifted(z, h, c) = IF c \in 2..Len(h) /\ Before(h[c], h[c \div 2], z)
                          THEN Sifted(z, Swap(h, c, c \div 2), c \div 2)
                          ELSE h
<1> DEFINE n == Len(h)
           p == c \div 2
<1>1. n \in Nat /\ h = [i \in 1..n |-> h[i]]
  OBVIOUS
<1>2. c # 0 => c \in Upwards[c] /\ Upwards[c] = {c} \cup Upwards[p] /\ Upwards[c] \subseteq 1..c
  BY UpwardsGoesOn
<1>3. CASE ~(c \in 2..n /\ Before(h[c], h[p], z))
  <2>1. ASSUME NEW a, Overtakes(z, h, c, a) PROVE FALSE
    <3>1. c \in Nat \ {0} /\ a \in Upwards[c] /\ a # c /\ c \in 1..n
      BY <2>1 DEF Overtakes
    <3>2. a \in 1..c
      BY <1>2, <3>1
    <3>3. c # 1 /\ a \in Upwards[p] /\ p \in Nat \ {0} /\ p < c
      BY <1>2, <3>1, <3>2, Halves
    <3>4. a \in 1..p /\ p \in Upwards[p] /\ p \in Upwards[c]
      BY <1>2, <3>1, <3>3, UpwardsGoesOn
    <3>5. p \in a..(c - 1)
      BY <3>1, <3>3, <3>4
    <3>6. Before(h[c], h[p], z)
      BY <2>1, <3>4, <3>5 DEF Overtakes
    <3>7. c \in 2..n
      BY <1>1, <3>1, <3>3
    <3>8. QED
      BY <1>3, <3>6, <3>7
  <2>2. \A i \in 1..n : Sifted(z, h, c)[i] = h[i]
    BY <2>1 DEF Sifted
  <2>3. QED
    BY <1>1, <1>3, <2>2 DEF Sifted
<1>4. CASE c \in 2..n /\ Before(h[c], h[p], z)
  <2> DEFINE g == Swap(h, c, p)
  <2>1. c \in Nat \ {0} /\ c # 1 /\ p \in Nat \ {0} /\ p < c /\ p # c /\ c \in 1..n /\ p \in 1..n
    <3>1. c \in Nat \ {0} /\ c # 1 /\ c <= n
      BY <1>1, <1>4
    <3>2. QED
      BY <1>1, <3>1, Halves
  <2>2. /\ Len(g) = n /\ g[c] = h[p] /\ g[p] = h[c]
        /\ \A k \in 1..n : k \notin {c, p} => g[k] = h[k]
    <3> HIDE DEF p
    <3>1. c \in 1..Len(h) /\ p \in 1..Len(h) /\ c # p
      BY <2>1
    <3>2. QED
      BY <3>1, SwapIs
  <2>3. /\ p \in Upwards[p] /\ Upwards[p] \subseteq 1..p /\ Upwards[c] = {c} \cup Upwards[p]
    BY <1>2, <2>1, UpwardsGoesOn
  <2> HIDE DEF p, g, n
  <2>4. ASSUME NEW a PROVE Overtakes(z, h, c, a) <=> a = p \/ Overtakes(z, g, p, a)
    <3>1. \A b \in Upwards[p] : b \in 1..n /\ b <= p /\ (b # p => g[b] = h[b])
      BY <1>1, <2>1, <2>2, <2>3
    <3>2. Overtakes(z, h, c, a) <=> /\ a \in Upwards[p]
                                 /\ \A b \in Upwards[p] : b \in a..(c - 1) => Before(h[c], h[b], z)
      <4>1. c \notin Upwards[p]
        BY <2>1, <2>3
      <4>2. c \notin a..(c - 1)
        OBVIOUS
      <4>3. QED
        BY <2>1, <2>3, <4>1, <4>2 DEF Overtakes, n
    <3>3. Overtakes(z, g, p, a) <=> /\ a \in Upwards[p] /\ a # p
                                 /\ \A b \in Upwards[p] : b \in a..(p - 1) => Before(h[c], h[b], z)
      BY <2>1, <2>2, <3>1 DEF Overtakes
    <3>4. ASSUME a \in Upwards[p]
          PROVE  \A b \in Upwards[p] : b \in a..(c - 1) <=> b = p \/ b \in a..(p - 1)
      BY <2>1, <2>3, <3>4
    <3>5. Before(h[c], h[p], z)
      BY <1>4
    <3>6. QED
      BY <2>3, <3>2, <3>3, <3>4, <3>5
  <2>5. ASSUME NEW i \in 1..n PROVE Sifted(z, h, c)[i] = Sifted(z, g, p)[i]
    <3>1. i \div 2 # i /\ (i = c => i \div 2 = p) /\ i \div 2 < i
      <4>1. i \in Nat \ {0}
        BY <1>1
      <4>2. i \div 2 \in Nat /\ i \div 2 < i
        BY <4>1, HalfIs
      <4>3. QED
        BY <4>1, <4>2 DEF p
    <3>2. Sifted(z, h, c)[i] = IF i \in Upwards[c] /\ Overtakes(z, h, c, i \div 2) THEN h[i \div 2]
                            ELSE IF i = c \/ Overtakes(z, h, c, i) THEN h[c] ELSE h[i]
      BY DEF Sifted, n
    <3>3. Sifted(z, g, p)[i] = IF i \in Upwards[p] /\ Overtakes(z, g, p, i \div 2) THEN g[i \div 2]
                            ELSE IF i = p \/ Overtakes(z, g, p, i) THEN g[p] ELSE g[i]
      BY <2>2 DEF Sifted
    <3>4. \A a : Overtakes(z, g, p, a) => a \in Upwards[p] /\ a # p /\ a # c /\ a \in 1..n
      BY <1>1, <2>1, <2>3 DEF Overtakes
    <3>5. CASE i = c
      <4>1. c \notin Upwards[p] /\ c # p
        BY <2>1, <2>3
      <4>2. Sifted(z, h, c)[i] = h[p]
        BY <2>3, <2>4, <3>1, <3>2, <3>5
      <4>3. QED
        BY <2>2, <3>3, <3>4, <3>5, <4>1, <4>2
    <3>6. CASE i # c
      <4>1. (i \in Upwards[c] <=> i \in Upwards[p]) /\ (i \in Upwards[p] => i \div 2 # p)
        BY <1>1, <2>1, <2>3, <3>1, <3>6
      <4>2. i \in Upwards[p] => (Overtakes(z, h, c, i \div 2) <=> Overtakes(z, g, p, i \div 2))
        BY <2>4, <4>1
      <4>3. Overtakes(z, g, p, i \div 2) => g[i \div 2] = h[i \div 2]
        BY <2>2, <3>4
      <4>4. QED
        BY <2>2, <2>4, <3>2, <3>3, <3>6, <4>1, <4>2, <4>3
    <3>7. QED
      BY <3>5, <3>6
  <2>6. Sifted(z, h, c) = Sifted(z, g, p)
    BY <2>2, <2>5 DEF Sifted, n
  <2>7. QED
    BY <1>4, <2>6 DEF g, p, n
<1>5. QED
  BY <1>3, <1>4

\* So heapify moves the element at c up its way: the loop has a result, and that one.
LEMMA HeapifyIs ==
    \A c \in Nat : \A h \in Seq(Ints) : Heapify[c][h] = Sifted(relativeZero, h, c)
<1> DEFINE step(f, c, h) == IF c \in 2..Len(h) /\ Before(h[c], h[c \div 2], relativeZero)
                            THEN f[c \div 2][Swap(h, c, c \div 2)]
                            ELSE h
           loop(f) == [c \in Nat |-> [h \in Seq(Ints) |-> step(f, c, h)]]
           sift == [c \in Nat |-> [h \in Seq(Ints) |-> Sifted(relativeZero, h, c)]]
<1>1. Heapify = CHOOSE f : f = loop(f)
  BY DEF Heapify
<1>2. ASSUME NEW h \in Seq(Ints), NEW c \in Nat, c \in 2..Len(h)
      PROVE  Swap(h, c, c \div 2) \in Seq(Ints) /\ c \div 2 \in Nat /\ c \div 2 < c
  <2>1. c \notin {0, 1}
    BY <1>2
  <2>2. c \div 2 \in 1..Len(h) /\ c \in 1..Len(h) /\ c \div 2 # c /\ c \div 2 \in Nat /\ c \div 2 < c
    BY <1>2, <2>1, Halves
  <2>3. QED
    BY <2>2, SwapIs
<1>3. \E f : f = loop(f)
  <2>1. ASSUME NEW c \in Nat, NEW h \in Seq(Ints) PROVE Sifted(relativeZero, h, c) = step(sift, c, h)
    BY <1>2, SiftedGoesOn
  <2> HIDE DEF step
  <2>2. sift = loop(sift)
    BY <2>1
  <2>3. QED
    BY <2>2
<1>4. Heapify = loop(Heapify)
  BY <1>1, <1>3
<1> HIDE DEF step
<1>5. ASSUME NEW c \in Nat, NEW h \in Seq(Ints) PROVE Heapify[c][h] = step(Heapify, c, h)
  <2>1. loop(Heapify)[c][h] = step(Heapify, c, h)
    OBVIOUS
  <2>2. QED
    BY <1>4, <2>1
<1> HIDE DEF loop
<1> DEFINE right(c) == \A h \in Seq(Ints) : Heapify[c][h] = Sifted(relativeZero, h, c)
           T == {c \in Nat : ~right(c)}
<1>6. T = {}
  <2> SUFFICES ASSUME T # {} PROVE FALSE
    OBVIOUS
  <2> HIDE DEF right
  <2>1. PICK c \in T : \A d \in T : c <= d
    <3>1. T \subseteq Nat
      OBVIOUS
    <3>2. QED
      BY <3>1, Least
  <2>2. \A d \in Nat : d < c => right(d)
    BY <2>1
  <2>3. ASSUME NEW h \in Seq(Ints) PROVE Heapify[c][h] = Sifted(relativeZero, h, c)
    <3>1. CASE c \in 2..Len(h) /\ Before(h[c], h[c \div 2], relativeZero)
      <4>1. Heapify[c][h] = Heapify[c \div 2][Swap(h, c, c \div 2)]
        BY <1>5, <3>1 DEF step
      <4>2. Swap(h, c, c \div 2) \in Seq(Ints) /\ right(c \div 2)
        BY <1>2, <2>2, <3>1
      <4>3. QED
        BY <3>1, <4>1, <4>2, SiftedGoesOn DEF right
    <3>2. CASE ~(c \in 2..Len(h) /\ Before(h[c], h[c \div 2], relativeZero))
      <4>1. Heapify[c][h] = h
        BY <1>5, <3>2 DEF step
      <4>2. Sifted(relativeZero, h, c) = h
        BY <3>2, SiftedGoesOn
      <4>3. QED
        BY <4>1, <4>2
    <3>3. QED
      BY <3>1, <3>2
  <2>4. QED
    BY <2>1, <2>3 DEF right
<1>7. QED
  BY <1>6

\* Insert is heapify after the append.
LEMMA InsertIsSifted ==
    ASSUME NEW z, NEW heap \in Seq(Ints), NEW x \in Ints
    PROVE  Insert(heap, x, z) = Sifted(z, Append(heap, x), Len(heap) + 1)
<1> DEFINE n == Len(heap) + 1
           h == Append(heap, x)
           Overtaken(a) == /\ a \in Upwards[n] \ {n}
                           /\ \A b \in Upwards[n] : b \in a..(n - 1) => Before(x, heap[b], z)
<1>1. n \in Nat \ {0} /\ h \in Seq(Ints) /\ Len(h) = n /\ h[n] = x /\ \A b \in 1..(n - 1) : h[b] = heap[b]
  OBVIOUS
<1>2. Insert(heap, x, z) = [i \in 1..n |-> IF i \in Upwards[n] /\ Overtaken(i \div 2) THEN heap[i \div 2]
                                                      ELSE IF i = n \/ Overtaken(i) THEN x ELSE heap[i]]
  BY DEF Insert
<1> HIDE DEF n, h
<1>4. Upwards[n] \subseteq 1..n
  BY <1>1, UpwardsGoesOn
<1>5. ASSUME NEW a PROVE Overtaken(a) <=> Overtakes(z, h, n, a)
  <2>1. \A b \in Upwards[n] : b \in a..(n - 1) => h[b] = heap[b]
    BY <1>1, <1>4
  <2>2. n \in 1..n
    BY <1>1
  <2>3. QED
    BY <1>1, <2>1, <2>2 DEF Overtakes
<1>6. \A a : Overtaken(a) => a \in 1..(n - 1)
  BY <1>1, <1>4
<1> HIDE DEF Overtaken
<1>7. \A i \in 1..n : i # n => h[i] = heap[i]
  BY <1>1
<1>8. Sifted(z, h, n) = [i \in 1..n |-> IF i \in Upwards[n] /\ Overtaken(i \div 2) THEN heap[i \div 2]
                                     ELSE IF i = n \/ Overtaken(i) THEN x ELSE heap[i]]
  BY <1>1, <1>5, <1>6, <1>7 DEF Sifted
<1>9. QED
  BY <1>2, <1>8 DEF n, h

\* What trickleDown does to an array from the element c on: the children that come
\* before it, and first among their two, move up, as in Remove.
First(z, h, i) == IF i = 2 * (i \div 2) THEN i = Len(h) \/ Before(h[i], h[i + 1], z)
               ELSE ~Before(h[i - 1], h[i], z)
Yields(z, h, c, i) == /\ i \in 2..Len(h) /\ c \in Upwards[i] \ {i}
                   /\ \A a \in Upwards[i] : a > c => First(z, h, a) /\ Before(h[a], h[c], z)
Trickled(z, h, c) == [i \in 1..Len(h) |-> IF Yields(z, h, c, 2 * i) THEN h[2 * i]
                                       ELSE IF Yields(z, h, c, 2 * i + 1) THEN h[2 * i + 1]
                                       ELSE IF i = c \/ Yields(z, h, c, i) THEN h[c] ELSE h[i]]

\* The child that trickleDown compares with its parent c.
ChildOf(z, h, c) == IF 2 * c + 1 > Len(h) \/ Before(h[2 * c], h[2 * c + 1], z) THEN 2 * c ELSE 2 * c + 1

\* It is the one of the two that is first.
LEMMA FirstIsChild ==
    ASSUME NEW z, NEW h \in Seq(Ints), NEW c \in Nat \ {0}
    PROVE  /\ ChildOf(z, h, c) \in Nat \ {0} /\ ChildOf(z, h, c) > c /\ ChildOf(z, h, c) \div 2 = c
           /\ \A d \in 2..Len(h) : d \div 2 = c => (First(z, h, d) <=> d = ChildOf(z, h, c))
           /\ 2 * c <= Len(h) => ChildOf(z, h, c) <= Len(h)
<1> DEFINE n == Len(h)
<1>1. n \in Nat
  OBVIOUS
<1>2. (2 * c) \div 2 = c /\ (2 * c + 1) \div 2 = c
  BY HalfIs
<1>3. ASSUME NEW d \in 2..n, d \div 2 = c PROVE First(z, h, d) <=> d = ChildOf(z, h, c)
  <2>1. d = 2 * c \/ d = 2 * c + 1
    BY <1>1, <1>3, HalfIs
  <2>2. CASE d = 2 * c
    <3>1. First(z, h, d) <=> d = n \/ Before(h[d], h[d + 1], z)
      BY <1>2, <2>2 DEF First
    <3>2. d = n <=> 2 * c + 1 > n
      BY <1>1, <2>2
    <3>3. 2 * c # 2 * c + 1
      OBVIOUS
    <3>4. QED
      BY <2>2, <3>1, <3>2, <3>3 DEF ChildOf
  <2>3. CASE d = 2 * c + 1
    <3>1. d # 2 * c /\ d - 1 = 2 * c /\ ~(2 * c + 1 > n)
      BY <1>1, <2>3
    <3>2. First(z, h, d) <=> ~Before(h[2 * c], h[2 * c + 1], z)
      BY <1>2, <2>3, <3>1 DEF First
    <3>3. QED
      BY <2>3, <3>1, <3>2 DEF ChildOf
  <2>4. QED
    BY <2>1, <2>2, <2>3
<1>4. QED
  BY <1>1, <1>2, <1>3 DEF ChildOf

\* One swap of trickleDown, and then what it does from the child on.
LEMMA TrickledGoesOn ==
    ASSUME NEW z, NEW h \in Seq(Ints), NEW c \in Nat \ {0}
    PROVE  Trickled(z, h, c) = IF 2 * c <= Len(h) /\ Before(h[ChildOf(z, h, c)], h[c], z)
                            THEN Trickled(z, Swap(h, ChildOf(z, h, c), c), ChildOf(z, h, c))
                            ELSE h
<1>1. PICK n \in Nat : n = Len(h)
  OBVIOUS
<1>2. PICK k \in Nat \ {0} : k = ChildOf(z, h, c)
  BY FirstIsChild
<1>3. /\ k > c /\ k \div 2 = c
      /\ \A d \in 2..n : d \div 2 = c => (First(z, h, d) <=> d = k)
      /\ 2 * c <= n => k <= n
  BY <1>1, <1>2, FirstIsChild
<1>4. c \in Upwards[k] /\ Upwards[k] = {k} \cup Upwards[c] /\ Upwards[c] \subseteq 1..c /\ c \in Upwards[c]
  BY <1>3, UpwardsGoesOn
\* An element that c yields to is above the child, or it is the child.
<1>5. ASSUME NEW i, Yields(z, h, c, i)
      PROVE  2 * c <= n /\ Before(h[k], h[c], z) /\ k \in Upwards[i]
  <2>1. i \in Nat \ {0} /\ i \in 1..n /\ c \in Upwards[i] /\ c # i
    BY <1>1, <1>5 DEF Yields
  <2>2. PICK d \in Upwards[i] : d # 1 /\ d \div 2 = c
    BY <2>1, UpwardsIsAPath
  <2>3. d \in 1..i
    BY <2>1, UpwardsGoesOn
  <2>4. d \in 2..n /\ d > c
    <3>1. d \in Nat \ {0}
      BY <2>3
    <3>2. d \div 2 < d
      BY <3>1, HalfIs
    <3>3. QED
      BY <2>1, <2>2, <2>3, <3>1, <3>2
  <2>5. First(z, h, d) /\ Before(h[d], h[c], z)
    BY <1>5, <2>2, <2>4 DEF Yields
  <2>6. d = k
    BY <1>3, <2>2, <2>4, <2>5
  <2>7. 2 * c <= n
    BY <2>2, <2>4, HalfIs
  <2>8. QED
    BY <2>2, <2>5, <2>6, <2>7
<1>6. CASE ~(2 * c <= n /\ Before(h[k], h[c], z))
  <2>1. \A i : ~Yields(z, h, c, i)
    BY <1>5, <1>6
  <2>2. \A i \in 1..n : Trickled(z, h, c)[i] = h[i]
    BY <1>1, <2>1 DEF Trickled
  <2>3. h = [i \in 1..n |-> h[i]]
    BY <1>1
  <2>4. Trickled(z, h, c) = h
    BY <1>1, <2>2, <2>3 DEF Trickled
  <2>5. QED
    BY <1>1, <1>2, <1>6, <2>4
<1>7. CASE 2 * c <= n /\ Before(h[k], h[c], z)
  <2>1. PICK g : g = Swap(h, k, c)
    OBVIOUS
  <2>2. k \in 1..n /\ c \in 1..n /\ k # c /\ k \in 2..n
    BY <1>3, <1>7
  <2>3. /\ Len(g) = n /\ g[k] = h[c] /\ g[c] = h[k]
        /\ \A j \in 1..n : j \notin {k, c} => g[j] = h[j]
    <3>1. k \in 1..Len(h) /\ c \in 1..Len(h) /\ k # c
      BY <1>1, <2>2
    <3>2. /\ Len(Swap(h, k, c)) = Len(h)
          /\ Swap(h, k, c)[k] = h[c] /\ Swap(h, k, c)[c] = h[k]
          /\ \A j \in 1..Len(h) : j \notin {k, c} => Swap(h, k, c)[j] = h[j]
      BY <3>1, SwapIs
    <3>3. QED
      BY <1>1, <2>1, <3>2
  <2>4. First(z, h, k)
    BY <1>3, <2>2
  \* Above the child nothing has changed.
  <2>5. ASSUME NEW i \in 2..n, k \in Upwards[i], NEW a \in Upwards[i], a > k
        PROVE  (First(z, g, a) <=> First(z, h, a)) /\ g[a] = h[a]
    <3>1. i \in Nat \ {0} /\ a \in 1..i
      BY <2>5, UpwardsGoesOn
    <3>2. k <= a \div 2
      BY <2>5, <3>1, UpwardsIsAPath
    <3>3. a \in Nat \ {0} /\ a \in 1..n /\ a \div 2 \in Nat
      BY <3>1, HalfIs
    <3>4. a = 2 * (a \div 2) \/ a = 2 * (a \div 2) + 1
      BY <3>3, HalfIs
    <3>5. a >= 2 * k /\ 2 * k > k + 1 /\ k + 1 > c
      <4>1. k >= 2
        BY <2>2
      <4>2. QED
        BY <1>3, <3>2, <3>3, <3>4, <4>1
    <3>6. a \notin {k, c} /\ g[a] = h[a]
      BY <2>3, <3>3, <3>5
    <3>7. a # n => g[a + 1] = h[a + 1]
      BY <2>3, <3>3, <3>5
    <3>8. g[a - 1] = h[a - 1]
      BY <2>3, <3>3, <3>5
    <3>9. QED
      BY <1>1, <2>3, <3>6, <3>7, <3>8 DEF First
  <2>6. ASSUME NEW i PROVE Yields(z, h, c, i) <=> i = k \/ Yields(z, g, k, i)
    <3>1. ASSUME Yields(z, h, c, i), i # k PROVE Yields(z, g, k, i)
      <4>1. k \in Upwards[i] /\ i \in 2..n
        BY <1>1, <1>5, <3>1 DEF Yields
      <4>2. ASSUME NEW a \in Upwards[i], a > k PROVE First(z, g, a) /\ Before(g[a], g[k], z)
        <5>1. a \in 1..i
          BY <4>1, UpwardsGoesOn
        <5>2. a > c
          BY <1>3, <4>2, <5>1
        <5>3. First(z, h, a) /\ Before(h[a], h[c], z)
          BY <3>1, <5>2 DEF Yields
        <5>4. QED
          BY <2>3, <2>5, <4>1, <4>2, <5>3
      <4>3. QED
        BY <2>3, <3>1, <4>1, <4>2 DEF Yields
    <3>2. ASSUME i = k PROVE Yields(z, h, c, i)
      <4>1. \A a \in Upwards[k] : a > c => a = k
        BY <1>4
      <4>2. QED
        BY <1>1, <1>4, <1>7, <2>2, <2>4, <3>2, <4>1 DEF Yields
    <3>3. ASSUME Yields(z, g, k, i) PROVE Yields(z, h, c, i)
      <4>1. i \in 2..n /\ k \in Upwards[i] /\ i # k
        BY <2>3, <3>3 DEF Yields
      <4>2. i \in Nat \ {0} /\ Upwards[i] \subseteq 1..i
        BY <4>1, UpwardsGoesOn
      <4>3. c \in Upwards[i] /\ \A b \in Upwards[i] : b < k => b <= c
        BY <1>3, <1>4, <4>1, <4>2, UpwardsIsAPath
      <4>4. ASSUME NEW a \in Upwards[i], a > c PROVE First(z, h, a) /\ Before(h[a], h[c], z)
        <5>1. a \in Nat /\ (a = k \/ a > k)
          BY <4>2, <4>3, <4>4
        <5>2. CASE a = k
          BY <1>7, <2>4, <5>2
        <5>3. CASE a > k
          <6>1. First(z, g, a) /\ Before(g[a], g[k], z)
            BY <3>3, <5>3 DEF Yields
          <6>2. QED
            BY <2>3, <2>5, <4>1, <5>3, <6>1
        <5>4. QED
          BY <5>1, <5>2, <5>3
      <4>5. c # i
        BY <1>3, <4>1, <4>2
      <4>6. QED
        BY <1>1, <4>1, <4>3, <4>4, <4>5 DEF Yields
    <3>4. QED
      BY <3>1, <3>2, <3>3
  <2>7. \A i : Yields(z, g, k, i) => i \in 1..n /\ i > k
    <3>1. ASSUME NEW i, Yields(z, g, k, i) PROVE i \in 1..n /\ i > k
      <4>1. i \in 2..n /\ k \in Upwards[i] /\ i # k
        BY <2>3, <3>1 DEF Yields
      <4>2. k \in 1..i
        BY <4>1, UpwardsGoesOn
      <4>3. QED
        BY <4>1, <4>2
    <3>2. QED
      BY <3>1
  <2>8. ASSUME NEW i \in 1..n PROVE Trickled(z, h, c)[i] = Trickled(z, g, k)[i]
    <3>1. Trickled(z, h, c)[i] = IF Yields(z, h, c, 2 * i) THEN h[2 * i]
                              ELSE IF Yields(z, h, c, 2 * i + 1) THEN h[2 * i + 1]
                              ELSE IF i = c \/ Yields(z, h, c, i) THEN h[c] ELSE h[i]
      BY <1>1 DEF Trickled
    <3>2. Trickled(z, g, k)[i] = IF Yields(z, g, k, 2 * i) THEN g[2 * i]
                              ELSE IF Yields(z, g, k, 2 * i + 1) THEN g[2 * i + 1]
                              ELSE IF i = k \/ Yields(z, g, k, i) THEN g[k] ELSE g[i]
      BY <2>3 DEF Trickled
    <3>3. \A j : Yields(z, g, k, j) => g[j] = h[j] /\ j # c
      BY <1>3, <2>3, <2>7
    <3>4. k = 2 * c \/ k = 2 * c + 1
      BY <1>3, HalfIs
    <3>5. CASE i = c
      <4>1. ~Yields(z, g, k, c) /\ c # k
        BY <1>3, <2>7
      <4>2. ~Yields(z, g, k, 2 * c)
        BY <2>7, <3>4
      <4>3. ~Yields(z, g, k, 2 * c + 1)
        <5>1. ASSUME Yields(z, g, k, 2 * c + 1) PROVE FALSE
          <6>1. PICK m \in Nat \ {0} : m = 2 * c + 1 /\ m \div 2 = c
            BY HalfIs
          <6>2. k \in Upwards[m] /\ k # m
            BY <5>1, <6>1 DEF Yields
          <6>3. Upwards[m] = {m} \cup Upwards[c]
            BY <6>1, UpwardsGoesOn
          <6>4. QED
            BY <1>3, <1>4, <6>2, <6>3
        <5>2. QED
          BY <5>1
      <4>4. Trickled(z, g, k)[i] = h[k]
        BY <2>3, <3>2, <3>5, <4>1, <4>2, <4>3
      <4>5. Trickled(z, h, c)[i] = h[k]
        <5>1. 2 * c # 2 * c + 1
          OBVIOUS
        <5>2. Yields(z, h, c, 2 * c) <=> 2 * c = k
          BY <2>6, <4>2
        <5>3. Yields(z, h, c, 2 * c + 1) <=> 2 * c + 1 = k
          BY <2>6, <4>3
        <5>4. QED
          BY <3>1, <3>4, <3>5, <5>1, <5>2, <5>3
      <4>6. QED
        BY <4>4, <4>5
    <3>6. CASE i # c
      <4>1. 2 * i # k /\ 2 * i + 1 # k
        <5>1. (2 * i) \div 2 = i /\ (2 * i + 1) \div 2 = i
          BY HalfIs
        <5>2. QED
          BY <1>3, <3>6, <5>1
      <4>2. /\ Yields(z, h, c, 2 * i) <=> Yields(z, g, k, 2 * i)
            /\ Yields(z, h, c, 2 * i + 1) <=> Yields(z, g, k, 2 * i + 1)
            /\ Yields(z, h, c, i) <=> i = k \/ Yields(z, g, k, i)
        BY <2>6, <4>1
      <4>3. i # k => g[i] = h[i]
        BY <2>3, <3>6
      <4>4. QED
        BY <2>3, <3>1, <3>2, <3>3, <3>6, <4>2, <4>3
    <3>7. QED
      BY <3>5, <3>6
  <2>9. Trickled(z, h, c) = Trickled(z, g, k)
    BY <1>1, <2>3, <2>8 DEF Trickled
  <2>10. QED
    BY <1>1, <1>2, <1>7, <2>1, <2>9
<1>8. QED
  BY <1>1, <1>2, <1>6, <1>7

\* So trickleDown moves the children of c up: the loop has a result, and that one.
LEMMA TrickleDownIs ==
    \A c \in Nat \ {0} : \A h \in Seq(Ints) : TrickleDown[c][h] = Trickled(relativeZero, h, c)
<1> DEFINE goesOn(c, h) == 2 * c <= Len(h) /\ Before(h[ChildOf(relativeZero, h, c)], h[c], relativeZero)
           step(f, c, h) == IF goesOn(c, h) THEN f[ChildOf(relativeZero, h, c)][Swap(h, ChildOf(relativeZero, h, c), c)] ELSE h
           loop(f) == [c \in Nat \ {0} |-> [h \in Seq(Ints) |-> step(f, c, h)]]
           trickle == [c \in Nat \ {0} |-> [h \in Seq(Ints) |-> Trickled(relativeZero, h, c)]]
<1>1. TrickleDown = CHOOSE f : f = loop(f)
  BY DEF TrickleDown, ChildOf
<1>2. ASSUME NEW h \in Seq(Ints), NEW c \in Nat \ {0}, goesOn(c, h)
      PROVE  /\ Swap(h, ChildOf(relativeZero, h, c), c) \in Seq(Ints) /\ Len(Swap(h, ChildOf(relativeZero, h, c), c)) = Len(h)
             /\ ChildOf(relativeZero, h, c) \in Nat \ {0} /\ ChildOf(relativeZero, h, c) > c /\ ChildOf(relativeZero, h, c) <= Len(h)
  <2>1. PICK k \in Nat \ {0} : k = ChildOf(relativeZero, h, c)
    BY FirstIsChild
  <2>2. k > c /\ k <= Len(h) /\ Len(h) \in Nat
    <3>1. ChildOf(relativeZero, h, c) > c /\ (2 * c <= Len(h) => ChildOf(relativeZero, h, c) <= Len(h))
      BY FirstIsChild
    <3>2. QED
      BY <1>2, <2>1, <3>1
  <2>3. k \in 1..Len(h) /\ c \in 1..Len(h) /\ k # c
    BY <2>2
  <2>4. QED
    BY <2>1, <2>2, <2>3, SwapIs
<1>3. \E f : f = loop(f)
  <2>1. ASSUME NEW c \in Nat \ {0}, NEW h \in Seq(Ints) PROVE Trickled(relativeZero, h, c) = step(trickle, c, h)
    BY <1>2, TrickledGoesOn
  <2> HIDE DEF step
  <2>2. trickle = loop(trickle)
    BY <2>1
  <2>3. QED
    BY <2>2
<1>4. TrickleDown = loop(TrickleDown)
  BY <1>1, <1>3
<1> HIDE DEF step
<1>5. ASSUME NEW c \in Nat \ {0}, NEW h \in Seq(Ints) PROVE TrickleDown[c][h] = step(TrickleDown, c, h)
  <2>1. loop(TrickleDown)[c][h] = step(TrickleDown, c, h)
    OBVIOUS
  <2>2. QED
    BY <1>4, <2>1
<1> HIDE DEF loop, goesOn
\* The element sinks, so that what is left of the way below it gets shorter.
<1> DEFINE wrong(c, h) == TrickleDown[c][h] # Trickled(relativeZero, h, c)
           left(c, h) == IF c > Len(h) THEN 0 ELSE Len(h) + 1 - c
           T == {m \in Nat : \E c \in Nat \ {0} : \E h \in Seq(Ints) : wrong(c, h) /\ m = left(c, h)}
<1>6. \A c \in Nat \ {0} : \A h \in Seq(Ints) : left(c, h) \in Nat
  OBVIOUS
<1>7. T = {}
  <2> SUFFICES ASSUME T # {} PROVE FALSE
    OBVIOUS
  <2> HIDE DEF wrong, left
  <2>1. PICK m \in T : \A y \in T : m <= y
    <3>1. T \subseteq Nat
      OBVIOUS
    <3>2. QED
      BY <3>1, Least
  <2>2. PICK c \in Nat \ {0}, h \in Seq(Ints) : wrong(c, h) /\ m = left(c, h)
    BY <2>1
  <2>3. CASE goesOn(c, h)
    <3>1. PICK k : k = ChildOf(relativeZero, h, c)
      OBVIOUS
    <3>2. PICK g : g = Swap(h, k, c)
      OBVIOUS
    <3>3. g \in Seq(Ints) /\ Len(g) = Len(h) /\ k \in Nat \ {0} /\ k > c /\ k <= Len(h) /\ Len(h) \in Nat
      BY <1>2, <2>3, <3>1, <3>2
    <3>4. TrickleDown[c][h] = TrickleDown[k][g]
      BY <1>5, <2>3, <3>1, <3>2 DEF step
    <3>5. Trickled(relativeZero, h, c) = Trickled(relativeZero, g, k)
      BY <2>3, <3>1, <3>2, TrickledGoesOn DEF goesOn
    <3>6. wrong(k, g)
      BY <2>2, <3>4, <3>5 DEF wrong
    <3>7. left(k, g) \in Nat /\ left(k, g) < left(c, h)
      BY <3>3 DEF left
    <3>8. left(k, g) \in T
      BY <3>3, <3>6, <3>7
    <3>9. m <= left(k, g) /\ m \in Nat
      BY <2>1, <3>8
    <3>10. QED
      BY <2>2, <3>7, <3>9
  <2>4. CASE ~goesOn(c, h)
    <3>1. TrickleDown[c][h] = h
      BY <1>5, <2>4 DEF step
    <3>2. Trickled(relativeZero, h, c) = h
      BY <2>4, TrickledGoesOn DEF goesOn
    <3>3. QED
      BY <2>2, <3>1, <3>2 DEF wrong
  <2>5. QED
    BY <2>3, <2>4
<1>8. QED
  <2> HIDE DEF left
  <2>1. \A c \in Nat \ {0} : \A h \in Seq(Ints) : ~wrong(c, h)
    BY <1>6, <1>7
  <2>2. QED
    BY <2>1

\* Every way ends at the root.
LEMMA RootIsAbove == \A i \in Nat \ {0} : 1 \in Upwards[i]
<1> SUFFICES ASSUME NEW i \in Nat \ {0} PROVE 1 \in Upwards[i]
  OBVIOUS
<1>1. i \in Upwards[i] /\ Upwards[i] \subseteq 1..i /\ HoldsParents(Upwards[i])
  BY UpwardsGoesOn
<1>2. PICK m \in Upwards[i] : \A y \in Upwards[i] : m <= y
  <2>1. Upwards[i] \subseteq Nat
    BY <1>1
  <2>2. QED
    BY <1>1, <2>1, Least
<1>3. m \in Nat \ {0}
  BY <1>1
<1>4. CASE m # 1
  <2>1. m \div 2 \in Upwards[i]
    BY <1>1, <1>4 DEF HoldsParents
  <2>2. m \div 2 \in Nat /\ m \div 2 < m
    BY <1>3, HalfIs
  <2>3. m <= m \div 2
    BY <1>2, <2>1
  <2>4. QED
    BY <1>3, <2>2, <2>3
<1>5. QED
  BY <1>4

\* Remove is trickleDown after the last element has replaced the root.
LEMMA RemoveIsTrickled ==
    ASSUME NEW z, NEW heap \in Seq(Ints), heap # <<>>
    PROVE  /\ SubSeq(Swap(heap, 1, Len(heap)), 1, Len(heap) - 1) \in Seq(Ints)
           /\ Len(SubSeq(Swap(heap, 1, Len(heap)), 1, Len(heap) - 1)) = Len(heap) - 1
           /\ Remove(heap, z) = Trickled(z, SubSeq(Swap(heap, 1, Len(heap)), 1, Len(heap) - 1), 1)
<1> DEFINE n == Len(heap) - 1
           h == SubSeq(Swap(heap, 1, n + 1), 1, n)
           x == heap[n + 1]
           left(i) == 2 * (i \div 2)
           FirstChild(i) == IF i = left(i) THEN i = n \/ Before(heap[i], heap[i + 1], z)
                            ELSE ~Before(heap[i - 1], heap[i], z)
           Yielded(i) == /\ i \in 2..n
                         /\ \A a \in Upwards[i] \ {1} : FirstChild(a) /\ Before(heap[a], x, z)
           element(i) == IF Yielded(2 * i) THEN heap[2 * i]
                         ELSE IF Yielded(2 * i + 1) THEN heap[2 * i + 1]
                         ELSE IF i = 1 \/ Yielded(i) THEN x ELSE heap[i]
<1>1. n \in Nat /\ Len(heap) = n + 1
  OBVIOUS
<1>2. /\ h \in Seq(Ints) /\ Len(h) = n
      /\ n # 0 => h[1] = x
      /\ \A i \in 2..n : h[i] = heap[i]
  <2>1. PICK s : s = Swap(heap, 1, n + 1)
    OBVIOUS
  <2>2. s \in Seq(Ints) /\ Len(s) = n + 1 /\ s[1] = x /\ \A i \in 2..n : s[i] = heap[i]
    <3>1. CASE n = 0
      <4>1. heap \in [1..1 -> Ints] /\ x = heap[1] /\ n + 1 = 1
        <5>1. heap \in [1..Len(heap) -> Ints]
          OBVIOUS
        <5>2. n + 1 = 1
          BY <3>1
        <5>3. Len(heap) = 1 /\ x = heap[1]
          <6> HIDE DEF n
          <6>1. QED
            BY <1>1, <5>2
        <5>4. QED
          BY <5>1, <5>2, <5>3
      <4>2. Swap(heap, 1, 1) = heap
        BY <4>1 DEF Swap
      <4>3. s = heap
        BY <2>1, <4>1, <4>2
      <4>4. QED
        BY <1>1, <3>1, <4>1, <4>3
    <3>2. CASE n # 0
      <4>1. 1 \in 1..Len(heap) /\ n + 1 \in 1..Len(heap) /\ 1 # n + 1
        BY <1>1, <3>2
      <4>2. QED
        BY <1>1, <2>1, <4>1, SwapIs
    <3>3. QED
      BY <3>1, <3>2
  <2>3. h = SubSeq(s, 1, n)
    BY <2>1
  <2> HIDE DEF h, n, x
  <2>4. QED
    BY <1>1, <2>2, <2>3
<1>3. Remove(heap, z) = [i \in 1..n |-> element(i)]
  BY DEF Remove
<1> HIDE DEF h
<1>5. ASSUME NEW i PROVE Yielded(i) <=> Yields(z, h, 1, i)
  <2> HIDE DEF n, x
  <2>1. SUFFICES ASSUME i \in 2..n PROVE Yielded(i) <=> Yields(z, h, 1, i)
    BY <1>2 DEF Yields
  <2>2. i \in Nat \ {0} /\ i # 1 /\ n # 0 /\ i <= n
    BY <1>1, <2>1
  <2>3. Upwards[i] \subseteq 1..i /\ 1 \in Upwards[i]
    BY <2>2, UpwardsGoesOn, RootIsAbove
  <2>4. ASSUME NEW a \in Upwards[i], a # 1 PROVE (FirstChild(a) <=> First(z, h, a)) /\ h[a] = heap[a] /\ a > 1
    <3>1. a \in 2..n
      BY <1>1, <2>2, <2>3, <2>4
    <3>2. a # n => h[a + 1] = heap[a + 1]
      BY <1>1, <1>2, <3>1
    <3>3. a # left(a) => h[a - 1] = heap[a - 1]
      <4>1. ASSUME a # left(a) PROVE a - 1 \in 2..n
        <5>1. a # 2
          BY <4>1
        <5>2. QED
          BY <1>1, <3>1, <5>1
      <4>2. QED
        BY <1>2, <4>1
    <3>4. QED
      BY <1>2, <3>1, <3>2, <3>3 DEF First
  <2>5. \A a \in Upwards[i] : a > 1 <=> a # 1
    BY <2>3
  <2> HIDE DEF FirstChild
  <2>6. QED
    BY <1>2, <2>1, <2>2, <2>3, <2>4, <2>5 DEF Yields
<1>6. \A i : Yielded(i) => i \in 2..n
  OBVIOUS
<1>7. ASSUME NEW i \in 1..n PROVE element(i) = Trickled(z, h, 1)[i]
  <2> HIDE DEF Yielded, x, n
  <2>1. Trickled(z, h, 1)[i] = IF Yielded(2 * i) THEN h[2 * i]
                            ELSE IF Yielded(2 * i + 1) THEN h[2 * i + 1]
                            ELSE IF i = 1 \/ Yielded(i) THEN h[1] ELSE h[i]
    BY <1>2, <1>5 DEF Trickled
  <2>2. h[1] = x /\ (i # 1 => h[i] = heap[i])
    BY <1>1, <1>2
  <2>3. \A j : Yielded(j) => h[j] = heap[j]
    BY <1>2, <1>6
  <2>4. QED
    BY <2>1, <2>2, <2>3
<1>8. Trickled(z, h, 1) = [i \in 1..n |-> element(i)]
  <2> HIDE DEF element, n
  <2>1. QED
    BY <1>2, <1>7 DEF Trickled
<1>9. QED
  BY <1>1, <1>2, <1>3, <1>8 DEF h

-----------------------------------------------------------------------------
(***************************************************************************)
(* Nothing is lost: the loops only swap, so that whatever the order, and   *)
(* also in an array that is not in order, every element stays as often.    *)
(***************************************************************************)
\* An array rearranges itself, and one that rearranges another what that one does.
LEMMA RearrangesOn ==
    ASSUME NEW n \in Nat, NEW f, Len(f) = n, NEW g, Len(g) = n
    PROVE  /\ Rearranges(f, f)
           /\ \A h : Len(h) = n /\ Rearranges(f, g) /\ Rearranges(g, h) => Rearranges(f, h)
<1>1. Rearranges(f, f)
  <2> DEFINE p == [i \in 1..n |-> i]
  <2>1. p \in [1..n -> 1..n] /\ \A i \in 1..n : p[i] = i
    OBVIOUS
  <2> HIDE DEF p
  <2>2. QED
    BY <2>1 DEF Rearranges
<1>2. ASSUME NEW h, Len(h) = n, Rearranges(f, g), Rearranges(g, h) PROVE Rearranges(f, h)
  <2>1. Rearranges(f, g) <=> \E p \in [1..n -> 1..n] : /\ \A i, j \in 1..n : p[i] = p[j] => i = j
                                                     /\ \A i \in 1..n : f[i] = g[p[i]]
    BY DEF Rearranges
  <2>2. PICK p \in [1..n -> 1..n] : /\ \A i, j \in 1..n : p[i] = p[j] => i = j
                                    /\ \A i \in 1..n : f[i] = g[p[i]]
    BY <1>2, <2>1
  <2>3. Rearranges(g, h) <=> \E m \in [1..n -> 1..n] : /\ \A i, j \in 1..n : m[i] = m[j] => i = j
                                                     /\ \A i \in 1..n : g[i] = h[m[i]]
    BY <1>2 DEF Rearranges
  <2>4. PICK q \in [1..n -> 1..n] : /\ \A i, j \in 1..n : q[i] = q[j] => i = j
                                    /\ \A i \in 1..n : g[i] = h[q[i]]
    BY <1>2, <2>3
  <2> DEFINE s == [i \in 1..n |-> q[p[i]]]
  <2>5. s \in [1..n -> 1..n] /\ \A i \in 1..n : s[i] = q[p[i]] /\ p[i] \in 1..n
    BY <2>2, <2>4
  <2> HIDE DEF s
  <2>6. \A i, j \in 1..n : s[i] = s[j] => i = j
    BY <2>2, <2>4, <2>5
  <2>7. ASSUME NEW i \in 1..n PROVE f[i] = h[s[i]]
    <3>1. p[i] \in 1..n /\ f[i] = g[p[i]]
      BY <2>2
    <3>2. g[p[i]] = h[q[p[i]]]
      BY <2>4, <3>1
    <3>3. QED
      BY <2>5, <3>1, <3>2
  <2>8. QED
    <3>1. Rearranges(f, h) <=> \E m \in [1..n -> 1..n] : /\ \A i, j \in 1..n : m[i] = m[j] => i = j
                                                       /\ \A i \in 1..n : f[i] = h[m[i]]
      BY <1>2 DEF Rearranges
    <3>2. QED
      BY <2>5, <2>6, <2>7, <3>1
<1>3. QED
  BY <1>1, <1>2

\* A swap rearranges the array.
LEMMA SwapRearranges ==
    ASSUME NEW h \in Seq(Ints), NEW i \in 1..Len(h), NEW j \in 1..Len(h), i # j
    PROVE  Rearranges(Swap(h, i, j), h)
<1> DEFINE n == Len(h)
           p == [k \in 1..n |-> IF k = i THEN j ELSE IF k = j THEN i ELSE k]
<1>1. p \in [1..n -> 1..n] /\ \A k \in 1..n : p[k] = IF k = i THEN j ELSE IF k = j THEN i ELSE k
  OBVIOUS
<1> HIDE DEF p
<1>2. \A k, l \in 1..n : p[k] = p[l] => k = l
  BY <1>1
<1>3. Len(Swap(h, i, j)) = n /\ \A k \in 1..n : Swap(h, i, j)[k] = h[p[k]]
  <2>1. /\ Len(Swap(h, i, j)) = Len(h) /\ Swap(h, i, j)[i] = h[j] /\ Swap(h, i, j)[j] = h[i]
        /\ \A k \in 1..Len(h) : k \notin {i, j} => Swap(h, i, j)[k] = h[k]
    BY SwapIs
  <2>2. QED
    BY <1>1, <2>1
<1>4. QED
  BY <1>1, <1>2, <1>3 DEF Rearranges

\* So does heapify, from any element on,
LEMMA SiftedRearranges ==
    ASSUME NEW z
    PROVE  \A c \in Nat : \A h \in Seq(Ints) : Len(Sifted(z, h, c)) = Len(h) /\ Rearranges(Sifted(z, h, c), h)
<1> DEFINE right(c) == \A h \in Seq(Ints) : Len(Sifted(z, h, c)) = Len(h) /\ Rearranges(Sifted(z, h, c), h)
           T == {c \in Nat : ~right(c)}
<1>1. ASSUME NEW c \in Nat, \A d \in Nat : d < c => right(d) PROVE right(c)
  <2> SUFFICES ASSUME NEW h \in Seq(Ints)
               PROVE  Len(Sifted(z, h, c)) = Len(h) /\ Rearranges(Sifted(z, h, c), h)
    OBVIOUS
  <2> HIDE DEF right
  <2>1. PICK n \in Nat : n = Len(h)
    OBVIOUS
  <2>2. CASE c \in 2..n /\ Before(h[c], h[c \div 2], z)
    <3>1. PICK p \in Nat \ {0} : p = c \div 2 /\ p < c
      <4>1. c \notin {0, 1}
        BY <2>2
      <4>2. QED
        BY <4>1, Halves
    <3>2. p \in 1..Len(h) /\ c \in 1..Len(h) /\ c # p
      BY <2>1, <2>2, <3>1
    <3>3. PICK g : g = Swap(h, c, p)
      OBVIOUS
    <3>4. g \in Seq(Ints) /\ Len(g) = n /\ Rearranges(g, h)
      BY <2>1, <3>2, <3>3, SwapIs, SwapRearranges
    <3>5. PICK f : f = Sifted(z, g, p)
      OBVIOUS
    <3>6. Len(f) = n /\ Rearranges(f, g)
      BY <1>1, <3>1, <3>4, <3>5 DEF right
    <3>7. Sifted(z, h, c) = f
      BY <2>1, <2>2, <3>1, <3>3, <3>5, SiftedGoesOn
    <3>8. Rearranges(f, h)
      BY <2>1, <3>4, <3>6, RearrangesOn
    <3>9. QED
      BY <2>1, <3>6, <3>7, <3>8
  <2>3. CASE ~(c \in 2..n /\ Before(h[c], h[c \div 2], z))
    <3>1. Sifted(z, h, c) = h
      BY <2>1, <2>3, SiftedGoesOn
    <3>2. Rearranges(h, h)
      BY <2>1, RearrangesOn
    <3>3. QED
      BY <3>1, <3>2
  <2>4. QED
    BY <2>2, <2>3
<1> HIDE DEF right
<1>2. T = {}
  <2> SUFFICES ASSUME T # {} PROVE FALSE
    OBVIOUS
  <2>1. PICK c \in T : \A d \in T : c <= d
    <3>1. T \subseteq Nat
      OBVIOUS
    <3>2. QED
      BY <3>1, Least
  <2>2. \A d \in Nat : d < c => right(d)
    BY <2>1
  <2>3. QED
    BY <1>1, <2>1, <2>2
<1>3. \A c \in Nat : right(c)
  BY <1>2
<1>4. QED
  BY <1>3 DEF right

\* and trickleDown, whose element sinks so that the rest of its way gets shorter.
LEMMA TrickledRearranges ==
    ASSUME NEW z
    PROVE  \A c \in Nat \ {0} : \A h \in Seq(Ints) :
               Len(Trickled(z, h, c)) = Len(h) /\ Rearranges(Trickled(z, h, c), h)
<1> DEFINE right(c, h) == Len(Trickled(z, h, c)) = Len(h) /\ Rearranges(Trickled(z, h, c), h)
           left(c, h) == IF c > Len(h) THEN 0 ELSE Len(h) + 1 - c
           T == {m \in Nat : \E c \in Nat \ {0} : \E h \in Seq(Ints) : ~right(c, h) /\ m = left(c, h)}
<1>1. \A c \in Nat \ {0} : \A h \in Seq(Ints) : left(c, h) \in Nat
  OBVIOUS
<1> HIDE DEF right, left
<1>2. ASSUME NEW c \in Nat \ {0}, NEW h \in Seq(Ints),
             \A d \in Nat \ {0} : \A g \in Seq(Ints) : left(d, g) < left(c, h) => right(d, g)
      PROVE  right(c, h)
  <2>1. PICK n \in Nat : n = Len(h)
    OBVIOUS
  <2>2. PICK k \in Nat \ {0} : k = ChildOf(z, h, c)
    BY FirstIsChild
  <2>3. k > c /\ (2 * c <= n => k <= n)
    BY <2>1, <2>2, FirstIsChild
  <2>4. CASE 2 * c <= n /\ Before(h[k], h[c], z)
    <3>1. k \in 1..Len(h) /\ c \in 1..Len(h) /\ k # c
      BY <2>1, <2>3, <2>4
    <3>2. PICK g : g = Swap(h, k, c)
      OBVIOUS
    <3>3. g \in Seq(Ints) /\ Len(g) = n /\ Rearranges(g, h)
      BY <2>1, <3>1, <3>2, SwapIs, SwapRearranges
    <3>4. left(k, g) < left(c, h)
      BY <2>1, <2>3, <3>1, <3>3 DEF left
    <3>5. PICK f : f = Trickled(z, g, k)
      OBVIOUS
    <3>6. Len(f) = n /\ Rearranges(f, g)
      BY <1>2, <3>3, <3>4, <3>5 DEF right
    <3>7. Trickled(z, h, c) = f
      BY <2>1, <2>2, <2>4, <3>2, <3>5, TrickledGoesOn
    <3>8. Rearranges(f, h)
      BY <2>1, <3>3, <3>6, RearrangesOn
    <3>9. QED
      BY <2>1, <3>6, <3>7, <3>8 DEF right
  <2>5. CASE ~(2 * c <= n /\ Before(h[k], h[c], z))
    <3>1. Trickled(z, h, c) = h
      BY <2>1, <2>2, <2>5, TrickledGoesOn
    <3>2. Rearranges(h, h)
      BY <2>1, RearrangesOn
    <3>3. QED
      BY <3>1, <3>2 DEF right
  <2>6. QED
    BY <2>4, <2>5
<1>3. T = {}
  <2> SUFFICES ASSUME T # {} PROVE FALSE
    OBVIOUS
  <2>1. PICK m \in T : \A y \in T : m <= y
    <3>1. T \subseteq Nat
      OBVIOUS
    <3>2. QED
      BY <3>1, Least
  <2>2. PICK c \in Nat \ {0}, h \in Seq(Ints) : ~right(c, h) /\ m = left(c, h)
    BY <2>1
  <2>3. ASSUME NEW d \in Nat \ {0}, NEW g \in Seq(Ints), left(d, g) < left(c, h) PROVE right(d, g)
    <3>1. left(d, g) \in Nat /\ left(c, h) \in Nat
      BY <1>1
    <3>2. ASSUME ~right(d, g) PROVE FALSE
      <4>1. left(d, g) \in T
        BY <3>1, <3>2
      <4>2. m <= left(d, g)
        BY <2>1, <4>1
      <4>3. QED
        BY <2>2, <2>3, <3>1, <4>2
    <3>3. QED
      BY <3>2
  <2>4. QED
    BY <1>2, <2>2, <2>3
<1>4. \A c \in Nat \ {0} : \A h \in Seq(Ints) : right(c, h)
  BY <1>1, <1>3
<1>5. QED
  BY <1>4 DEF right

\* Arrays that rearrange each other have every element equally often.
LEMMA SameCount ==
    ASSUME NEW h, NEW g, NEW n \in Nat, Len(h) = n, Len(g) = n, Rearranges(h, g), NEW v
    PROVE  Count(h, v) = Count(g, v)
<1> DEFINE A == {i \in 1..n : h[i] = v}
           B == {i \in 1..n : g[i] = v}
<1>1. PICK p \in [1..n -> 1..n] : /\ \A i, j \in 1..n : p[i] = p[j] => i = j
                                  /\ \A i \in 1..n : h[i] = g[p[i]]
  BY DEF Rearranges
<1>2. IsFiniteSet(1..n) /\ IsFiniteSet(A)
  <2>1. IsFiniteSet(1..n)
    BY FS_Interval
  <2>2. QED
    BY <2>1, FS_Subset
<1>3. \A k \in 1..n : \E i \in 1..n : p[i] = k
  <2>1. p \in Injection(1..n, 1..n)
    BY <1>1 DEF Injection, IsInjective
  <2>2. p \in Surjection(1..n, 1..n)
    BY <1>2, <2>1, FS_Injection
  <2>3. QED
    BY <2>2 DEF Surjection
<1>4. ExistsBijection(A, B)
  <2> DEFINE f == [i \in A |-> p[i]]
  <2>1. f \in [A -> B]
    BY <1>1
  <2>2. \A i, j \in A : f[i] = f[j] => i = j
    BY <1>1
  <2>3. \A k \in B : \E i \in A : f[i] = k
    BY <1>1, <1>3
  <2>4. f \in Bijection(A, B)
    BY <2>1, <2>2, <2>3 DEF Bijection, Injection, Surjection, IsInjective
  <2>5. QED
    BY <2>4 DEF ExistsBijection
<1>5. Cardinality(B) = Cardinality(A)
  BY <1>2, <1>4, FS_Bijection
<1>6. QED
  BY <1>5 DEF Count

\* How often an element is in an array that gets one more, or loses its first.
LEMMA CountIs ==
    ASSUME NEW V, NEW heap \in Seq(V), NEW v
    PROVE  /\ Count(heap, v) \in Nat
           /\ \A x : Count(Append(heap, x), v) = Count(heap, v) + (IF v = x THEN 1 ELSE 0)
           /\ heap # <<>> => Count(heap, v) = Count(Tail(heap), v) + (IF v = heap[1] THEN 1 ELSE 0)
<1> DEFINE n == Len(heap)
           A == {i \in 1..n : heap[i] = v}
<1>1. n \in Nat /\ IsFiniteSet(A) /\ Cardinality(A) \in Nat /\ Count(heap, v) = Cardinality(A)
  <2>1. n \in Nat /\ IsFiniteSet(1..n)
    BY FS_Interval
  <2>2. IsFiniteSet(A)
    BY <2>1, FS_Subset
  <2>3. QED
    BY <2>1, <2>2, FS_CardinalityType DEF Count
<1>2. ASSUME NEW x
      PROVE  Count(Append(heap, x), v) = Count(heap, v) + (IF v = x THEN 1 ELSE 0)
  <2> DEFINE B == {i \in 1..Len(Append(heap, x)) : Append(heap, x)[i] = v}
  <2>1. Len(Append(heap, x)) = n + 1 /\ \A i \in 1..(n + 1) : Append(heap, x)[i] = IF i = n + 1 THEN x ELSE heap[i]
    OBVIOUS
  <2>2. B = IF v = x THEN A \cup {n + 1} ELSE A
    BY <1>1, <2>1
  <2>3. n + 1 \notin A
    BY <1>1
  <2>4. Count(Append(heap, x), v) = Cardinality(B)
    BY DEF Count
  <2> HIDE DEF A, B, n
  <2>5. CASE v = x
    <3>1. B = A \cup {n + 1}
      BY <2>2, <2>5
    <3>2. Cardinality(A \cup {n + 1}) = Cardinality(A) + 1
      BY <1>1, <2>3, FS_AddElement
    <3>3. QED
      BY <1>1, <2>4, <2>5, <3>1, <3>2
  <2>6. CASE v # x
    BY <1>1, <2>2, <2>4, <2>6
  <2>7. QED
    BY <2>5, <2>6
<1>3. ASSUME heap # <<>>
      PROVE  Count(heap, v) = Count(Tail(heap), v) + (IF v = heap[1] THEN 1 ELSE 0)
  <2> DEFINE B == {i \in 1..Len(Tail(heap)) : Tail(heap)[i] = v}
             f == [i \in B |-> i + 1]
  <2>1. /\ Len(Tail(heap)) = n - 1 /\ n - 1 \in Nat
        /\ \A i \in 1..(n - 1) : Tail(heap)[i] = heap[i + 1]
    BY <1>1, <1>3
  <2>2. IsFiniteSet(B) /\ Cardinality(B) \in Nat /\ Count(Tail(heap), v) = Cardinality(B)
    <3>1. IsFiniteSet(1..Len(Tail(heap)))
      BY <2>1, FS_Interval
    <3>2. IsFiniteSet(B)
      BY <3>1, FS_Subset
    <3>3. QED
      BY <3>2, FS_CardinalityType DEF Count
  <2>3. ExistsBijection(B, A \ {1})
    <3>1. f \in [B -> A \ {1}]
      BY <1>1, <2>1
    <3>2. \A i, j \in B : f[i] = f[j] => i = j
      BY <1>1, <2>1
    <3>3. ASSUME NEW k \in A \ {1} PROVE \E i \in B : f[i] = k
      <4>1. k - 1 \in B /\ k - 1 + 1 = k
        BY <1>1, <2>1
      <4>2. f[k - 1] = k
        BY <4>1
      <4>3. QED
        BY <4>1, <4>2
    <3> HIDE DEF f
    <3>4. f \in Bijection(B, A \ {1})
      BY <3>1, <3>2, <3>3 DEF Bijection, Injection, Surjection, IsInjective
    <3>5. QED
      BY <3>4 DEF ExistsBijection
  <2>4. Cardinality(A \ {1}) = Cardinality(B)
    BY <2>2, <2>3, FS_Bijection
  <2>5. Cardinality(A \ {1}) = IF 1 \in A THEN Cardinality(A) - 1 ELSE Cardinality(A)
    BY <1>1, FS_RemoveElement
  <2>6. 1 \in A <=> v = heap[1]
    BY <1>1, <1>3
  <2> HIDE DEF A, B
  <2>7. QED
    BY <1>1, <2>2, <2>4, <2>5, <2>6
<1>4. QED
  BY <1>1, <1>2, <1>3

\* insert adds its index to the elements, whatever the array and the zero.
LEMMA InsertKeepsElements ==
    ASSUME NEW z, NEW heap \in Seq(Ints), NEW x \in Ints
    PROVE  /\ Insert(heap, x, z) \in Seq(Ints) /\ Len(Insert(heap, x, z)) = Len(heap) + 1
           /\ \A v : Count(Insert(heap, x, z), v) = Count(heap, v) + (IF v = x THEN 1 ELSE 0)
<1>1. PICK h \in Seq(Ints) : h = Append(heap, x)
  <2>1. Append(heap, x) \in Seq(Ints)
    OBVIOUS
  <2>2. QED
    BY <2>1
<1>2. PICK g : g = Insert(heap, x, z)
  OBVIOUS
<1>3. g \in Seq(Ints) /\ Len(g) = Len(heap) + 1 /\ Len(h) = Len(heap) + 1 /\ Len(heap) + 1 \in Nat
  BY <1>1, <1>2, InsertAddsOne
<1>4. g = Sifted(z, h, Len(heap) + 1)
  BY <1>1, <1>2, InsertIsSifted
<1>5. Rearranges(g, h)
  BY <1>3, <1>4, SiftedRearranges
<1>6. ASSUME NEW v PROVE Count(g, v) = Count(heap, v) + (IF v = x THEN 1 ELSE 0)
  <2>1. Count(g, v) = Count(h, v)
    BY <1>3, <1>5, SameCount
  <2>2. QED
    BY <1>1, <2>1, CountIs
<1>7. QED
  BY <1>2, <1>3, <1>6

\* remove takes the first element away, whatever the array and the zero.
LEMMA RemoveKeepsElements ==
    ASSUME NEW z, NEW heap \in Seq(Ints), heap # <<>>
    PROVE  /\ Remove(heap, z) \in Seq(Ints) /\ Len(Remove(heap, z)) = Len(heap) - 1
           /\ \A v : Count(Remove(heap, z), v) = Count(heap, v) - (IF v = heap[1] THEN 1 ELSE 0)
<1>1. PICK n \in Nat : Len(heap) = n + 1
  <2>1. Len(heap) \in Nat /\ Len(heap) # 0
    OBVIOUS
  <2>2. Len(heap) - 1 \in Nat
    BY <2>1
  <2>3. QED
    BY <2>1, <2>2
<1>2. PICK s : s = Swap(heap, 1, Len(heap))
  OBVIOUS
<1>3. PICK h : h = SubSeq(s, 1, n)
  OBVIOUS
<1>4. PICK g : g = Remove(heap, z)
  OBVIOUS
<1>5. h \in Seq(Ints) /\ Len(h) = n /\ g = Trickled(z, h, 1)
  BY <1>1, <1>2, <1>3, <1>4, RemoveIsTrickled
<1>6. g \in Seq(Ints) /\ Len(g) = n
  BY <1>1, <1>4, RemoveTakesOne
<1>7. s \in Seq(Ints) /\ Len(s) = n + 1 /\ s[n + 1] = heap[1] /\ Rearranges(s, heap)
  <2>1. CASE n = 0
    <3>1. heap \in [1..Len(heap) -> Ints] /\ Len(heap) = 1
      BY <1>1, <2>1
    <3>2. heap \in [1..1 -> Ints]
      BY <3>1
    <3>3. s = heap
      BY <1>2, <3>1, <3>2 DEF Swap
    <3>4. Rearranges(heap, heap)
      BY <1>1, RearrangesOn
    <3>5. QED
      BY <1>1, <2>1, <3>3, <3>4
  <2>2. CASE n # 0
    <3>1. 1 \in 1..Len(heap) /\ Len(heap) \in 1..Len(heap) /\ 1 # Len(heap)
      BY <1>1, <2>2
    <3>2. /\ Swap(heap, 1, Len(heap)) \in Seq(Ints) /\ Len(Swap(heap, 1, Len(heap))) = Len(heap)
          /\ Swap(heap, 1, Len(heap))[Len(heap)] = heap[1]
      <4>1. PICK k \in 1..Len(heap) : k = Len(heap)
        BY <3>1
      <4>2. /\ Swap(heap, 1, k) \in Seq(Ints) /\ Len(Swap(heap, 1, k)) = Len(heap)
            /\ Swap(heap, 1, k)[k] = heap[1]
        BY <3>1, <4>1, SwapIs
      <4>3. QED
        BY <4>1, <4>2
    <3>3. QED
      BY <1>1, <1>2, <3>1, <3>2, SwapRearranges
  <2>3. QED
    BY <2>1, <2>2
<1>8. s = Append(h, heap[1])
  <2>1. Len(Append(h, heap[1])) = n + 1 /\ \A i \in 1..(n + 1) : Append(h, heap[1])[i] = s[i]
    BY <1>3, <1>5, <1>7
  <2>2. Append(h, heap[1]) \in Seq(Ints)
    <3>1. heap[1] \in Ints
      BY <1>1
    <3>2. QED
      BY <1>5, <3>1
  <2>3. QED
    BY <1>7, <2>1, <2>2
<1>9. Rearranges(g, h)
  BY <1>5, TrickledRearranges
<1>10. ASSUME NEW v PROVE Count(g, v) = Count(heap, v) - (IF v = heap[1] THEN 1 ELSE 0)
  <2>1. Count(g, v) = Count(h, v) /\ Count(s, v) = Count(heap, v)
    BY <1>1, <1>5, <1>6, <1>7, <1>9, SameCount
  <2>2. Count(s, v) = Count(h, v) + (IF v = heap[1] THEN 1 ELSE 0) /\ Count(h, v) \in Nat
    BY <1>5, <1>8, CountIs
  <2>3. QED
    BY <2>1, <2>2
<1>11. QED
  BY <1>1, <1>4, <1>6, <1>10

-----------------------------------------------------------------------------
(***************************************************************************)
(* The heap in use: MCHeap of this buffer's array and zero, with indexes   *)
(* up to Span ahead of the zero, which may repeat.                         *)
(***************************************************************************)
CONSTANTS Span,      \* how far ahead of the zero an index may be
          MaxSize    \* bound on the elements in the heap

HeapUse == INSTANCE MCHeap

\* The operators of the heap in use are those of the heap of the jitter buffer.
LEMMA SameWay == HeapUse!Upwards = Upwards
BY DEF HeapUse!Upwards, Upwards

\* So are the order of its indexes,
LEMMA SameOrder ==
    /\ HeapUse!Ints = Ints
    /\ \A x : HeapUse!Wrap(x) = Wrap(x)
    /\ \A a, b, z : HeapUse!Before(a, b, z) = Before(a, b, z)
BY DEF HeapUse!Ints, Ints, HeapUse!Wrap, Wrap, HeapUse!Before, Before, HeapUse!CompareIndexes, CompareIndexes

\* and insert and remove.
LEMMA SameHeap ==
    /\ \A h, x, z : HeapUse!Insert(h, x, z) = Insert(h, x, z)
    /\ \A h, z : HeapUse!Remove(h, z) = Remove(h, z)
<1>1. \A h, x, z : HeapUse!Insert(h, x, z) = Insert(h, x, z)
  BY SameWay, SameOrder DEF HeapUse!Insert, Insert
<1>2. ASSUME NEW h, NEW z PROVE HeapUse!Remove(h, z) = Remove(h, z)
  <2> DEFINE n == Len(h) - 1
             x == h[n + 1]
             left(i) == 2 * (i \div 2)
             FirstChild(i) == IF i = left(i) THEN i = n \/ Before(h[i], h[i + 1], z)
                              ELSE ~Before(h[i - 1], h[i], z)
             Yielded(i) == /\ i \in 2..n
                           /\ \A a \in Upwards[i] \ {1} : FirstChild(a) /\ Before(h[a], x, z)
             first(i) == IF i = left(i) THEN i = n \/ HeapUse!Before(h[i], h[i + 1], z)
                         ELSE ~HeapUse!Before(h[i - 1], h[i], z)
             yielded(i) == /\ i \in 2..n
                           /\ \A a \in HeapUse!Upwards[i] \ {1} : first(a) /\ HeapUse!Before(h[a], x, z)
  <2>1. Remove(h, z) = [i \in 1..n |-> IF Yielded(2 * i) THEN h[2 * i]
                                       ELSE IF Yielded(2 * i + 1) THEN h[2 * i + 1]
                                       ELSE IF i = 1 \/ Yielded(i) THEN x ELSE h[i]]
    BY DEF Remove
  <2>2. HeapUse!Remove(h, z) = [i \in 1..n |-> IF yielded(2 * i) THEN h[2 * i]
                                               ELSE IF yielded(2 * i + 1) THEN h[2 * i + 1]
                                               ELSE IF i = 1 \/ yielded(i) THEN x ELSE h[i]]
    BY DEF HeapUse!Remove
  <2>3. \A i : first(i) <=> FirstChild(i)
    BY SameOrder
  <2> HIDE DEF first, FirstChild
  <2>4. \A i : yielded(i) <=> Yielded(i)
    BY SameWay, SameOrder, <2>3
  <2> HIDE DEF yielded, Yielded
  <2>5. QED
    BY <2>1, <2>2, <2>4
<1>3. QED
  BY <1>1, <1>2

\* The heap is ordered by how far its elements are ahead of the zero, at most by Span.
UseInv ==
    /\ data \in Seq(Ints) /\ relativeZero \in Ints
    /\ \A i \in 1..Len(data) : Distance(relativeZero, data[i]) \in 1..Span
    /\ HeapOrdered(data, AheadOf(relativeZero))

Near(zero) == {i \in Ints : Distance(zero, i) \in 1..Span}

\* Indexes at most half of the circle ahead are ranked by how far ahead they are.
LEMMA NearIsRanked ==
    ASSUME Span \in 0..MaxInt, NEW zero \in Ints
    PROVE  RanksBy(Near(zero), zero, AheadOf(zero))
<1>1. MaxInt \in Nat \ {0}
  BY MaxIntAssumption
<1>2. ASSUME NEW a \in Near(zero)
      PROVE  a \in Ints /\ Distance(zero, a) \in 1..(MaxInt + 1) /\ Distance(zero, a) \in Int
             /\ AheadOf(zero)[a] = Distance(zero, a)
  BY <1>1 DEF Near, AheadOf
<1>3. QED
  BY <1>2, NearerIsBefore DEF RanksBy

\* The names of the model of a heap in use, for the heap of the jitter buffer.
LEMMA UseIs ==
    /\ \A i : HeapUse!Distance(relativeZero, i) = Distance(relativeZero, i)
    /\ \A i : HeapUse!InsertIndex(i) =>
          /\ Distance(relativeZero, i) \in 1..Span
          /\ data' = Insert(data, i, relativeZero) /\ relativeZero' = relativeZero
    /\ HeapUse!RemoveRoot =>
          data # <<>> /\ data' = Remove(data, relativeZero) /\ relativeZero' = relativeZero
    /\ HeapUse!SetRelativeZero =>
          /\ \A i \in 1..Len(data) : Distance(relativeZero, data[i]) > 1
          /\ relativeZero' = Wrap(relativeZero + 1) /\ data' = data
<1>1. \A i : HeapUse!Distance(relativeZero, i) = Distance(relativeZero, i)
  BY DEF HeapUse!Distance, Distance
<1>2. QED
  BY <1>1, SameHeap, SameOrder DEF HeapUse!InsertIndex, HeapUse!RemoveRoot, HeapUse!SetRelativeZero

\* An insertion keeps the order.
LEMMA InsertIndexIsRight ==
    ASSUME Span \in 0..MaxInt, UseInv, NEW x \in Ints, HeapUse!InsertIndex(x)
    PROVE  UseInv'
<1>1. PICK zero \in Ints : zero = relativeZero
  BY DEF UseInv
<1>2. PICK heap \in Seq(Ints) : heap = data
  BY DEF UseInv
<1>3. PICK h : h = data'
  OBVIOUS
<1>4. PICK V : V = Near(zero)
  OBVIOUS
<1>5. PICK r : r = AheadOf(zero)
  OBVIOUS
<1>6. /\ h = Insert(heap, x, zero) /\ relativeZero' = zero /\ Distance(zero, x) \in 1..Span
      /\ HeapOrdered(heap, r) /\ \A i \in 1..Len(heap) : Distance(zero, heap[i]) \in 1..Span
      /\ RanksBy(V, zero, r)
  BY <1>1, <1>2, <1>3, <1>4, <1>5, UseIs, NearIsRanked DEF UseInv
<1>7. h \in Seq(Ints) /\ Len(h) = Len(heap) + 1 /\ Len(heap) \in Nat
  BY <1>6, InsertAddsOne
<1>8. heap \in Seq(V) /\ x \in V
  BY <1>4, <1>6 DEF Near
<1>9. HeapOrdered(h, r) /\ Rearranges(h, Append(heap, x))
  BY <1>6, <1>7, <1>8, InsertKeepsHeap
<1>10. ASSUME NEW i \in 1..Len(h) PROVE Distance(zero, h[i]) \in 1..Span
  <2> DEFINE g == Append(heap, x)
  <2>1. PICK j \in 1..Len(g) : h[i] = g[j]
    BY <1>9, RearrangedElements
  <2>2. g[j] = x \/ \E k \in 1..Len(heap) : g[j] = heap[k]
    BY <1>7
  <2>3. QED
    BY <1>6, <2>1, <2>2
<1>11. QED
  BY <1>3, <1>5, <1>6, <1>7, <1>9, <1>10 DEF UseInv

\* So does a removal.
LEMMA RemoveRootIsRight ==
    ASSUME Span \in 0..MaxInt, UseInv, HeapUse!RemoveRoot
    PROVE  UseInv'
<1>1. PICK zero \in Ints : zero = relativeZero
  BY DEF UseInv
<1>2. PICK heap \in Seq(Ints) : heap = data
  BY DEF UseInv
<1>3. PICK h : h = data'
  OBVIOUS
<1>4. PICK V : V = Near(zero)
  OBVIOUS
<1>5. PICK r : r = AheadOf(zero)
  OBVIOUS
<1>6. /\ heap # <<>> /\ h = Remove(heap, zero) /\ relativeZero' = zero
      /\ HeapOrdered(heap, r) /\ \A i \in 1..Len(heap) : Distance(zero, heap[i]) \in 1..Span
      /\ RanksBy(V, zero, r)
  BY <1>1, <1>2, <1>3, <1>4, <1>5, UseIs, NearIsRanked DEF UseInv
<1>7. h \in Seq(Ints) /\ Len(h) = Len(heap) - 1 /\ Len(heap) \in Nat /\ Len(h) \in Nat
  BY <1>6, RemoveTakesOne
<1>8. heap \in Seq(V)
  BY <1>4, <1>6 DEF Near
<1>9. HeapOrdered(h, r) /\ Rearranges(h, Tail(heap))
  BY <1>6, <1>7, <1>8, RemoveKeepsHeap
<1>10. Len(Tail(heap)) = Len(h) /\ \A k \in 1..Len(h) : k + 1 \in 1..Len(heap) /\ Tail(heap)[k] = heap[k + 1]
  BY <1>6, <1>7
<1>11. ASSUME NEW i \in 1..Len(h) PROVE Distance(zero, h[i]) \in 1..Span
  <2>1. PICK j \in 1..Len(Tail(heap)) : h[i] = Tail(heap)[j]
    BY <1>9, RearrangedElements
  <2>2. QED
    BY <1>6, <1>10, <2>1
<1>12. QED
  BY <1>3, <1>5, <1>6, <1>7, <1>9, <1>11 DEF UseInv

\* When the zero moves, no element is left behind and all come nearer by one.
LEMMA ZeroMoves ==
    ASSUME Span \in 0..MaxInt, UseInv, HeapUse!SetRelativeZero
    PROVE  UseInv'
<1>1. /\ \A i \in 1..Len(data) : Distance(relativeZero, data[i]) > 1
      /\ relativeZero' = Wrap(relativeZero + 1) /\ data' = data
  BY UseIs
<1>2. data \in Seq(Ints) /\ relativeZero \in Ints /\ relativeZero' \in Ints
  BY <1>1, DistanceIs DEF UseInv
<1>3. ASSUME NEW i \in 1..Len(data)
      PROVE  /\ data[i] \in Ints
             /\ Distance(relativeZero, data[i]) \in 2..Span
             /\ Distance(relativeZero', data[i]) = Distance(relativeZero, data[i]) - 1
  <2>1. data[i] \in Ints /\ Distance(relativeZero, data[i]) \in 1..Span /\ Distance(relativeZero, data[i]) > 1
    BY <1>1, <1>2 DEF UseInv
  <2>2. Distance(relativeZero, data[i]) > 0 /\ Distance(relativeZero, data[i]) \in 2..Span
    BY <2>1
  <2>3. Distance(Wrap(relativeZero + 1), data[i]) = Distance(relativeZero, data[i]) - 1
    BY <1>2, <2>1, <2>2, DistanceIs
  <2>4. QED
    BY <1>1, <2>1, <2>2, <2>3
<1>4. HeapOrdered(data', AheadOf(relativeZero'))
  <2> SUFFICES ASSUME NEW i \in 2..Len(data)
               PROVE  AheadOf(relativeZero')[data[i \div 2]] <= AheadOf(relativeZero')[data[i]]
    BY <1>1 DEF HeapOrdered
  <2>1. i \in 1..Len(data) /\ i \div 2 \in 1..Len(data)
    <3>1. i \in Nat /\ i \notin {0, 1} /\ Len(data) \in Nat
      BY <1>2
    <3>2. i \div 2 \in Nat \ {0} /\ i \div 2 < i
      BY <3>1, Halves
    <3>3. QED
      BY <3>1, <3>2
  <2>2. AheadOf(relativeZero)[data[i \div 2]] <= AheadOf(relativeZero)[data[i]]
    BY DEF UseInv, HeapOrdered
  <2>3. Distance(relativeZero, data[i \div 2]) <= Distance(relativeZero, data[i])
    BY <1>3, <2>1, <2>2 DEF AheadOf
  <2>4. Distance(relativeZero', data[i \div 2]) <= Distance(relativeZero', data[i])
    BY <1>3, <2>1, <2>3
  <2>5. QED
    BY <1>3, <2>1, <2>4 DEF AheadOf
<1>5. \A i \in 1..Len(data') : Distance(relativeZero', data'[i]) \in 1..Span
  BY <1>1, <1>3
<1>6. QED
  BY <1>1, <1>2, <1>4, <1>5 DEF UseInv

\* The heap in use keeps its order.
LEMMA UseInvariance ==
    ASSUME Span \in 0..MaxInt PROVE HeapUse!Spec => []UseInv
<1>1. HeapUse!Init => UseInv
  BY MaxIntAssumption DEF HeapUse!Init, UseInv, HeapOrdered, Ints
<1>2. UseInv /\ [HeapUse!Next]_HeapUse!heapVars => UseInv'
  <2> SUFFICES ASSUME UseInv, [HeapUse!Next]_HeapUse!heapVars PROVE UseInv'
    OBVIOUS
  <2>1. CASE UNCHANGED HeapUse!heapVars
    BY <2>1 DEF HeapUse!heapVars, UseInv
  <2>2. QED
    BY <2>1, InsertIndexIsRight, RemoveRootIsRight, ZeroMoves, SameOrder DEF HeapUse!Next
<1>3. QED
  BY <1>1, <1>2, PTL DEF HeapUse!Spec

\* The root is the first of all elements in the order of arrival after the zero, in a
\* heap of any size, for any width of the index and wherever it wraps around, also when
\* the zero has moved since they were inserted and when an index is in the heap twice.
THEOREM TheRootComesFirst ==
    /\ OneStream => (StreamSpec => []RootComesFirst)
    /\ Span \in 0..MaxInt => (HeapUse!Spec => []RootComesFirst)
<1>1. UseInv => RootComesFirst
  <2> SUFFICES ASSUME UseInv, NEW i \in 1..Len(data)
               PROVE  Distance(relativeZero, data[1]) <= Distance(relativeZero, data[i])
    BY UseIs DEF RootComesFirst
  <2>1. data \in Seq(Ints) /\ relativeZero \in Ints /\ 1 \in 1..Len(data) /\ HeapOrdered(data, AheadOf(relativeZero))
    BY DEF UseInv
  <2>2. \A j \in Ints : AheadOf(relativeZero)[j] = Distance(relativeZero, j) /\ Distance(relativeZero, j) \in Int
    BY <2>1, DistanceIs DEF AheadOf
  <2>3. \A j \in 2..Len(data) : AheadOf(relativeZero)[data[1]] <= AheadOf(relativeZero)[data[j]]
    BY <2>1, <2>2, RootIsFirst
  <2>4. data[1] \in Ints /\ data[i] \in Ints
    BY <2>1
  <2>5. CASE i = 1
    BY <2>2, <2>4, <2>5
  <2>6. CASE i # 1
    BY <2>2, <2>3, <2>4, <2>6
  <2>7. QED
    BY <2>5, <2>6
<1>2. OneStream /\ IInv /\ StreamIsTyped /\ AheadInv => RootComesFirst
  <2> SUFFICES ASSUME OneStream, IInv, StreamIsTyped, AheadInv, NEW i \in 1..Len(data)
               PROVE  Distance(relativeZero, data[1]) <= Distance(relativeZero, data[i])
    BY DEF RootComesFirst
  <2>1. data \in Seq(Ints) /\ relativeZero \in Ints /\ lastIndex \in Ints /\ HeapOrdered(data, Ahead) /\ 1 \in 1..Len(data)
    BY DEF IInv, TypeOK, AheadInv
  <2>2. \A j \in Ints : Ahead[j] = Distance(lastIndex, j) /\ Distance(lastIndex, j) \in Int
    BY <2>1, DistanceIs DEF Ahead, AheadOf
  <2>3. \A j \in 2..Len(data) : Ahead[data[1]] <= Ahead[data[j]]
    BY <2>1, <2>2, RootIsFirst
  <2>4. data[1] \in Window(lastIndex) /\ data[i] \in Window(lastIndex)
    BY <2>1, AheadFacts
  <2>5. Distance(lastIndex, data[1]) <= Distance(lastIndex, data[i])
    <3>1. data[1] \in Ints /\ data[i] \in Ints
      BY <2>1
    <3>2. CASE i = 1
      BY <2>2, <3>1, <3>2
    <3>3. CASE i # 1
      BY <2>2, <2>3, <3>1, <3>3
    <3>4. QED
      BY <3>2, <3>3
  \* The zero is where the reader is, or one index behind.
  <2>6. ASSUME lastIndex = Wrap(relativeZero + 1), NEW a \in Window(lastIndex)
        PROVE  Distance(relativeZero, a) = Distance(lastIndex, a) + 1
    <3>1. a \in Ints /\ Distance(lastIndex, a) \in 1..Capacity /\ Distance(relativeZero, a) \in 0..(Round - 1)
      BY <2>1, DistanceIs DEF Window
    <3>2. Capacity + 2 < Round /\ Capacity \in Nat /\ Round \in Nat
      BY WindowIsSmall
    <3>3. Distance(relativeZero, a) # 0
      <4>1. ASSUME Distance(relativeZero, a) = 0 PROVE Distance(lastIndex, a) = Round - 1
        BY <2>1, <2>6, <3>1, <4>1, DistanceIs
      <4>2. QED
        BY <3>1, <3>2, <4>1
    <3>4. Distance(relativeZero, a) > 0
      BY <3>1, <3>2, <3>3
    <3>5. Distance(lastIndex, a) = Distance(relativeZero, a) - 1
      BY <2>1, <2>6, <3>1, <3>4, DistanceIs
    <3>6. QED
      BY <3>1, <3>2, <3>5
  <2>7. Distance(lastIndex, data[1]) \in Int /\ Distance(lastIndex, data[i]) \in Int
    BY <2>1, <2>2
  <2>8. lastIndex = relativeZero \/ lastIndex = Wrap(relativeZero + 1)
    BY DEF AheadInv
  <2>9. QED
    BY <2>4, <2>5, <2>6, <2>7, <2>8
<1>3. ASSUME OneStream PROVE StreamSpec => []RootComesFirst
  BY <1>2, <1>3, AheadInvariance, PTL
<1>4. ASSUME Span \in 0..MaxInt PROVE HeapUse!Spec => []RootComesFirst
  BY <1>1, <1>4, UseInvariance, PTL
<1>5. QED
  BY <1>3, <1>4

\* What a step does to the array: one call of insert or of remove, or nothing.
HeapStep ==
    \/ \E x \in Ints : \E z : data' = Insert(data, x, z)
    \/ data # <<>> /\ \E z : data' = Remove(data, z)
    \/ data' = data

Kept ==
    LET Gained(v) == Count(data', v) - Count(data, v)
    IN  IF Len(data') < Len(data)
        THEN \A i \in Ints : Gained(i) = (IF i = data[1] THEN -1 ELSE 0)
        ELSE Cardinality({i \in Ints : Gained(i) # 0}) = Len(data') - Len(data)

\* Such a step keeps the elements.
LEMMA HeapStepKeeps ==
    ASSUME data \in Seq(Ints), HeapStep
    PROVE  data' \in Seq(Ints) /\ Kept
<1> DEFINE Gained(v) == Count(data', v) - Count(data, v)
<1>1. Len(data) \in Nat /\ \A v : Count(data, v) \in Nat
  BY CountIs
<1>2. ASSUME NEW x \in Ints, NEW z, data' = Insert(data, x, z) PROVE data' \in Seq(Ints) /\ Kept
  <2>1. /\ data' \in Seq(Ints) /\ Len(data') = Len(data) + 1
        /\ \A v : Count(data', v) = Count(data, v) + (IF v = x THEN 1 ELSE 0)
    BY <1>2, InsertKeepsElements
  <2>2. \A v : Gained(v) = IF v = x THEN 1 ELSE 0
    BY <1>1, <2>1
  <2>3. {i \in Ints : Gained(i) # 0} = {x}
    BY <2>2
  <2>4. Cardinality({x}) = 1
    BY FS_Singleton
  <2>5. Len(data') - Len(data) = 1 /\ ~(Len(data') < Len(data))
    BY <1>1, <2>1
  <2>6. QED
    BY <2>1, <2>3, <2>4, <2>5 DEF Kept
<1>3. ASSUME NEW z, data # <<>>, data' = Remove(data, z) PROVE data' \in Seq(Ints) /\ Kept
  <2>1. /\ data' \in Seq(Ints) /\ Len(data') = Len(data) - 1
        /\ \A v : Count(data', v) = Count(data, v) - (IF v = data[1] THEN 1 ELSE 0)
    BY <1>3, RemoveKeepsElements
  <2>2. \A v : Gained(v) = IF v = data[1] THEN -1 ELSE 0
    BY <1>1, <2>1
  <2>3. Len(data') < Len(data)
    BY <1>1, <2>1
  <2>4. QED
    BY <2>1, <2>2, <2>3 DEF Kept
<1>4. CASE data' = data
  <2>1. \A v : Gained(v) = 0
    BY <1>1, <1>4
  <2>2. {i \in Ints : Gained(i) # 0} = {}
    BY <2>1
  <2>3. Len(data') - Len(data) = 0 /\ ~(Len(data') < Len(data))
    BY <1>1, <1>4
  <2>4. QED
    BY <1>4, <2>2, <2>3, FS_EmptySet DEF Kept
<1>5. QED
  BY <1>2, <1>3, <1>4 DEF HeapStep

\* The heap in use does nothing else, and so the array remains one of indexes.
LEMMA UseIsTyped == HeapUse!Spec => [](data \in Seq(Ints)) /\ KeepsElements
<1>1. HeapUse!Init => data \in Seq(Ints)
  BY DEF HeapUse!Init
<1>2. [HeapUse!Next]_HeapUse!heapVars => HeapStep
  BY UseIs, SameOrder DEF HeapUse!Next, HeapUse!heapVars, HeapStep
<1>3. data \in Seq(Ints) /\ [HeapUse!Next]_HeapUse!heapVars => (data \in Seq(Ints))' /\ [Kept]_heapVars
  BY <1>2, HeapStepKeeps
<1>4. QED
  BY <1>1, <1>3, PTL DEF HeapUse!Spec, KeepsElements, Kept

\* Nothing is lost or duplicated while elements trickle: not in the heap in use, and not in
\* the jitter buffer, whatever indexes it is given and wherever its zero is set meanwhile.
THEOREM ElementsAreKept ==
    /\ Spec => KeepsElements
    /\ HeapUse!Spec => KeepsElements
<1>1. IInv /\ [Next]_vars => HeapStep
  <2> SUFFICES ASSUME IInv, [Next]_vars PROVE HeapStep
    OBVIOUS
  <2>1. \A t : t \in Putters \/ t \in Getters => t \in Threads
    BY DEF Threads
  <2>2. ASSUME NEW t \in Putters, NEW i \in Ints, PutCall(t, i) PROVE HeapStep
    BY <2>2 DEF PutCall, shared, HeapStep
  <2>3. ASSUME NEW t \in Putters, Put(t) PROVE HeapStep
    <3>1. CASE PutInsert(t)
      <4>1. index[t] \in Ints
        BY <2>1 DEF IInv, TypeOK
      <4>2. QED
        BY <3>1, <4>1 DEF PutInsert, HeapStep
    <3>2. CASE PutSlot(t) \/ PutLock(t) \/ PutAccept(t) \/ PutReject(t) \/ PutUnlock(t) \/ PutReturn(t)
      BY <3>2 DEF PutSlot, PutLock, Lock, PutAccept, PutReject, PutUnlock, PutReturn, shared, HeapStep
    <3>3. QED
      BY <2>3, <3>1, <3>2 DEF Put
  <2>4. ASSUME NEW t \in Getters, GetCall(t) \/ Get(t) PROVE HeapStep
    <3>1. CASE GetTake(t)
      <4>1. data # <<>>
        BY <2>1, <3>1, Margins DEF GetTake, Goto, ClaimingLabels
      <4>2. QED
        BY <3>1, <4>1 DEF GetTake, HeapStep
    <3>2. CASE GetCall(t) \/ GetToken(t) \/ GetLock(t) \/ GetWait(t) \/ GetReset(t) \/ GetUnlock(t)
      BY <3>2 DEF GetCall, GetToken, GetLock, Lock, GetWait, GetReset, GetUnlock, shared, HeapStep
    <3>3. QED
      BY <2>4, <3>1, <3>2 DEF Get
  <2>5. CASE DelayedSet \/ UNCHANGED vars
    BY <2>5 DEF DelayedSet, vars, shared, HeapStep
  <2>6. QED
    BY <2>2, <2>3, <2>4, <2>5 DEF Next
<1>2. IInv /\ [Next]_vars => [Kept]_heapVars
  <2>1. IInv => data \in Seq(Ints)
    BY DEF IInv, TypeOK
  <2>2. QED
    BY <1>1, <2>1, HeapStepKeeps
<1>3. Spec => KeepsElements
  BY <1>2, Invariance, PTL DEF Spec, KeepsElements, Kept
<1>4. QED
  BY <1>3, UseIsTyped

\* Insert and Remove, said in closed form, are what the loops of the code compute, for a
\* heap of any size, any zero, and indexes in any order: the jitter buffer may be given any.
THEOREM TheLoopsAreComputed ==
    /\ Spec => []LoopsAreComputed
    /\ HeapUse!Spec => []LoopsAreComputed
<1>1. ASSUME data \in Seq(Ints) PROVE LoopsAreComputed
  <2>1. \A i \in Ints : Insert(data, i, relativeZero) = Heapify[Len(data) + 1][Append(data, i)]
    <3>1. ASSUME NEW i \in Ints PROVE Append(data, i) \in Seq(Ints) /\ Len(data) + 1 \in Nat
      BY <1>1
    <3>2. QED
      BY <1>1, <3>1, InsertIsSifted, HeapifyIs
  <2>2. ASSUME data # <<>>
        PROVE  Remove(data, relativeZero) = TrickleDown[1][SubSeq(Swap(data, 1, Len(data)), 1, Len(data) - 1)]
    <3>1. PICK h \in Seq(Ints) : h = SubSeq(Swap(data, 1, Len(data)), 1, Len(data) - 1)
      BY <1>1, <2>2, RemoveIsTrickled
    <3>2. Remove(data, relativeZero) = Trickled(relativeZero, h, 1)
      BY <1>1, <2>2, <3>1, RemoveIsTrickled
    <3>3. TrickleDown[1][h] = Trickled(relativeZero, h, 1)
      BY TrickleDownIs
    <3>4. QED
      BY <3>1, <3>2, <3>3
  <2>3. QED
    BY <2>1, <2>2 DEF LoopsAreComputed
<1>2. TypeOK => LoopsAreComputed
  BY <1>1 DEF TypeOK
<1>3. Spec => []LoopsAreComputed
  BY <1>2, BufferIsTyped, PTL
<1>4. (data \in Seq(Ints)) => LoopsAreComputed
  BY <1>1
<1>5. HeapUse!Spec => []LoopsAreComputed
  BY <1>4, UseIsTyped, PTL
<1>6. QED
  BY <1>3, <1>5

-----------------------------------------------------------------------------
(***************************************************************************)
(* The stream of one sender is played as Playout says: every step of the   *)
(* buffer and of its sender is a step of the player, or none.              *)
(***************************************************************************)
\* An element is in an array when it is there at least once.
LEMMA HeldIsCounted ==
    ASSUME NEW heap \in Seq(Ints), NEW v
    PROVE  (\E i \in 1..Len(heap) : heap[i] = v) <=> Count(heap, v) # 0
<1> DEFINE A == {i \in 1..Len(heap) : heap[i] = v}
<1>1. IsFiniteSet(1..Len(heap)) /\ IsFiniteSet(A)
  <2>1. IsFiniteSet(1..Len(heap))
    BY FS_Interval
  <2>2. QED
    BY <2>1, FS_Subset
<1>2. Cardinality(A) = 0 <=> A = {}
  BY <1>1, FS_EmptySet
<1>3. QED
  BY <1>2 DEF Count

\* The circle of the player is that of the indexes.
LEMMA SameCircle ==
    ASSUME OneStream
    PROVE  /\ \A a \in Ints : Player!After(a) = Wrap(a + 1)
           /\ \A a, b \in Ints : Player!Behind(a, b) = Distance(a, b)
<1>1. MaxInt \in Nat \ {0} /\ Round = 2 * (MaxInt + 1)
  BY MaxIntAssumption DEF Round
<1>2. \A a \in Ints : a \in Int
  BY DEF Ints
<1>3. \A a \in Ints : Player!After(a) = Wrap(a + 1)
  BY <1>1, CircleIs DEF Player!After
<1>4. ASSUME NEW a \in Ints, NEW b \in Ints PROVE Player!Behind(a, b) = Distance(a, b)
  <2>1. Distance(a, b) = IF a <= b THEN b - a ELSE b - a + Round
    BY CircleIs
  <2>2. Player!Behind(a, b) = IF a <= b THEN b - a ELSE b - a + (MaxInt - (-MaxInt - 1) + 1)
    BY DEF Player!Behind
  <2>3. MaxInt - (-MaxInt - 1) + 1 = Round
    BY <1>1
  <2>4. QED
    BY <2>1, <2>2, <2>3
<1>5. QED
  BY <1>3, <1>4

\* What the player sees of the packets on their way, and of the listeners.
OnTheWay == {index[t] : t \in {u \in Putters : Coming(u)}}
Heard    == [g \in Getters |-> index[g]]

\* A step that moves no packet is none of the player's.
LEMMA QuietIsStutter ==
    ASSUME UNCHANGED <<data, lastIndex, next>>,
           \A g \in Getters : index'[g] = index[g],
           \A u \in Putters : (Coming(u)' <=> Coming(u)) /\ (Coming(u) => index'[u] = index[u])
    PROVE  UNCHANGED Player!vars
<1>1. OnTheWay' = OnTheWay
  <2>1. {u \in Putters : Coming(u)}' = {u \in Putters : Coming(u)}
    OBVIOUS
  <2>2. \A u \in {u \in Putters : Coming(u)} : index'[u] = index[u]
    OBVIOUS
  <2>3. QED
    BY <2>1, <2>2 DEF OnTheWay
<1>2. Heard' = Heard
  BY DEF Heard
<1>3. Elements' = Elements
  BY DEF Elements
<1>4. QED
  BY <1>1, <1>2, <1>3 DEF Player!vars, OnTheWay, Heard

\* A packet is sent, or lost.
LEMMA SenderIsSender ==
    ASSUME OneStream, IInv, StreamIsTyped, AheadInv
    PROVE  /\ Lose => Player!Lose
           /\ \A t \in Putters : Deliver(t) => Player!Send
<1>1. /\ next \in Ints /\ pc \in [Threads -> Labels] /\ index \in [Threads -> Ints]
      /\ \A u \in Putters : u \in Threads
      /\ \A g \in Getters : g \in Threads /\ g \notin Putters
  BY AheadFacts DEF OneStream, Threads
<1>2. Lose => Player!Lose
  <2> SUFFICES ASSUME Lose PROVE Player!Lose
    OBVIOUS
  <2>1. next' = Player!After(next) /\ UNCHANGED <<data, lastIndex, pc, index>>
    BY <1>1, SameCircle DEF Lose, vars, shared
  <2>2. OnTheWay' = OnTheWay /\ Elements' = Elements /\ Heard' = Heard
    BY <2>1 DEF OnTheWay, Elements, Heard, Coming
  <2>3. QED
    BY <2>1, <2>2 DEF Player!Lose, OnTheWay, Heard
<1>3. ASSUME NEW t \in Putters, Deliver(t) PROVE Player!Send
  <2>1. /\ pc[t] = "idle" /\ pc' = [pc EXCEPT ![t] = "putSlot"] /\ index' = [index EXCEPT ![t] = next]
        /\ next' = Wrap(next + 1) /\ UNCHANGED <<data, lastIndex>>
    BY <1>3 DEF Deliver, PutCall, Goto, shared
  <2>2. ~Coming(t) /\ Coming(t)' /\ index'[t] = next
    BY <1>1, <2>1 DEF Coming
  <2>3. \A u \in Putters : u = t
    BY DEF OneStream
  <2>4. OnTheWay = {} /\ OnTheWay' = {next}
    BY <2>2, <2>3 DEF OnTheWay
  <2>5. Elements' = Elements /\ Heard' = Heard
    BY <1>1, <2>1 DEF Elements, Heard
  <2>6. next' = Player!After(next)
    BY <1>1, <2>1, SameCircle
  <2>7. QED
    BY <2>1, <2>4, <2>5, <2>6 DEF Player!Send, OnTheWay, Heard
<1>4. QED
  BY <1>2, <1>3

\* A packet that comes is let in.
LEMMA InsertIsArrival ==
    ASSUME OneStream, IInv, StreamIsTyped, AheadInv, NEW t \in Putters, PutInsert(t), next' = next
    PROVE  Player!Arrive
<1>1. /\ pc \in [Threads -> Labels] /\ index \in [Threads -> Ints] /\ t \in Threads
      /\ data \in Seq(Ints) /\ lastIndex \in Ints
      /\ \A i \in Ints : Ahead[i] = Distance(lastIndex, i)
  BY AheadFacts
<1>2. PICK x \in Ints : x = index[t]
  BY <1>1
<1>3. /\ pc[t] = "putInsert" /\ pc' = [pc EXCEPT ![t] = "putUnlock"]
      /\ data' = Insert(data, x, relativeZero) /\ UNCHANGED <<index, lastIndex>>
  BY <1>2 DEF PutInsert, Goto
<1>4. Coming(t) /\ ~Coming(t)' /\ \A u \in Putters : u = t
  BY <1>1, <1>3 DEF Coming, OneStream
<1>5. OnTheWay = {x} /\ OnTheWay' = {}
  BY <1>2, <1>4 DEF OnTheWay
<1>6. Player!Behind(lastIndex, x) \in 1..Capacity
  <2>1. Ahead[x] \in 1..MaxAhead
    BY <1>2, <1>4 DEF AheadInv
  <2>2. Distance(lastIndex, x) \in 1..Capacity
    BY <1>1, <2>1, WindowIsSmall
  <2>3. QED
    BY <1>1, <2>2, SameCircle
<1>7. Elements' = Elements \cup {x}
  <2>1. data' \in Seq(Ints) /\ \A v : Count(data', v) = Count(data, v) + (IF v = x THEN 1 ELSE 0)
    BY <1>1, <1>3, InsertKeepsElements
  <2>2. \A v : Count(data, v) \in Nat
    BY <1>1, CountIs
  <2>3. \A v : v \in Elements' <=> Count(data', v) # 0
    BY <2>1, HeldIsCounted DEF Elements
  <2>4. \A v : v \in Elements <=> Count(data, v) # 0
    BY <1>1, HeldIsCounted DEF Elements
  <2>5. ASSUME NEW v PROVE v \in Elements' <=> v \in Elements \/ v = x
    <3>1. CASE v = x
      <4>1. Count(data', v) # 0
        BY <2>1, <2>2, <3>1
      <4>2. QED
        BY <2>3, <3>1, <4>1
    <3>2. CASE v # x
      <4>1. Count(data', v) = Count(data, v)
        BY <2>1, <2>2, <3>2
      <4>2. QED
        BY <2>3, <2>4, <3>2, <4>1
    <3>3. QED
      BY <3>1, <3>2
  <2>6. QED
    BY <2>5
<1>8. Heard' = Heard
  BY <1>3 DEF Heard
<1>9. QED
  BY <1>3, <1>5, <1>6, <1>7, <1>8 DEF Player!Arrive, OnTheWay, Heard

\* A get plays the nearest packet that is here, and the due one leaves.
LEMMA TakeIsPlay ==
    ASSUME OneStream, IInv, StreamIsTyped, AheadInv, AheadInv', IInv', StreamIsTyped',
           NEW t \in Getters, GetTake(t), next' = next
    PROVE  Player!Play(t)
<1>1. /\ pc \in [Threads -> Labels] /\ index \in [Threads -> Ints] /\ t \in Threads /\ t \notin Putters
      /\ data \in Seq(Ints) /\ data \in Seq(Window(lastIndex)) /\ lastIndex \in Ints
      /\ \A i \in Ints : Ahead[i] = Distance(lastIndex, i) /\ Ahead[i] \in Nat
      /\ RanksBy(Window(lastIndex), lastIndex, Ahead) /\ HeapOrdered(data, Ahead)
  BY AheadFacts DEF Threads, OneStream, AheadInv
<1>2. /\ pc[t] = "getTake" /\ pc' = [pc EXCEPT ![t] = "getReset"]
      /\ index' = [index EXCEPT ![t] = data[1]] /\ lastIndex' = Wrap(lastIndex + 1)
      /\ IF lastIndex' = data[1] THEN data' = Remove(data, lastIndex) ELSE data' = data
  BY DEF GetTake, Goto
<1>3. data # <<>> /\ Len(data) \in Nat \ {0} /\ data[1] \in Ints /\ data[1] \in Elements
  <2>1. data # <<>>
    BY <1>1, <1>2, Margins DEF ClaimingLabels
  <2>2. QED
    BY <1>1, <2>1 DEF Elements
<1>4. \A i \in Elements : Player!Behind(lastIndex, data[1]) <= Player!Behind(lastIndex, i)
  <2>1. \A i \in Window(lastIndex) : Ahead[i] \in Int
    BY <1>1 DEF Window
  <2>2. \A k \in 2..Len(data) : Ahead[data[1]] <= Ahead[data[k]]
    BY <1>1, <2>1, RootIsFirst
  <2>3. ASSUME NEW k \in 1..Len(data) PROVE data[k] \in Ints /\ Ahead[data[1]] <= Ahead[data[k]]
    <3>1. data[k] \in Ints /\ Ahead[data[1]] \in Nat
      BY <1>1, <1>3
    <3>2. k = 1 \/ k \in 2..Len(data)
      BY <1>3
    <3>3. QED
      BY <2>2, <3>1, <3>2
  <2>4. ASSUME NEW i \in Elements PROVE Player!Behind(lastIndex, data[1]) <= Player!Behind(lastIndex, i)
    <3>1. i \in Ints /\ Ahead[data[1]] <= Ahead[i]
      BY <2>3 DEF Elements
    <3>2. QED
      BY <1>1, <1>3, <3>1, SameCircle
  <2>5. QED
    BY <2>4
<1>5. lastIndex' \notin Elements'
  <2>1. lastIndex' \in Ints /\ Distance(lastIndex', lastIndex') = 0
    BY <1>1, <1>2, DistanceIs
  <2>2. Ahead'[lastIndex'] = 0
    BY <2>1 DEF Ahead, AheadOf
  <2>3. \A k \in 1..Len(data') : Ahead'[data'[k]] \in 1..MaxAhead
    BY DEF AheadInv
  <2>4. QED
    BY <2>2, <2>3, WindowIsSmall DEF Elements
<1>6. Elements' = Elements \ {lastIndex'}
  <2>1. CASE lastIndex' = data[1]
    <3>1. data' \in Seq(Ints) /\ \A v : Count(data', v) = Count(data, v) - (IF v = data[1] THEN 1 ELSE 0)
      BY <1>1, <1>2, <1>3, <2>1, RemoveKeepsElements
    <3>2. \A v : Count(data, v) \in Nat
      BY <1>1, CountIs
    <3>3. \A v : v \in Elements' <=> Count(data', v) # 0
      BY <3>1, HeldIsCounted DEF Elements
    <3>4. \A v : v \in Elements <=> Count(data, v) # 0
      BY <1>1, HeldIsCounted DEF Elements
    <3>5. ASSUME NEW v, v # lastIndex' PROVE v \in Elements' <=> v \in Elements
      <4>1. Count(data', v) = Count(data, v)
        BY <2>1, <3>1, <3>2, <3>5
      <4>2. QED
        BY <3>3, <3>4, <4>1
    <3>6. QED
      BY <1>5, <3>5
  <2>2. CASE lastIndex' # data[1]
    <3>1. Elements' = Elements
      BY <1>2, <2>2 DEF Elements
    <3>2. QED
      BY <1>5, <3>1
  <2>3. QED
    BY <2>1, <2>2
<1>7. Heard' = [Heard EXCEPT ![t] = data[1]]
  <2>1. \A g \in Getters : index'[g] = IF g = t THEN data[1] ELSE index[g]
    BY <1>1, <1>2 DEF Threads
  <2>2. QED
    BY <2>1 DEF Heard
<1>8. OnTheWay' = OnTheWay
  <2>1. \A u \in Putters : (Coming(u)' <=> Coming(u)) /\ index'[u] = index[u]
    BY <1>1, <1>2 DEF Coming, Threads
  <2>2. {u \in Putters : Coming(u)}' = {u \in Putters : Coming(u)}
    BY <2>1
  <2>3. QED
    BY <2>1, <2>2 DEF OnTheWay
<1>9. lastIndex' = Player!After(lastIndex)
  BY <1>1, <1>2, SameCircle
<1>10. QED
  BY <1>3, <1>4, <1>6, <1>7, <1>8, <1>9 DEF Player!Play, OnTheWay, Heard

\* The buffer, fed by one sender whose packets are lost but not late, does what the player
\* does: whatever its capacity, wherever its indexes wrap around, and however the receiving
\* and the playing thread take turns, each get moves on by one index and plays the first
\* packet that is there, none that came is passed over, and none is refused.
THEOREM StreamIsPlayedInOrder ==
    ASSUME OneStream PROVE StreamSpec => IsPlayout
<1>1. StreamInit => Player!Init
  <2> SUFFICES ASSUME StreamInit PROVE Player!Init
    OBVIOUS
  <2>1. /\ data = <<>> /\ lastIndex = 0 /\ next = 1
        /\ pc = [t \in Threads |-> "idle"] /\ index = [t \in Threads |-> 0]
    BY DEF StreamInit, Init
  <2>2. OnTheWay = {} /\ Elements = {} /\ Heard = [g \in Getters |-> 0]
    BY <2>1 DEF OnTheWay, Elements, Heard, Coming, Threads
  <2>3. QED
    BY <2>1, <2>2 DEF Player!Init, OnTheWay, Heard
<1>2. /\ IInv /\ StreamIsTyped /\ AheadInv
      /\ (IInv /\ StreamIsTyped /\ AheadInv)' /\ [StreamNext]_allVars
      => [Player!Next]_Player!vars
  <2> SUFFICES ASSUME IInv, StreamIsTyped, AheadInv, IInv', StreamIsTyped', AheadInv', [StreamNext]_allVars
               PROVE  [Player!Next]_Player!vars
    OBVIOUS
  <2>1. /\ \A t : t \in Putters \/ t \in Getters => t \in Threads
        /\ \A g \in Getters : g \notin Putters
        /\ \A t, u \in Putters : t = u
        /\ pc \in [Threads -> Labels] /\ index \in [Threads -> Ints]
    BY AheadFacts DEF Threads, OneStream
  <2>2. ASSUME NEW t \in Putters, Deliver(t) PROVE Player!Next
    BY <2>2, SenderIsSender DEF Player!Next
  <2>3. CASE Lose
    BY <2>3, SenderIsSender DEF Player!Next
  <2>4. ~Restart /\ \A t \in Putters : ~DeliverLate(t)
    BY DEF OneStream, AheadInv, Restart, DeliverLate
  <2>5. ASSUME NEW t \in Putters, PutStep(t) PROVE [Player!Next]_Player!vars
    <3>1. UNCHANGED next
      BY <2>5 DEF PutStep
    <3>2. CASE PutInsert(t)
      BY <3>1, <3>2, InsertIsArrival DEF Player!Next
    <3>3. CASE PutReject(t)
      <4>1. Coming(t)
        BY <3>3 DEF PutReject, Goto, Coming
      <4>2. index[t] \in Ints /\ lastIndex \in Ints /\ Ahead[index[t]] = Distance(lastIndex, index[t])
        BY <2>1, AheadFacts
      <4>3. Distance(lastIndex, index[t]) \in 1..Capacity
        BY <4>1, <4>2, WindowIsSmall DEF AheadInv
      <4>4. QED
        BY <3>3, <4>2, <4>3, AheadIsInWindow DEF PutReject
    <3>4. CASE PutSlot(t) \/ PutLock(t) \/ PutAccept(t) \/ PutUnlock(t) \/ PutReturn(t)
      <4>1. /\ UNCHANGED <<data, lastIndex, index>>
            /\ \E to \in Labels : /\ pc' = [pc EXCEPT ![t] = to]
                                  /\ Coming(t) <=> to \in {"putSlot", "putLock", "putCheck", "putInsert"}
        BY <3>4 DEF PutSlot, PutLock, PutAccept, PutUnlock, PutReturn, Lock, Goto, shared, Labels, Locking, Coming
      <4>2. Coming(t)' <=> Coming(t)
        BY <2>1, <4>1 DEF Coming
      <4>3. QED
        BY <2>1, <3>1, <4>1, <4>2, QuietIsStutter
    <3>5. QED
      BY <2>5, <3>2, <3>3, <3>4 DEF PutStep, Put
  <2>6. ASSUME NEW t \in Getters, GetCall(t) \/ Get(t), UNCHANGED streamVars PROVE [Player!Next]_Player!vars
    <3>1. UNCHANGED next
      BY <2>6 DEF streamVars
    <3>2. CASE GetTake(t)
      BY <3>1, <3>2, TakeIsPlay DEF Player!Next
    <3>3. CASE ~GetTake(t)
      <4>1. /\ UNCHANGED <<data, lastIndex, index>>
            /\ \E to \in Labels : pc' = [pc EXCEPT ![t] = to]
        BY <2>6, <3>3 DEF GetCall, Get, GetToken, GetLock, GetWait, GetReset, GetUnlock, Lock, Goto, shared, Labels,
                          Locking
      <4>2. \A u \in Putters : Coming(u)' <=> Coming(u)
        BY <2>1, <4>1 DEF Coming
      <4>3. QED
        BY <3>1, <4>1, <4>2, QuietIsStutter
    <3>4. QED
      BY <3>2, <3>3
  <2>7. CASE (DelayedSet /\ UNCHANGED streamVars) \/ UNCHANGED allVars
    <3>1. UNCHANGED <<data, lastIndex, pc, index>>
      BY <2>7 DEF DelayedSet, allVars, vars, shared
    <3>2. UNCHANGED next
      BY <2>7 DEF allVars, streamVars
    <3>3. QED
      BY <3>1, <3>2, QuietIsStutter DEF Coming
  <2>8. QED
    BY <2>2, <2>3, <2>4, <2>5, <2>6, <2>7 DEF StreamNext
<1>3. QED
  BY <1>1, <1>2, AheadInvariance, PTL DEF StreamSpec, IsPlayout, Player!Spec

=============================================================================
