------------------------------ MODULE Playout ------------------------------
(***************************************************************************)
(* What a jitter buffer promises to those that listen, of one stream that  *)
(* is neither repeated nor late: time goes on by one packet at each get,   *)
(* which plays the first of the packets that are here, the due one itself  *)
(* if it came and one that pads for it if it did not.  Every packet that   *)
(* comes is let in, and it leaves when it is due and at no other time.     *)
(* There is no heap, no relative zero, and no rejection.                   *)
(***************************************************************************)
EXTENDS Integers

CONSTANTS First, Last,  \* the range of the indexes, which are a circle
          Capacity,     \* how far ahead of the time a packet may come
          Listeners     \* the threads that get

VARIABLES next,         \* the packet to be sent next
          coming,       \* the packets on their way
          here,         \* those that came and are still to be played
          due,          \* the time: the index that was played, or padded, last
          heard         \* what each listener got last

vars == <<next, coming, here, due, heard>>

After(i) == IF i = Last THEN First ELSE i + 1

\* How many packets after one another one follows.
Behind(from, i) == IF from <= i THEN i - from ELSE i - from + (Last - First + 1)

Init ==
    /\ next = 1 /\ due = 0
    /\ coming = {} /\ here = {}
    /\ heard = [g \in Listeners |-> 0]

Send ==
    /\ next' = After(next)
    /\ coming' = coming \cup {next}
    /\ UNCHANGED <<here, due, heard>>

Lose ==
    /\ next' = After(next)
    /\ UNCHANGED <<coming, here, due, heard>>

Arrive ==
    \E i \in coming :
        /\ Behind(due, i) \in 1..Capacity
        /\ coming' = coming \ {i}
        /\ here' = here \cup {i}
        /\ UNCHANGED <<next, due, heard>>

Play(g) ==
    \E i \in here :
        /\ \A j \in here : Behind(due, i) <= Behind(due, j)
        /\ heard' = [heard EXCEPT ![g] = i]
        /\ due' = After(due)
        /\ here' = here \ {due'}
        /\ UNCHANGED <<next, coming>>

Next == Send \/ Lose \/ Arrive \/ \E g \in Listeners : Play(g)

Spec == Init /\ [][Next]_vars
=============================================================================
