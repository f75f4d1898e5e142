----------------------------- MODULE BoundedFifo -----------------------------
(***************************************************************************)
(* What a MessageQueue promises to the threads that share it: a first-in   *)
(* first-out channel with room for Capacity messages.  A message is put    *)
(* only where there is room, every message taken is the oldest one, and    *)
(* the only other way out is for the owner to throw the oldest away.       *)
(***************************************************************************)
EXTENDS Naturals, Sequences

CONSTANTS Messages,   \* the messages that can be sent
          NoMessage,  \* what a consumer has before it took any
          Consumers,  \* the threads that take them
          Capacity    \* the most messages the channel holds

VARIABLES queue,      \* the messages in the channel, oldest first
          taken       \* the message each consumer took last

vars == <<queue, taken>>

Init == queue = <<>> /\ taken = [c \in Consumers |-> NoMessage]

Put(m) ==
    /\ Len(queue) < Capacity
    /\ queue' = Append(queue, m)
    /\ UNCHANGED taken

Take(c) ==
    /\ queue # <<>>
    /\ queue' = Tail(queue)
    /\ taken' = [taken EXCEPT ![c] = Head(queue)]

Discard ==
    /\ queue # <<>>
    /\ queue' = Tail(queue)
    /\ UNCHANGED taken

Next == (\E m \in Messages : Put(m)) \/ (\E c \in Consumers : Take(c)) \/ Discard

Spec == Init /\ [][Next]_vars
=============================================================================
