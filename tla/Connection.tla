----------------------------- MODULE Connection -----------------------------
(***************************************************************************)
(* Client/TCPSocket: one direction of a connection.  Several threads share *)
(* the socket to send, one thread receives.  A message is a header (type   *)
(* and length) and as many units as its length says; the transport takes   *)
(* it and gives it back in parts, and is external.                         *)
(***************************************************************************)
EXTENDS Naturals, SequencesExt

CONSTANTS Senders, NoSender,
          Messages,
          Garbage,     \* what is received when the bytes are not those of a message
          Length,      \* units of the body of each message, at most MaxLength
          MaxLength,   \* the length read from bytes that are no header is at most this
          ShortReads   \* may a read return less than it asked for

VARIABLES mutex,      \* the socket's mutex
          sending,    \* what each sender has still to hand to the transport
          sent,       \* history: messages in the order their sending began
          wire,       \* units on their way
          closed,     \* the connection was closed
          receiving,  \* what the receiving thread does
          header,     \* the type and length it works with
          buffer,     \* its buffer, in units: a read overwrites the front
          delivered   \* the message it is about to enqueue

sendVars    == <<mutex, sending, sent>>
receiveVars == <<receiving, header, buffer, delivered>>
vars        == <<sendVars, wire, closed, receiveVars>>

Unit(m, k)  == [message |-> m, at |-> k]
Frame(m)    == [i \in 1..Length[m] + 1 |-> Unit(m, i - 1)]

Init ==
    /\ mutex = NoSender
    /\ sending = [t \in Senders |-> <<>>]
    /\ sent = <<>>
    /\ wire = <<>>
    /\ closed = FALSE
    /\ receiving = "header"
    /\ header = [type |-> Garbage, length |-> 0]
    /\ buffer = <<>>
    /\ delivered = Garbage

-----------------------------------------------------------------------------
\* Send(type, data, length): one WSASend of the whole message, under the mutex.
\* Mutant: the message is handed over without the mutex.
SendLockUnguarded(t, m) ==
    /\ sending[t] = <<>>
    /\ mutex' = t
    /\ sending' = [sending EXCEPT ![t] = Frame(m)]
    /\ sent' = Append(sent, m)
    /\ UNCHANGED <<wire, closed, receiveVars>>

SendLock(t, m) ==
    /\ mutex = NoSender
    /\ mutex' = t
    /\ sending' = [sending EXCEPT ![t] = Frame(m)]
    /\ sent' = Append(sent, m)
    /\ UNCHANGED <<wire, closed, receiveVars>>

SendPart(t) ==
    /\ sending[t] # <<>> /\ ~closed
    /\ wire' = Append(wire, Head(sending[t]))
    /\ sending' = [sending EXCEPT ![t] = Tail(@)]
    /\ UNCHANGED <<mutex, sent, closed, receiveVars>>

\* The mutex is released whether WSASend fails or not.
SendUnlock(t) ==
    /\ mutex = t /\ (sending[t] = <<>> \/ closed)
    /\ mutex' = NoSender
    /\ sending' = [sending EXCEPT ![t] = <<>>]
    /\ UNCHANGED <<sent, wire, closed, receiveVars>>

Send(t) == SendPart(t) \/ SendUnlock(t)

Close ==
    /\ ~closed
    /\ closed' = TRUE
    /\ UNCHANGED <<sendVars, wire, receiveVars>>

-----------------------------------------------------------------------------
\* WSARecv waits for data and returns what there is, up to n; when the connection
\* is closed it returns what is left, and then nothing, at once.
Sizes(n) ==
    {k \in 0..n : /\ k <= Len(wire)
                  /\ \/ k = n
                     \/ ShortReads /\ k > 0
                     \/ closed /\ k = Len(wire)}

Receive(k) ==
    /\ wire' = SubSeq(wire, k + 1, Len(wire))
    /\ buffer' = SubSeq(wire, 1, k) \o SubSeq(buffer, k + 1, Len(buffer))
    /\ UNCHANGED <<sendVars, closed>>

\* The header is whatever the buffer begins with.
ReadHeader ==
    /\ receiving = "header"
    /\ receiving' = "body"
    /\ \E k \in Sizes(1) : Receive(k)
    /\ IF buffer' # <<>> /\ buffer'[1].at = 0
       THEN header' = [type |-> buffer'[1].message, length |-> Length[buffer'[1].message]]
       ELSE \E n \in 0..MaxLength : header' = [type |-> Garbage, length |-> n]
    /\ UNCHANGED delivered

Body(m) == Tail(Frame(m))

\* Mutant: the body is taken for one unit less than its length.
ReadBodyShort ==
    /\ receiving = "body"
    /\ receiving' = "enqueue"
    /\ \E k \in Sizes(IF header.length > 0 THEN header.length - 1 ELSE 0) : Receive(k)
    /\ delivered' = header.type
    /\ UNCHANGED header

ReadBody ==
    /\ receiving = "body"
    /\ receiving' = "enqueue"
    /\ \E k \in Sizes(header.length) : Receive(k)
    /\ delivered' = IF header.type # Garbage /\ IsPrefix(Body(header.type), buffer')
                    THEN header.type ELSE Garbage
    /\ UNCHANGED header

\* enqueue has returned.
ReadNext ==
    /\ receiving = "enqueue"
    /\ receiving' = "header"
    /\ UNCHANGED <<sendVars, wire, closed, header, buffer, delivered>>
=============================================================================
