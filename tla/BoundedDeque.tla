---------------------------- MODULE BoundedDeque ----------------------------
(***************************************************************************)
(* What a message queue promises: sends append, jams prepend, receives     *)
(* take the first message, and there are never more than Size messages.    *)
(***************************************************************************)
EXTENDS Integers, Sequences

CONSTANTS Message, NoMessage, Size

VARIABLES
    deque,     \* the messages that were sent and not received
    delivered  \* the last message that was received or peeked at

DequeInit == deque = <<>> /\ delivered = NoMessage

Send(m) ==
    /\ Len(deque) < Size
    /\ deque' = Append(deque, m)
    /\ UNCHANGED delivered

Jam(m) ==
    /\ Len(deque) < Size
    /\ deque' = <<m>> \o deque
    /\ UNCHANGED delivered

Receive ==
    /\ deque # <<>>
    /\ delivered' = Head(deque)
    /\ deque' = Tail(deque)

Peek ==
    /\ deque # <<>>
    /\ delivered' = Head(deque)
    /\ UNCHANGED deque

DequeNext == (\E m \in Message : Send(m) \/ Jam(m)) \/ Receive \/ Peek

DequeSpec == DequeInit /\ [][DequeNext]_<<deque, delivered>>

=============================================================================
