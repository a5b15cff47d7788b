---------------------------- MODULE MessageQueue ----------------------------
(***************************************************************************)
(* OSMessageQueue: coreinit_messagequeue.cpp.  A call without the blocking *)
(* flag does what a blocking call does when it need not sleep, or nothing. *)
(***************************************************************************)
EXTENDS ThreadQueue, Sequences

CONSTANTS Message, NoMessage, Size

ASSUME SizeAssumption == Size \in Nat \ {0}

VARIABLES
    messages, first, used,  \* the ring
    sending,                \* per thread, the message it sends or jams
    delivered               \* the last message handed to a receiver

messageVars == <<messages, first, used, sending, delivered>>

MessagePlaces == {"send", "jam", "receive"}

MessageInit ==
    /\ messages = [i \in 0 .. Size - 1 |-> NoMessage]
    /\ first = 0
    /\ used = 0
    /\ sending = [t \in Thread |-> NoMessage]
    /\ delivered = NoMessage

Full == used = Size

\* Thread t is at the start of a call to send m at place p, or slept in it.
Sends(t, m, p) == At(t, "guest") \/ (At(t, p) /\ sending[t] = m)

\* OSSendMessage and OSJamMessage: wait for space in the message queue.
SendSleeps(t, m, p) ==
    /\ Sends(t, m, p)
    /\ Full
    /\ OSSleepThreadNoLock(t, "send", p)
    /\ sending' = [sending EXCEPT ![t] = m]
    /\ UNCHANGED <<messages, first, used, delivered>>

\* Put m at place i of the ring and wake up the receivers.
Put(t, m, i) ==
    /\ messages' = [messages EXCEPT ![i] = m]
    /\ used' = used + 1
    /\ sending' = [sending EXCEPT ![t] = NoMessage]
    /\ OSWakeupThreadNoLock(t, "receive")
    /\ Goto(t, "guest")
    /\ UNCHANGED delivered

OSSendMessage(t, m) ==
    /\ Sends(t, m, "send")
    /\ ~Full
    /\ Put(t, m, (first + used) % Size)
    /\ UNCHANGED first

\* Mutant: no wrap-around at the start of the ring.
NotWrapped == IF first = 0 THEN 0 ELSE first - 1

BeforeFirst == IF first = 0 THEN Size - 1 ELSE first - 1

OSJamMessage(t, m) ==
    /\ Sends(t, m, "jam")
    /\ ~Full
    /\ first' = BeforeFirst
    /\ Put(t, m, BeforeFirst)

\* OSReceiveMessage: wait for a message to appear in the queue ...
ReceiveSleeps(t) ==
    /\ At(t, "guest") \/ At(t, "receive")
    /\ used = 0
    /\ OSSleepThreadNoLock(t, "receive", "receive")
    /\ UNCHANGED messageVars

\* ... and take it.
OSReceiveMessage(t) ==
    /\ At(t, "guest") \/ At(t, "receive")
    /\ used # 0
    /\ delivered' = messages[first]
    /\ first' = (first + 1) % Size
    /\ used' = used - 1
    /\ OSWakeupThreadNoLock(t, "send")
    /\ Goto(t, "guest")
    /\ UNCHANGED <<messages, sending>>

OSPeekMessage(t) ==
    /\ At(t, "guest")
    /\ used # 0
    /\ delivered' = messages[first]
    /\ UNCHANGED <<threadVars, messages, first, used, sending>>

MessageNext ==
    \E t \in Thread :
        \/ \E m \in Message :
              \/ SendSleeps(t, m, "send") \/ SendSleeps(t, m, "jam")
              \/ OSSendMessage(t, m) \/ OSJamMessage(t, m)
        \/ ReceiveSleeps(t) \/ OSReceiveMessage(t) \/ OSPeekMessage(t)

-----------------------------------------------------------------------------
(* Properties *)

MessageTypeOK ==
    /\ messages \in [0 .. Size - 1 -> Message \cup {NoMessage}]
    /\ first \in 0 .. Size - 1
    /\ used \in 0 .. Size
    /\ sending \in [Thread -> Message \cup {NoMessage}]
    /\ delivered \in Message \cup {NoMessage}

Deque == INSTANCE BoundedDeque
            WITH deque <- [i \in 1 .. used |-> messages[(first + i - 1) % Size]]

\* The ring with its herd of senders and receivers is a bounded queue: what is
\* received is what was sent, once each, in order, with jams ahead.
ImplementsDeque == Deque!DequeSpec

\* Nobody that a wake-up can reach sleeps for a message that is there or for
\* space that is there.
MessageWakes ==
    /\ used # 0 => Listed(links, "receive") = {}
    /\ used # Size => Listed(links, "send") = {}

=============================================================================
