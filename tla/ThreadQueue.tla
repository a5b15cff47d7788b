---------------------------- MODULE ThreadQueue ----------------------------
(***************************************************************************)
(* The wait queues of the kernel: coreinit_threadqueue.cpp and the         *)
(* intrusive lists of coreinit_queue.h, with what coreinit_scheduler.cpp   *)
(* does to put threads to sleep on them and to wake them.                  *)
(*                                                                         *)
(* A kernel call holds gSchedulerLock except while reschedule has taken    *)
(* its thread off the core, so it is one step up to the place where that   *)
(* can happen.  What a thread sleeps on never depends on cores: a thread   *)
(* that is Ready may be dispatched at any time, one that reschedules may   *)
(* keep its core or not (module Processor says when).                      *)
(***************************************************************************)
EXTENDS Integers, FiniteSets

CONSTANTS
    Thread,       \* the game's threads
    NoThread,     \* nullptr
    WaitQueue,    \* the OSThreadQueues
    BasePriority  \* [Thread -> Nat]: OSThread::basePriority

ASSUME ThreadQueueAssumption ==
    /\ IsFiniteSet(Thread)
    /\ NoThread \notin Thread
    /\ BasePriority \in [Thread -> Nat]

VARIABLES
    state,  \* OSThread::state
    pc,     \* the place in the kernel call a thread is in
    links   \* head and tail of every queue, next and prev of every thread

threadVars == <<state, pc, links>>

Link == Thread \cup {NoThread}

-----------------------------------------------------------------------------
(* Intrusive lists *)

EmptyLinks ==
    [head |-> [q \in WaitQueue |-> NoThread],
     tail |-> [q \in WaitQueue |-> NoThread],
     next |-> [t \in Thread |-> NoThread],
     prev |-> [t \in Thread |-> NoThread]]

\* The n-th item of queue q, counted from 0, if the list goes that far.
Item(l, q) ==
    LET nth[n \in 0 .. Cardinality(Thread)] ==
            IF n = 0 THEN l.head[q]
            ELSE IF nth[n - 1] = NoThread THEN NoThread
            ELSE l.next[nth[n - 1]]
    IN nth

\* What a loop from queue->head along link.next visits.
Listed(l, q) == {Item(l, q)[n] : n \in 0 .. Cardinality(Thread)} \ {NoThread}

\* OSThread::priority, which OSCreateThread clears and nothing sets.
priority == 0

\* The first item of the queue that is less important than a new thread.
\* The code compares its basePriority with the new thread's priority.
InsertBefore(l, q) ==
    LET after == {n \in 0 .. Cardinality(Thread) :
                    LET t == Item(l, q)[n] IN
                    t = NoThread \/ BasePriority[t] > priority}
    IN Item(l, q)[CHOOSE n \in after : \A m \in after : n =< m]

\* Mutant: what is before the place is not told of t.
MutantInsertThreadQueue(l, q, t) ==
    LET b == InsertBefore(l, q) IN
    IF l.head[q] = NoThread
    THEN [l EXCEPT !.head[q] = t, !.tail[q] = t, !.next[t] = NoThread, !.prev[t] = NoThread]
    ELSE IF b = NoThread
    THEN [l EXCEPT !.next = [@ EXCEPT ![l.tail[q]] = t, ![t] = NoThread],
                   !.prev[t] = l.tail[q],
                   !.tail[q] = t]
    ELSE [l EXCEPT !.next[t] = b, !.prev = [@ EXCEPT ![t] = l.prev[b], ![b] = t]]

\* OSInsertThreadQueue.  Before the head, only prev pointers lead to t.
OSInsertThreadQueue(l, q, t) ==
    LET b == InsertBefore(l, q) IN
    IF l.head[q] = NoThread
    THEN [head |-> [l.head EXCEPT ![q] = t],
          tail |-> [l.tail EXCEPT ![q] = t],
          next |-> [l.next EXCEPT ![t] = NoThread],
          prev |-> [l.prev EXCEPT ![t] = NoThread]]
    ELSE IF b = NoThread
    THEN [l EXCEPT !.next = [@ EXCEPT ![l.tail[q]] = t, ![t] = NoThread],
                   !.prev[t] = l.tail[q],
                   !.tail[q] = t]
    ELSE [l EXCEPT !.next = [u \in Thread |-> IF u = t THEN b
                                ELSE IF u = l.prev[b] THEN t ELSE @[u]],
                   !.prev = [@ EXCEPT ![t] = l.prev[b], ![b] = t]]

\* OSClearQueue
OSClearQueue(l, q) ==
    [head |-> [l.head EXCEPT ![q] = NoThread],
     tail |-> [l.tail EXCEPT ![q] = NoThread],
     next |-> [t \in Thread |-> IF t \in Listed(l, q) THEN NoThread ELSE l.next[t]],
     prev |-> [t \in Thread |-> IF t \in Listed(l, q) THEN NoThread ELSE l.prev[t]]]

\* OSPopFrontFromQueue of a queue that is not empty.
OSPopFrontFromQueue(l, q) ==
    LET h == l.next[l.head[q]] IN
    [l EXCEPT !.head[q] = h,
              !.tail[q] = IF @ = l.head[q] THEN NoThread ELSE @,
              !.prev = [t \in Thread |-> IF t = h THEN NoThread ELSE @[t]]]

\* OSAppendQueue
OSAppendQueue(l, q, t) ==
    IF l.tail[q] = NoThread
    THEN [l EXCEPT !.head[q] = t, !.tail[q] = t,
                   !.next[t] = NoThread, !.prev[t] = NoThread]
    ELSE [l EXCEPT !.prev[t] = l.tail[q],
                   !.next = [@ EXCEPT ![t] = NoThread, ![l.tail[q]] = t],
                   !.tail[q] = t]

\* OSEraseFromQueue follows the links of an item that is neither the head
\* nor the tail, null or not.
Erasable(l, q, t) ==
    \/ t \in {l.head[q], l.tail[q]}
    \/ l.prev[t] # NoThread /\ l.next[t] # NoThread

\* OSEraseFromQueue of an item that is Erasable.  Its own links stay.
OSEraseFromQueue(l, q, t) ==
    LET n == l.next[t]
        p == l.prev[t]
    IN IF l.head[q] = t
       THEN [l EXCEPT !.head[q] = n,
                      !.tail[q] = IF n = NoThread THEN NoThread ELSE @,
                      !.prev = IF n = NoThread THEN @ ELSE [@ EXCEPT ![n] = NoThread]]
       ELSE IF l.tail[q] = t
       THEN [l EXCEPT !.tail[q] = p,
                      !.next = IF p = NoThread THEN @ ELSE [@ EXCEPT ![p] = NoThread]]
       ELSE [l EXCEPT !.next[p] = n, !.prev[n] = p]

-----------------------------------------------------------------------------
(* Threads that sleep and wake *)

ThreadInit ==
    /\ state = [t \in Thread |-> "Running"]
    /\ pc = [t \in Thread |-> "guest"]
    /\ links = EmptyLinks

\* Thread t executes the step of its kernel call that is at place p.
At(t, p) == state[t] = "Running" /\ pc[t] = p

Goto(t, p) == pc' = [pc EXCEPT ![t] = p]

\* The states s with the threads of W woken.
Woken(s, W) == [t \in Thread |-> IF t \in W THEN "Ready" ELSE s[t]]

\* What OSRescheduleNoLock by t, which still runs, makes of the states s.
Rescheduled(s, t) == {s, [s EXCEPT ![t] = "Ready"]}

\* OSWakeupThreadNoLock(q) and OSRescheduleNoLock by t.
OSWakeupThreadNoLock(t, q) ==
    /\ state' \in Rescheduled(Woken(state, Listed(links, q)), t)
    /\ links' = OSClearQueue(links, q)

\* OSSleepThreadNoLock(q) and OSRescheduleNoLock by t; it goes on at p.
OSSleepThreadNoLock(t, q, p) ==
    /\ state' = [state EXCEPT ![t] = "Waiting"]
    /\ links' = OSInsertThreadQueue(links, q, t)
    /\ Goto(t, p)

\* A core takes thread t from the run queue.
Dispatch(t) ==
    /\ state[t] = "Ready"
    /\ state' = [state EXCEPT ![t] = "Running"]
    /\ UNCHANGED <<pc, links>>

-----------------------------------------------------------------------------
(* Properties *)

ThreadTypeOK(places) ==
    /\ state \in [Thread -> {"Running", "Ready", "Waiting"}]
    /\ pc \in [Thread -> places]
    /\ links \in [head : [WaitQueue -> Link], tail : [WaitQueue -> Link],
                  next : [Thread -> Link], prev : [Thread -> Link]]

\* Thread t sleeps where no wake-up of a queue finds it.
Lost(t) == state[t] = "Waiting" /\ \A q \in WaitQueue : t \notin Listed(links, q)

\* A step from the links l to m puts thread t before the head of queue q, a
\* thread of another priority than the best, where only prev pointers lead.
PutBeforeHead(l, m, q, t) ==
    l.head[q] # NoThread /\ BasePriority[l.head[q]] > priority /\ m.prev[l.head[q]] = t

\* Only threads that wait are in a wait queue, and in one queue only: a
\* wake-up never reaches a thread that runs or that sleeps on another object.
ListedWaits ==
    \A q \in WaitQueue : \A t \in Listed(links, q) :
        /\ state[t] = "Waiting"
        /\ \A r \in WaitQueue : t \in Listed(links, r) => r = q

\* The list of every queue ends, it ends at the tail, and a queue has a tail
\* just if it has a head: the next append goes where a wake-up will look.
ListsEndAtTail ==
    \A q \in WaitQueue :
        IF links.head[q] = NoThread THEN links.tail[q] = NoThread
        ELSE /\ links.tail[q] \in Listed(links, q)
             /\ links.next[links.tail[q]] = NoThread

=============================================================================
