----------------------------- MODULE Semaphore -----------------------------
(***************************************************************************)
(* OSSemaphore: coreinit_semaphore.cpp.                                    *)
(***************************************************************************)
EXTENDS ThreadQueue

CONSTANT MaxCount  \* signals stop at this count (a bound)

VARIABLE semaphore  \* OSSemaphore::count

SemaphorePlaces == {"wait"}

SemaphoreInit == semaphore \in 0 .. MaxCount

Empty == semaphore =< 0

\* OSWaitSemaphore, at its start or after a sleep: wait for a signal ...
WaitSleeps(t) ==
    /\ At(t, "guest") \/ At(t, "wait")
    /\ Empty
    /\ OSSleepThreadNoLock(t, "semaphore", "wait")
    /\ UNCHANGED semaphore

\* ... or decrease the semaphore.  OSTryWaitSemaphore does just this, or nothing.
OSWaitSemaphore(t) ==
    /\ At(t, "guest") \/ At(t, "wait")
    /\ ~Empty
    /\ semaphore' = semaphore - 1
    /\ Goto(t, "guest")
    /\ UNCHANGED <<state, links>>

OSSignalSemaphore(t) ==
    /\ At(t, "guest") /\ semaphore < MaxCount
    /\ semaphore' = semaphore + 1
    /\ OSWakeupThreadNoLock(t, "semaphore")
    /\ UNCHANGED pc

SemaphoreNext ==
    \E t \in Thread :
        WaitSleeps(t) \/ OSWaitSemaphore(t) \/ OSSignalSemaphore(t)

-----------------------------------------------------------------------------
(* Properties *)

\* The count never goes below zero, though a signal wakes every waiter.
NeverOverdrawn == semaphore >= 0

\* Nobody that a wake-up can reach sleeps while there is something to take.
SignalWakes == semaphore > 0 => Listed(links, "semaphore") = {}

=============================================================================
