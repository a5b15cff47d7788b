------------------------------- MODULE Mutex -------------------------------
(***************************************************************************)
(* OSMutex and OSCondition: coreinit_mutex.cpp, for one mutex and one      *)
(* condition used with it.  The list of the mutexes a thread owns is only  *)
(* ever written, so it is left out, and cancelState stays 0.               *)
(***************************************************************************)
EXTENDS ThreadQueue

CONSTANT MaxDepth  \* how often a thread locks the mutex (a bound)

VARIABLES
    owner, count,  \* of the mutex
    mutexCount,    \* per thread, the local of OSWaitCond
    depth          \* per thread, the locks it made and did not undo

mutexVars == <<owner, count, mutexCount, depth>>

MutexPlaces == {"lock", "condSleep", "condLock"}

MutexInit ==
    /\ owner = NoThread
    /\ count = 0
    /\ mutexCount = [t \in Thread |-> 0]
    /\ depth = [t \in Thread |-> 0]

OwnedByOther(t) == owner \notin {NoThread, t}

\* OSLockMutex, at its start or after a sleep: wait for the owner to unlock ...
LockSleeps(t) ==
    /\ At(t, "guest") \/ At(t, "lock")
    /\ OwnedByOther(t)
    /\ OSSleepThreadNoLock(t, "mutex", "lock")
    /\ UNCHANGED mutexVars

\* ... or take the mutex.  OSTryLockMutex does just this, or nothing.
OSLockMutex(t) ==
    /\ (At(t, "guest") /\ depth[t] < MaxDepth) \/ At(t, "lock")
    /\ ~OwnedByOther(t)
    /\ owner' = t
    /\ count' = count + 1
    /\ depth' = [depth EXCEPT ![t] = @ + 1]
    /\ Goto(t, "guest")
    /\ UNCHANGED <<state, links, mutexCount>>

\* OSUnlockMutex by the owner, which does not unlock it completely ...
UnlockOnce(t) ==
    /\ At(t, "guest") /\ owner = t /\ count > 1
    /\ count' = count - 1
    /\ depth' = [depth EXCEPT ![t] = @ - 1]
    /\ UNCHANGED <<threadVars, owner, mutexCount>>

\* ... or does: wake up the threads trying to lock the mutex.
OSUnlockMutex(t) ==
    /\ At(t, "guest") /\ owner = t /\ count = 1
    /\ count' = 0
    /\ owner' = NoThread
    /\ depth' = [depth EXCEPT ![t] = @ - 1]
    /\ OSWakeupThreadNoLock(t, "mutex")
    /\ UNCHANGED <<pc, mutexCount>>

\* OSWaitCond by the owner: force an unlock, which reschedules, so the thread
\* either goes straight to sleep or loses its core and the lock first.
OSWaitCond(t) ==
    /\ At(t, "guest") /\ owner = t
    /\ mutexCount' = [mutexCount EXCEPT ![t] = count]
    /\ count' = 0
    /\ owner' = NoThread
    /\ LET woken == Woken(state, Listed(links, "mutex"))
           cleared == OSClearQueue(links, "mutex")
       IN \/ /\ state' = [woken EXCEPT ![t] = "Waiting"]
             /\ links' = OSInsertThreadQueue(cleared, "cond", t)
             /\ Goto(t, "condLock")
          \/ /\ state' = [woken EXCEPT ![t] = "Ready"]
             /\ links' = cleared
             /\ Goto(t, "condSleep")
    /\ UNCHANGED depth

\* Back on a core, the thread sleeps on the condition.
CondSleep(t) ==
    /\ At(t, "condSleep")
    /\ OSSleepThreadNoLock(t, "cond", "condLock")
    /\ UNCHANGED mutexVars

\* After a signal: wait for the mutex ...
CondLockSleeps(t) ==
    /\ At(t, "condLock")
    /\ OwnedByOther(t)
    /\ OSSleepThreadNoLock(t, "mutex", "condLock")
    /\ UNCHANGED mutexVars

\* Mutant: the lock is not restored to what it was.
LockedOnce(t) == count' = count + 1

RestoredCount(t) == count' = mutexCount[t]

\* ... and restore the lock.
CondLock(t) ==
    /\ At(t, "condLock")
    /\ ~OwnedByOther(t)
    /\ owner' = t
    /\ RestoredCount(t)
    /\ Goto(t, "guest")
    /\ UNCHANGED <<state, links, mutexCount, depth>>

\* OSSignalCond does not reschedule.
OSSignalCond(t) ==
    /\ At(t, "guest")
    /\ state' = Woken(state, Listed(links, "cond"))
    /\ links' = OSClearQueue(links, "cond")
    /\ UNCHANGED <<pc, mutexVars>>

MutexNext ==
    \E t \in Thread :
        \/ LockSleeps(t) \/ OSLockMutex(t) \/ UnlockOnce(t) \/ OSUnlockMutex(t)
        \/ OSWaitCond(t) \/ CondSleep(t) \/ CondLockSleeps(t) \/ CondLock(t)
        \/ OSSignalCond(t)

-----------------------------------------------------------------------------
(* Properties *)

MutexTypeOK ==
    /\ owner \in Link /\ count \in 0 .. MaxDepth
    /\ mutexCount \in [Thread -> 0 .. MaxDepth]
    /\ depth \in [Thread -> 0 .. MaxDepth]

InCond(t) == pc[t] \in {"condSleep", "condLock"}

\* What a thread holds is what it asked for: it owns the mutex just while it
\* has locks to undo, as often as it locked it, before and after a wait on the
\* condition, and never while it waits there.
MutexHeldAsLocked ==
    \A t \in Thread :
        IF owner = t THEN count = depth[t] /\ depth[t] > 0 /\ ~InCond(t)
        ELSE InCond(t) \/ depth[t] = 0

\* Nobody that a wake-up can reach sleeps on a mutex that is free.
FreeMutexWakes == owner = NoThread => Listed(links, "mutex") = {}

=============================================================================
