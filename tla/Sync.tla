-------------------------------- MODULE Sync --------------------------------
(***************************************************************************)
(* The synchronisation objects of the kernel together: threads lock,       *)
(* signal, send and wait on any of them, sharing one link per thread.      *)
(***************************************************************************)
EXTENDS Mutex, Semaphore, MessageQueue, Event

CONSTANT Uses  \* the sets of objects that games use together (a bound)

Object == {"mutex", "semaphore", "messages", "event"}

ASSUME UsesAssumption ==
    /\ Uses \subseteq SUBSET Object
    /\ WaitQueue = {"mutex", "cond", "semaphore", "send", "receive", "event"}
    /\ MaxDepth \in Nat /\ MaxCount \in Nat

VARIABLE using  \* the objects this game uses

vars == <<threadVars, mutexVars, semaphore, messageVars, eventVars, using>>

Init ==
    /\ ThreadInit /\ MutexInit /\ SemaphoreInit /\ MessageInit /\ EventInit
    /\ using \in Uses
    \* One state of an object that is not used stands for all.
    /\ "semaphore" \notin using => semaphore = 0
    /\ "event" \notin using => mode = "ManualReset" /\ ~value

UseMutex ==
    /\ "mutex" \in using /\ MutexNext
    /\ UNCHANGED <<semaphore, messageVars, eventVars, using>>

UseSemaphore ==
    /\ "semaphore" \in using /\ SemaphoreNext
    /\ UNCHANGED <<mutexVars, messageVars, eventVars, using>>

UseMessages ==
    /\ "messages" \in using /\ MessageNext
    /\ UNCHANGED <<mutexVars, semaphore, eventVars, using>>

UseEvent ==
    /\ "event" \in using /\ EventNext
    /\ UNCHANGED <<mutexVars, semaphore, messageVars, using>>

Scheduler ==
    /\ \E t \in Thread : Dispatch(t)
    /\ UNCHANGED <<mutexVars, semaphore, messageVars, eventVars, using>>

Next == UseMutex \/ UseSemaphore \/ UseMessages \/ UseEvent \/ Scheduler

Spec == Init /\ [][Next]_vars

-----------------------------------------------------------------------------
(* Properties *)

Places == {"guest"} \cup MutexPlaces \cup SemaphorePlaces
                    \cup MessagePlaces \cup EventPlaces

\* Types of all the variables, those of the semaphore's count included.
TypeOK ==
    /\ ThreadTypeOK(Places)
    /\ MutexTypeOK /\ semaphore \in Int /\ MessageTypeOK /\ EventTypeOK
    /\ using \in Uses

\* What the objects count is what the threads hold: a mutex is locked as often
\* as its owner has locked it, and a semaphore hands out no more than it has.
CountsWhatIsHeld == MutexHeldAsLocked /\ NeverOverdrawn

\* Who is listed sleeps, once, in a list that ends where the next is appended,
\* though the queues share one link per thread; and what it waits for is not
\* there: the mutex is held, the semaphore and the messages are gone, the event
\* is not set.
ListedForAReason ==
    /\ TypeOK
    /\ ListedWaits
    /\ ListsEndAtTail
    /\ FreeMutexWakes
    /\ SignalWakes
    /\ MessageWakes
    /\ SetEventWakes

\* Nobody is forgotten but by the insertion: besides, a thread that falls asleep
\* is listed, and stays listed until it is woken, unless OSInsertThreadQueue
\* puts it before a head whose base priority is not the best, 0.  Then
\* (coreinit_threadqueue.cpp:58-66 does not move the head) it is lost.
NobodyForgotten ==
    /\ []ListedForAReason
    /\ [][\A t \in Thread : Lost(t)' =>
              \/ Lost(t)
              \/ /\ state[t] # "Waiting"
                 /\ \E q \in WaitQueue : PutBeforeHead(links, links', q, t)]_vars

=============================================================================
