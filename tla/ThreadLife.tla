----------------------------- MODULE ThreadLife -----------------------------
(***************************************************************************)
(* The life of a thread: coreinit_thread.cpp, with what coreinit_scheduler *)
(* does to suspend, resume and cancel.  Every thread has a queue of those  *)
(* that join it and one of those that wait until it is suspended.          *)
(***************************************************************************)
EXTENDS ThreadQueue

CONSTANTS Main,          \* the thread that runs first
          JoinQueue,     \* [Thread -> WaitQueue]: OSThread::joinQueue
          SuspendQueue,  \* [Thread -> WaitQueue]: OSThread::suspendQueue
          MaxSuspended   \* bound on suspend counters

\* A queue is the member of one thread, and the game's is none of them.
ASSUME LifeAssumption ==
    /\ Main \in Thread
    /\ JoinQueue \in [Thread -> WaitQueue] /\ SuspendQueue \in [Thread -> WaitQueue]
    /\ \A t, u \in Thread :
        /\ JoinQueue[t] # SuspendQueue[u] /\ "game" \notin {JoinQueue[t], SuspendQueue[u]}
        /\ JoinQueue[t] = JoinQueue[u] \/ SuspendQueue[t] = SuspendQueue[u] => t = u
    /\ MaxSuspended \in Nat

VARIABLES
    suspendCounter, needSuspend, requestFlag, cancelState, suspendResult,
    fiber,     \* the threads that have a fiber
    detached,  \* the threads with OSThreadAttributes::Detached
    ended,     \* the threads that have exited since they were created
    target     \* the thread that each thread joins, suspends or cancels

lifeVars == <<suspendCounter, needSuspend, requestFlag, cancelState,
              suspendResult, fiber, detached, ended, target>>

LifeQueue == {JoinQueue[t] : t \in Thread} \cup {SuspendQueue[t] : t \in Thread}
             \cup {"game"}

\* OSCreateThread of all threads but Main, which the loader has started.
Created == [t \in Thread |-> IF t = Main THEN "Running" ELSE "Ready"]

LifeInit ==
    /\ suspendCounter = [t \in Thread |-> IF state[t] = "Running" THEN 0 ELSE 1]
    /\ fiber = {t \in Thread : state[t] = "Running"}
    /\ needSuspend = [t \in Thread |-> 0]
    /\ requestFlag = [t \in Thread |-> "None"]
    /\ cancelState = [t \in Thread |-> FALSE]
    /\ suspendResult = [t \in Thread |-> 0]
    /\ detached = {}
    /\ ended = {}
    /\ target = [t \in Thread |-> NoThread]

-----------------------------------------------------------------------------
(* The scheduler's part *)

\* Processor::peekNextFiberNoLock: who is Ready, has a fiber and is not
\* suspended is taken by a core.
DispatchThread(t) ==
    /\ state[t] = "Ready" /\ t \in fiber /\ suspendCounter[t] = 0
    /\ Dispatch(t)
    /\ UNCHANGED lifeVars

\* OSResumeThreadNoLock: at 0 a Ready thread is queued, on a fiber that is
\* created if it has none.  Below 0, the counter is put right and that is all.
OSResumeThreadNoLock(u, n) ==
    /\ suspendCounter' = [suspendCounter EXCEPT ![u] = IF @ > n THEN @ - n ELSE 0]
    /\ fiber' = IF suspendCounter[u] = n /\ state[u] = "Ready"
                THEN fiber \cup {u} ELSE fiber

\* Mutant: the suspension is forgotten by those who asked for it.
SuspendAndForget(t, needed) ==
    /\ requestFlag' = [requestFlag EXCEPT ![t] = "None"]
    /\ suspendCounter' = [suspendCounter EXCEPT ![t] = @ + needed]
    /\ needSuspend' = [needSuspend EXCEPT ![t] = 0]
    /\ state' = [state EXCEPT ![t] = "Ready"]
    /\ UNCHANGED links

\* OSSuspendThreadNoLock of the running thread, and the reschedule after it.
OSSuspendThreadNoLock(t, needed) ==
    /\ requestFlag' = [requestFlag EXCEPT ![t] = "None"]
    /\ suspendCounter' = [suspendCounter EXCEPT ![t] = @ + needed]
    /\ needSuspend' = [needSuspend EXCEPT ![t] = 0]
    /\ state' = [Woken(state, Listed(links, SuspendQueue[t])) EXCEPT ![t] = "Ready"]
    /\ links' = OSClearQueue(links, SuspendQueue[t])

\* OSWakeupThreadWaitForSuspensionNoLock: the fibers of those who wait for
\* u's suspension are queued, but the threads are not made Ready.
Refused(u) ==
    suspendResult' = [w \in Thread |->
        IF w \in Listed(links, SuspendQueue[u]) THEN -1 ELSE suspendResult[w]]

-----------------------------------------------------------------------------
(* Kernel calls of thread t, on thread u *)

\* OSRescheduleNoLock of a caller that may lose its core.
MayReschedule(t) == state' \in Rescheduled(state, t)

Terminated(u) == state[u] \in {"None", "Moribund"}

\* OSCreateThread of a thread that has ended and that no call is about; one
\* without an entry point stays None.
OSCreateThread(t, u) ==
    /\ At(t, "guest") /\ Terminated(u)
    /\ \A w \in Thread : target[w] # u
    /\ \E s \in {"Ready", "None"} : state' = [state EXCEPT ![u] = s]
    /\ suspendCounter' = [suspendCounter EXCEPT ![u] = 1]
    /\ needSuspend' = [needSuspend EXCEPT ![u] = 0]
    /\ requestFlag' = [requestFlag EXCEPT ![u] = "None"]
    /\ cancelState' = [cancelState EXCEPT ![u] = FALSE]
    /\ suspendResult' = [suspendResult EXCEPT ![u] = 0]
    /\ \E D \in {{}, {u}} : detached' = (detached \ {u}) \cup D
    /\ ended' = ended \ {u}
    /\ UNCHANGED <<pc, links, fiber, target>>

\* OSRunThread: what InitialiseThreadState sets, cancelState not among it,
\* and OSResumeThreadNoLock.  (It returns FALSE in any case.)
OSRunThread(t, u) ==
    /\ At(t, "guest") /\ Terminated(u)
    /\ state' \in Rescheduled([state EXCEPT ![u] = "Ready"], t)
    /\ requestFlag' = [requestFlag EXCEPT ![u] = "None"]
    /\ needSuspend' = [needSuspend EXCEPT ![u] = 0]
    /\ suspendCounter' = [suspendCounter EXCEPT ![u] = 0]
    /\ fiber' = fiber \cup {u}
    /\ UNCHANGED <<pc, links, cancelState, suspendResult, detached, ended, target>>

\* OSResumeThread
OSResumeThread(t, u) ==
    /\ At(t, "guest")
    /\ OSResumeThreadNoLock(u, 1)
    /\ IF suspendCounter[u] =< 1 THEN MayReschedule(t) ELSE UNCHANGED state
    /\ UNCHANGED <<pc, links, needSuspend, requestFlag, cancelState,
                   suspendResult, detached, ended, target>>

\* OSContinueThread
OSContinueThread(t, u) ==
    /\ At(t, "guest")
    /\ OSResumeThreadNoLock(u, suspendCounter[u])
    /\ MayReschedule(t)
    /\ UNCHANGED <<pc, links, needSuspend, requestFlag, cancelState,
                   suspendResult, detached, ended, target>>

\* What OSSuspendThread refuses with -1, and so leaves alone.
MaySuspend(u) == ~Terminated(u) /\ requestFlag[u] # "Cancel"

\* OSSuspendThread of the caller.
SuspendSelf(t) ==
    /\ At(t, "guest") /\ MaySuspend(t) /\ ~cancelState[t]
    /\ needSuspend[t] < MaxSuspended
    /\ OSSuspendThreadNoLock(t, needSuspend[t] + 1)
    /\ UNCHANGED <<pc, cancelState, suspendResult, fiber, detached, ended, target>>

\* OSSuspendThread of a thread that is suspended already ...
SuspendAgain(t, u) ==
    /\ At(t, "guest") /\ t # u /\ MaySuspend(u)
    /\ suspendCounter[u] \in 1 .. MaxSuspended - 1
    /\ suspendCounter' = [suspendCounter EXCEPT ![u] = @ + 1]
    /\ UNCHANGED <<threadVars, needSuspend, requestFlag, cancelState,
                   suspendResult, fiber, detached, ended, target>>

\* ... and of one that is not: it is asked, and the caller waits.
AskToSuspend(t, u) ==
    /\ At(t, "guest") /\ t # u /\ MaySuspend(u)
    /\ suspendCounter[u] = 0 /\ needSuspend[u] < MaxSuspended
    /\ needSuspend' = [needSuspend EXCEPT ![u] = @ + 1]
    /\ requestFlag' = [requestFlag EXCEPT ![u] = "Suspend"]
    /\ target' = [target EXCEPT ![t] = u]
    /\ OSSleepThreadNoLock(t, SuspendQueue[u], "suspending")
    /\ UNCHANGED <<suspendCounter, cancelState, suspendResult, fiber,
                   detached, ended>>

\* The end of a call that slept.  What woke it is not looked at.
CallReturns(t) ==
    /\ \E p \in {"suspending", "joining", "asleep"} : At(t, p)
    /\ Goto(t, "guest")
    /\ target' = [target EXCEPT ![t] = NoThread]
    /\ UNCHANGED <<state, links, suspendCounter, needSuspend, requestFlag,
                   cancelState, suspendResult, fiber, detached, ended>>

\* Mutant: nobody tells those who join.
ExitSilently(t) ==
    /\ state' = [state EXCEPT ![t] = IF t \in detached THEN "None" ELSE "Moribund"]
    /\ links' = OSClearQueue(links, SuspendQueue[t])
    /\ Refused(t)
    /\ fiber' = fiber \ {t}
    /\ ended' = ended \cup {t}
    /\ pc' = [pc EXCEPT ![t] = "guest"]
    /\ target' = [target EXCEPT ![t] = NoThread]

\* OSExitThread: those who join wake up, those who wait for a suspension do
\* not, whatever suspendResult tells them.
OSExitThread(t) ==
    LET j == JoinQueue[t] IN
    /\ state' = [Woken(state, Listed(links, j))
                   EXCEPT ![t] = IF t \in detached THEN "None" ELSE "Moribund"]
    /\ links' = OSClearQueue(OSClearQueue(links, j), SuspendQueue[t])
    /\ Refused(t)
    /\ fiber' = fiber \ {t}
    /\ ended' = ended \cup {t}
    /\ pc' = [pc EXCEPT ![t] = "guest"]
    /\ target' = [target EXCEPT ![t] = NoThread]

\* The guest's function returns, or it calls OSExitThread.
ThreadExits(t) ==
    /\ At(t, "guest")
    /\ OSExitThread(t)
    /\ UNCHANGED <<suspendCounter, needSuspend, requestFlag, cancelState, detached>>

\* OSJoinThread, of a thread that is neither detached nor Moribund: those
\* are not waited for.
OSJoinThread(t, u) ==
    /\ At(t, "guest") /\ t # u
    /\ u \notin detached /\ state[u] # "Moribund"
    /\ target' = [target EXCEPT ![t] = u]
    /\ OSSleepThreadNoLock(t, JoinQueue[u], "joining")
    /\ UNCHANGED <<suspendCounter, needSuspend, requestFlag, cancelState,
                   suspendResult, fiber, detached, ended>>

OSDetachThread(t, u) ==
    /\ At(t, "guest")
    /\ detached' = detached \cup {u}
    /\ UNCHANGED <<threadVars, suspendCounter, needSuspend, requestFlag,
                   cancelState, suspendResult, fiber, ended, target>>

OSSetThreadCancelState(t) ==
    /\ At(t, "guest")
    /\ cancelState' = [cancelState EXCEPT ![t] = ~@]
    /\ UNCHANGED <<threadVars, suspendCounter, needSuspend, requestFlag,
                   suspendResult, fiber, detached, ended, target>>

\* OSTestThreadCancel, which every acquisition of a spin lock calls, with a
\* request to suspend ...
TestSuspend(t) ==
    /\ At(t, "guest") /\ cancelState[t] /\ requestFlag[t] = "Suspend"
    /\ OSSuspendThreadNoLock(t, needSuspend[t])
    /\ UNCHANGED <<pc, cancelState, suspendResult, fiber, detached, ended, target>>

\* ... and with one to end.
TestCancel(t) ==
    /\ At(t, "guest") /\ cancelState[t] /\ requestFlag[t] = "Cancel"
    /\ OSExitThread(t)
    /\ UNCHANGED <<suspendCounter, needSuspend, requestFlag, cancelState, detached>>

\* The end of OSCancelThread.  A thread that cancels itself exits.
RequestCancel(t, u) ==
    /\ suspendCounter' = [suspendCounter EXCEPT ![u] = 0]
    /\ needSuspend' = [needSuspend EXCEPT ![u] = 0]
    /\ requestFlag' = [requestFlag EXCEPT ![u] = "Cancel"]
    /\ IF t = u THEN OSExitThread(t)
       ELSE /\ target' = [target EXCEPT ![t] = NoThread]
            /\ pc' = [pc EXCEPT ![t] = "guest"]
            /\ UNCHANGED <<state, links, suspendResult, fiber, ended>>
    /\ UNCHANGED <<cancelState, detached>>

\* What makes OSCancelThread resume and reschedule.
Resumes(u) == suspendCounter[u] # 0 /\ ~cancelState[u]
Reschedules(u) == requestFlag[u] = "Suspend" \/ Resumes(u)

\* OSCancelThread that need not reschedule ...
OSCancelThread(t, u) ==
    /\ At(t, "guest") /\ ~Reschedules(u)
    /\ RequestCancel(t, u)

\* ... and that does: others may run before the request is made.
CancelReschedules(t, u) ==
    /\ At(t, "guest") /\ Reschedules(u)
    /\ IF requestFlag[u] = "Suspend"
       THEN Refused(u) /\ links' = OSClearQueue(links, SuspendQueue[u])
       ELSE UNCHANGED <<suspendResult, links>>
    /\ IF Resumes(u)
       THEN OSResumeThreadNoLock(u, suspendCounter[u])
       ELSE UNCHANGED <<suspendCounter, fiber>>
    /\ state' = [state EXCEPT ![t] = "Ready"]
    /\ pc' = [pc EXCEPT ![t] = "cancelling"]
    /\ target' = [target EXCEPT ![t] = u]
    /\ UNCHANGED <<needSuspend, requestFlag, cancelState, detached, ended>>

CancelEnds(t) ==
    /\ At(t, "cancelling")
    /\ RequestCancel(t, target[t])

\* OSSleepThread and OSWakeupThread on a queue of the game.
OSSleepThread(t) ==
    /\ At(t, "guest")
    /\ OSSleepThreadNoLock(t, "game", "asleep")
    /\ UNCHANGED lifeVars

OSWakeupThread(t) ==
    /\ At(t, "guest") /\ Listed(links, "game") # {}
    /\ state' = Woken(state, Listed(links, "game"))
    /\ links' = OSClearQueue(links, "game")
    /\ UNCHANGED <<pc, lifeVars>>

\* What every thread does.
RunNext ==
    \E t \in Thread :
        \/ DispatchThread(t) \/ CallReturns(t) \/ ThreadExits(t)
        \/ \E u \in Thread : OSResumeThread(t, u)

\* The calls that suspend threads.
SuspendNext ==
    \E t \in Thread :
        \/ SuspendSelf(t) \/ TestSuspend(t) \/ OSSetThreadCancelState(t)
        \/ \E u \in Thread :
            \/ OSContinueThread(t, u) \/ SuspendAgain(t, u) \/ AskToSuspend(t, u)

\* The calls that cancel them.
CancelNext ==
    \E t \in Thread :
        \/ TestCancel(t) \/ CancelEnds(t)
        \/ \E u \in Thread : OSCancelThread(t, u) \/ CancelReschedules(t, u)

\* The calls that start them, again or anew, and wait for their end.
JoinNext ==
    \E t, u \in Thread :
        \/ OSCreateThread(t, u) \/ OSRunThread(t, u)
        \/ OSJoinThread(t, u) \/ OSDetachThread(t, u)

SleepNext == \E t \in Thread : OSSleepThread(t) \/ OSWakeupThread(t)

-----------------------------------------------------------------------------
(* Properties *)

\* A thread that executes is not suspended: a suspension takes it off its
\* core before it goes on, and none is lost by resuming or cancelling others.
RunningNotSuspended ==
    \A t \in Thread : state[t] = "Running" => suspendCounter[t] = 0 /\ t \in fiber

\* Whatever brings a suspend counter to zero, the thread has a fiber that a
\* core can take, so that it does go on.
RunnableHasFiber ==
    \A t \in Thread : state[t] = "Ready" /\ suspendCounter[t] = 0 => t \in fiber

\* Those who wait until thread u is suspended, in its queue or lost.
Suspenders(u) ==
    {t \in Thread : state[t] = "Waiting" /\ pc[t] = "suspending" /\ target[t] = u}

\* A thread counts all who are in the queue for its suspension, each of them
\* once, and nobody who does not wait for it, until it has ended or somebody
\* cancels it: its counter will be theirs to resume.  It is just their number
\* where no suspender was put before the head of the queue, and so lost.
SuspendersCounted ==
    \A u \in Thread :
        \/ Terminated(u)
        \/ \E t \in Thread : pc[t] = "cancelling" /\ target[t] = u
        \/ requestFlag[u] = "Cancel"
        \/ /\ Listed(links, SuspendQueue[u]) \subseteq Suspenders(u)
           /\ Cardinality(Listed(links, SuspendQueue[u])) =< needSuspend[u]
           /\ needSuspend[u] =< Cardinality(Suspenders(u))

\* Nobody waits to join a thread that has ended, and who was woken from a
\* join finds that it has.
JoinSeesExit ==
    \A u \in Thread :
        /\ u \in ended /\ Terminated(u) => Listed(links, JoinQueue[u]) = {}
        /\ \A t \in Thread : pc[t] = "joining" /\ target[t] = u
                                /\ state[t] # "Waiting" => u \in ended

\* Who was refused a suspension, because the other ended or was cancelled,
\* waits where no wake-up can find it: the refusal is queued without being made
\* Ready, and is never returned.
RefusedAreLost == \A t \in Thread : suspendResult[t] = -1 => Lost(t) /\ pc[t] = "suspending"

\* A step loses no other thread, but one that it puts before the head of a queue.
LosesRefused ==
    \A t \in Thread : Lost(t)' =>
        \/ Lost(t)
        \/ suspendResult'[t] = -1
        \/ /\ state[t] # "Waiting"
           /\ \E q \in WaitQueue : PutBeforeHead(links, links', q, t)

=============================================================================
