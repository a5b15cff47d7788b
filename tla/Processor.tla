----------------------------- MODULE Processor -----------------------------
(***************************************************************************)
(* The core scheduler of the emulator: src/src/processor.cpp and the      *)
(* coreinit calls that drive it.  Each emulated core is a host thread     *)
(* whose primary fiber (coreEntryPoint) takes fibers from the run queue   *)
(* and switches to them; the guest gives the core back by rescheduling,   *)
(* and a timer thread raises a per-core interrupt that an interrupt fiber *)
(* serves.                                                                *)
(*                                                                        *)
(* One step is what a host thread does between two points at which        *)
(* another host thread can observe it: a critical section of mMutex, a    *)
(* write of a thread's state under gSchedulerLock, or a fiber switch.     *)
(* A fiber is named by the OSThread it runs.                              *)
(***************************************************************************)
EXTENDS Integers, Sequences, FiniteSets, Functions, SequencesExt

CONSTANTS
    Core,             \* the emulated cores
    Guest,            \* the game's threads
    InterruptThread,  \* [Core -> thread]: "Interrupt Thread i" of the loader
    Main,             \* the guest thread the loader runs
    NoFiber,          \* nullptr, and the primary fiber where one executes
    Attr0,            \* [Thread -> SUBSET Core]: affinity given at creation
    Priority0,        \* [Thread -> Nat]: basePriority given at creation
    Priorities,       \* the values OSSetThreadPriority is called with
    Calls,            \* the kernel calls the game makes
    MaxInterrupts     \* how often the timer fires (a bound)

Handlers == {InterruptThread[c] : c \in Core}
Thread == Guest \cup Handlers
Started == Handlers \cup {Main}  \* the threads the loader runs

AllCalls == {"run", "sleep", "wake", "yield", "suspend", "resume",
             "priority", "affinity", "exit", "alarm"}

ASSUME ConstantsAssumption ==
    /\ IsFiniteSet(Core) /\ IsFiniteSet(Guest)
    /\ \A c, d \in Core : InterruptThread[c] = InterruptThread[d] => c = d
    /\ InterruptThread \in [Core -> Handlers]
    /\ Guest \cap Handlers = {}
    /\ Main \in Guest
    /\ NoFiber \notin Thread
    /\ Attr0 \in [Thread -> SUBSET Core]
    /\ \A c \in Core : Attr0[InterruptThread[c]] = {c}
    /\ Priority0 \in [Thread -> Nat]
    /\ \A s, t \in Started : Priority0[s] = Priority0[t]
    /\ Priorities \subseteq Nat
    /\ Calls \subseteq AllCalls
    /\ MaxInterrupts \in Nat

VARIABLES
    mFiberQueue,            \* the run queue, sorted by basePriority
    mFiberList,             \* fibers created and not destroyed
    mFiberDeleteList,       \* per core, fibers to delete at its next turn
    threadFiber,            \* threads whose `fiber` pointer is not null
    state, suspendCounter,  \* OSThread::state, ::suspendCounter
    basePriority, attr,     \* OSThread::basePriority, ::attr (affinity)
    parentFiber,            \* per fiber, the core whose primary it returns to
    context,                \* per fiber, where it goes on when switched to
    waiters,                \* threads asleep on the game's OSThreadQueue
    alarms,                 \* per core, the threads asleep on an alarm
    gSchedulerLock,         \* the spin lock of coreinit_scheduler.cpp
    executing, pc, target,  \* per core: fiber it executes, where, on whom
    currentFiber, interruptedFiber, interruptHandlerFiber, \* per core
    interrupt, timerSet,    \* per core: flag; nextInterrupt is not max()
    interruptCount          \* how often the timer fired

threadVars == <<suspendCounter, basePriority, attr>>
fiberVars == <<mFiberList, mFiberDeleteList, threadFiber, parentFiber>>
alarmVars == <<alarms, interruptCount, timerSet>>
interruptVars == <<interruptedFiber, interruptHandlerFiber, interrupt>>
vars == <<mFiberQueue, fiberVars, state, threadVars, context, waiters,
          alarmVars, gSchedulerLock, executing, pc, target, currentFiber,
          interruptVars>>

PrimaryPc == {"loop", "sleep", "cond"}
GuestPc == {"guest", "reschedule", "wake", "resume", "switchLocked",
            "switchYield", "relock", "exit"}
HandlerPc == {"first", "check", "callback", "wakeSleeper", "finish"}
Pc == PrimaryPc \cup GuestPc \cup HandlerPc \cup {"crash"}

-----------------------------------------------------------------------------
(* The run queue *)

\* The places of q that do not hold f, and how many of them are up to i.
Kept(q, f) == {i \in DOMAIN q : q[i] # f}
Rank(q, f, i) == Cardinality({j \in Kept(q, f) : j =< i})

\* std::remove and erase: q without its entries for f.  Place k holds what place i held, for
\* the first i by which k places are kept.
Erase(q, f) ==
    [k \in 1 .. Cardinality(Kept(q, f)) |->
        q[CHOOSE i \in Kept(q, f) :
            /\ Rank(q, f, i) >= k
            /\ \A j \in Kept(q, f) : Rank(q, f, j) >= k => i =< j]]

\* Mutant: std::lower_bound, which overtakes the equally important.
LowerBound(q, f) ==
    {i \in 1 .. Len(q) + 1 :
        /\ i > 1 => basePriority[q[i - 1]] < basePriority[f]
        /\ i =< Len(q) => basePriority[f] =< basePriority[q[i]]}

\* Mutant: push_back.
PushBack(q, f) == {Len(q) + 1}

\* The places std::upper_bound can return for f: those with nothing less
\* important before and nothing equally important after.  There is exactly
\* one while the queue is sorted; OSSetThreadPriority can unsort it.
UpperBound(q, f) ==
    {i \in 1 .. Len(q) + 1 :
        /\ i > 1 => basePriority[q[i - 1]] =< basePriority[f]
        /\ i =< Len(q) => basePriority[f] < basePriority[q[i]]}

\* mMutex is held across steps only by a core about to wait on mCondition.
MutexFree == \A c \in Core : pc[c] # "sleep"

\* Mutant: no notify_all after the insertion.
NotNotified(p) == p

\* mCondition.notify_all: every waiting core looks at the queue again.
Notified(p) == [c \in Core |-> IF p[c] = "cond" THEN "loop" ELSE p[c]]

\* Mutant: a core takes any Ready fiber.
EligibleAnywhere(f, c) == state[f] = "Ready" /\ suspendCounter[f] = 0

Eligible(f, c) ==
    /\ state[f] = "Ready"
    /\ suspendCounter[f] = 0
    /\ c \in attr[f]

\* Place i of the queue is what peekNextFiberNoLock(c) finds.
IsNext(i, c) ==
    /\ i \in DOMAIN mFiberQueue
    /\ Eligible(mFiberQueue[i], c)
    /\ \A j \in 1 .. i - 1 : ~Eligible(mFiberQueue[j], c)

NothingFor(c) == \A i \in DOMAIN mFiberQueue : ~Eligible(mFiberQueue[i], c)

\* Processor::queue(f) by core c, which goes on at p.
Queue(c, f, p) ==
    /\ MutexFree
    /\ \E i \in UpperBound(mFiberQueue, f) :
          mFiberQueue' = InsertAt(mFiberQueue, i, f)
    /\ pc' = Notified([pc EXCEPT ![c] = p])

-----------------------------------------------------------------------------
(* After GameLoaderRun: the interrupt threads, then the main thread, are in *)
(* the run queue; the game's other threads were never run.                  *)

Init ==
    /\ mFiberQueue \in [1 .. Cardinality(Started) -> Started]
    /\ Range(mFiberQueue) = Started
    /\ mFiberQueue[Cardinality(Started)] = Main
    /\ mFiberList = Started
    /\ mFiberDeleteList = [c \in Core |-> {}]
    /\ threadFiber = Started
    /\ state = [t \in Thread |-> IF t \in Started THEN "Ready" ELSE "None"]
    /\ suspendCounter = [t \in Thread |-> IF t \in Started THEN 0 ELSE 1]
    /\ basePriority = Priority0
    /\ attr = Attr0
    /\ parentFiber = [t \in Thread |-> NoFiber]
    /\ context = [t \in Thread |-> IF t \in Guest THEN "guest" ELSE "first"]
    /\ waiters = {}
    /\ alarms = [c \in Core |-> {}]
    /\ interruptCount = 0
    /\ timerSet = [c \in Core |-> FALSE]
    /\ gSchedulerLock = FALSE
    /\ executing = [c \in Core |-> NoFiber]
    /\ pc = [c \in Core |-> "loop"]
    /\ target = [c \in Core |-> NoFiber]
    /\ currentFiber = [c \in Core |-> NoFiber]
    /\ interruptedFiber = [c \in Core |-> NoFiber]
    /\ interruptHandlerFiber = [c \in Core |-> NoFiber]
    /\ interrupt = [c \in Core |-> FALSE]

-----------------------------------------------------------------------------
(* coreEntryPoint: the primary fiber of core c *)

\* Mutant: the core keeps its stale current fiber.
KeepCurrentFiber(c, f) == UNCHANGED currentFiber

\* core->currentFiber = f
SetCurrentFiber(c, f) == currentFiber' = [currentFiber EXCEPT ![c] = f]

\* An iteration that finds a fiber: take it off the queue and switch to it.
Dispatch(c) ==
    /\ pc[c] = "loop" /\ MutexFree
    /\ mFiberDeleteList' = [mFiberDeleteList EXCEPT ![c] = {}]
    /\ \E i \in DOMAIN mFiberQueue :
          LET f == mFiberQueue[i] IN
          /\ IsNext(i, c)
          /\ mFiberQueue' = Erase(mFiberQueue, f)
          /\ SetCurrentFiber(c, f)
          /\ parentFiber' = [parentFiber EXCEPT ![f] = c]
          /\ state' = [state EXCEPT ![f] = "Running"]
          /\ executing' = [executing EXCEPT ![c] = f]
          /\ pc' = [pc EXCEPT ![c] = context[f]]
    /\ UNCHANGED <<mFiberList, threadFiber, threadVars, context, waiters,
                   alarmVars, gSchedulerLock, target, interruptVars>>

\* Mutant: the interrupted fiber is forgotten.
ForgetInterruptedFiber(c) ==
    interruptedFiber' = [interruptedFiber EXCEPT ![c] = NoFiber]

\* The fiber finishInterrupt will return to.
SaveInterruptedFiber(c) ==
    interruptedFiber' = [interruptedFiber EXCEPT ![c] = currentFiber[c]]

\* handleInterrupt: save the current fiber, switch to the interrupt fiber.
\* A core whose interrupt thread never ran yet has no fiber to switch to.
EnterInterrupt(c) ==
    LET h == interruptHandlerFiber[c] IN
    /\ interrupt[c]
    /\ interrupt' = [interrupt EXCEPT ![c] = FALSE]
    /\ SaveInterruptedFiber(c)
    /\ SetCurrentFiber(c, h)
    /\ IF h = NoFiber
       THEN /\ pc' = [pc EXCEPT ![c] = "crash"]
            /\ UNCHANGED <<executing, context>>
       ELSE IF executing[c] = h
       THEN UNCHANGED <<executing, context, pc>>  \* a switch to itself
       ELSE /\ executing' = [executing EXCEPT ![c] = h]
            /\ pc' = [pc EXCEPT ![c] = context[h]]
            /\ context' = IF executing[c] = NoFiber THEN context
                          ELSE [context EXCEPT ![executing[c]] = pc[c]]
    /\ UNCHANGED interruptHandlerFiber

\* An iteration that finds no fiber but an interrupt.
IdleInterrupt(c) ==
    /\ pc[c] = "loop" /\ MutexFree /\ NothingFor(c)
    /\ mFiberDeleteList' = [mFiberDeleteList EXCEPT ![c] = {}]
    /\ EnterInterrupt(c)
    /\ UNCHANGED <<mFiberQueue, mFiberList, threadFiber, parentFiber, state,
                   threadVars, waiters, alarmVars, gSchedulerLock, target>>

\* An iteration that finds neither decides to wait, mMutex still held ...
DecideToWait(c) ==
    /\ pc[c] = "loop" /\ MutexFree /\ NothingFor(c) /\ ~interrupt[c]
    /\ mFiberDeleteList' = [mFiberDeleteList EXCEPT ![c] = {}]
    /\ pc' = [pc EXCEPT ![c] = "sleep"]
    /\ UNCHANGED <<mFiberQueue, mFiberList, threadFiber, parentFiber, state,
                   threadVars, context, waiters, alarmVars, gSchedulerLock,
                   executing, target, currentFiber, interruptVars>>

\* ... and mCondition.wait releases mMutex.
Wait(c) ==
    /\ pc[c] = "sleep"
    /\ pc' = [pc EXCEPT ![c] = "cond"]
    /\ UNCHANGED <<mFiberQueue, fiberVars, state, threadVars, context,
                   waiters, alarmVars, gSchedulerLock, executing, target,
                   currentFiber, interruptVars>>

-----------------------------------------------------------------------------
(* Processor::reschedule on core c *)

\* Mutant: the lock stays taken.
KeepScheduler == UNCHANGED gSchedulerLock

OSUnlockScheduler == gSchedulerLock' = FALSE

\* The early returns: the thread still runs and nothing better is queued.
KeepsRunning(c, yield) ==
    LET f == currentFiber[c] IN
    /\ suspendCounter[f] = 0
    /\ state[f] = "Running"
    /\ \A i \in DOMAIN mFiberQueue : IsNext(i, c) =>
          IF yield THEN basePriority[f] < basePriority[mFiberQueue[i]]
          ELSE basePriority[f] =< basePriority[mFiberQueue[i]]

\* Mutant: only a thread that was not Running is put back in the queue.
LeaveUnqueued(c, p) ==
    LET f == currentFiber[c] IN
    IF state[f] = "Running"
    THEN /\ state' = [state EXCEPT ![f] = "Ready"]
         /\ MutexFree
         /\ pc' = [pc EXCEPT ![c] = p]
         /\ UNCHANGED mFiberQueue
    ELSE UNCHANGED state /\ Queue(c, f, p)

\* Otherwise the thread goes back to the queue, whatever its state.
Leave(c, p) ==
    LET f == currentFiber[c] IN
    /\ state' = IF state[f] = "Running" THEN [state EXCEPT ![f] = "Ready"]
                ELSE state
    /\ Queue(c, f, p)

\* reschedule(true) returns early; its caller then unlocks and returns.
RescheduleReturn(c) ==
    /\ pc[c] = "reschedule" /\ MutexFree /\ KeepsRunning(c, FALSE)
    /\ OSUnlockScheduler
    /\ pc' = [pc EXCEPT ![c] = "guest"]
    /\ UNCHANGED <<mFiberQueue, fiberVars, state, threadVars, context,
                   waiters, alarmVars, executing, target, currentFiber,
                   interruptVars>>

\* reschedule(true) gives up the core and both locks.
RescheduleLeave(c) ==
    /\ pc[c] = "reschedule" /\ ~KeepsRunning(c, FALSE)
    /\ Leave(c, "switchLocked")
    /\ OSUnlockScheduler
    /\ UNCHANGED <<fiberVars, threadVars, context, waiters, alarmVars,
                   executing, target, currentFiber, interruptVars>>

\* OSYieldThread that gives up the core; otherwise it changes nothing.
OSYieldThread(c) ==
    /\ pc[c] = "guest" /\ "yield" \in Calls /\ ~KeepsRunning(c, TRUE)
    /\ Leave(c, "switchYield")
    /\ UNCHANGED <<fiberVars, threadVars, context, waiters, alarmVars,
                   gSchedulerLock, executing, target, currentFiber,
                   interruptVars>>

\* SwitchToFiber(core->primaryFiber), after the locks were released.
SwitchToPrimary(c) ==
    /\ pc[c] \in {"switchLocked", "switchYield"}
    /\ context' = [context EXCEPT ![executing[c]] =
                      IF pc[c] = "switchLocked" THEN "relock" ELSE "guest"]
    /\ executing' = [executing EXCEPT ![c] = NoFiber]
    /\ pc' = [pc EXCEPT ![c] = "loop"]
    /\ UNCHANGED <<mFiberQueue, fiberVars, state, threadVars, waiters,
                   alarmVars, gSchedulerLock, target, currentFiber,
                   interruptVars>>

\* Back from the switch: take gSchedulerLock; the caller unlocks and returns.
Relock(c) ==
    /\ pc[c] = "relock" /\ ~gSchedulerLock
    /\ pc' = [pc EXCEPT ![c] = "guest"]
    /\ UNCHANGED <<mFiberQueue, fiberVars, state, threadVars, context,
                   waiters, alarmVars, gSchedulerLock, executing, target,
                   currentFiber, interruptVars>>

-----------------------------------------------------------------------------
(* Kernel calls of the guest thread that core c executes *)

\* OSLockScheduler in kernel call `call`.
Enter(c, call) ==
    /\ pc[c] = "guest" /\ call \in Calls
    /\ ~gSchedulerLock
    /\ gSchedulerLock' = TRUE

\* OSRunThread(t) of a thread never run; queue() and reschedule() follow.
OSRunThread(c, t) ==
    /\ Enter(c, "run")
    /\ state[t] = "None" /\ t \notin mFiberList
    /\ state' = [state EXCEPT ![t] = "Ready"]
    /\ suspendCounter' = [suspendCounter EXCEPT ![t] = 0]
    /\ mFiberList' = mFiberList \cup {t}
    /\ threadFiber' = threadFiber \cup {t}
    /\ pc' = [pc EXCEPT ![c] = "resume"]
    /\ target' = [target EXCEPT ![c] = t]
    /\ UNCHANGED <<mFiberQueue, mFiberDeleteList, parentFiber, basePriority,
                   attr, context, waiters, alarmVars, executing,
                   currentFiber, interruptVars>>

\* OSSleepThread on the game's queue.
OSSleepThread(c) ==
    LET t == currentFiber[c] IN
    /\ Enter(c, "sleep")
    /\ state' = [state EXCEPT ![t] = "Waiting"]
    /\ waiters' = waiters \cup {t}
    /\ pc' = [pc EXCEPT ![c] = "reschedule"]
    /\ UNCHANGED <<mFiberQueue, fiberVars, threadVars, context, alarmVars,
                   executing, target, currentFiber, interruptVars>>

\* OSSleepTicks: an alarm on this core that wakes the caller.
OSSleepTicks(c) ==
    LET t == currentFiber[c] IN
    /\ Enter(c, "alarm")
    /\ alarms' = [alarms EXCEPT ![c] = @ \cup {t}]
    /\ timerSet' = [timerSet EXCEPT ![c] = TRUE]
    /\ state' = [state EXCEPT ![t] = "Waiting"]
    /\ pc' = [pc EXCEPT ![c] = "reschedule"]
    /\ UNCHANGED <<mFiberQueue, fiberVars, threadVars, context, waiters,
                   interruptCount, executing, target, currentFiber, interruptVars>>

\* OSWakeupOneThreadNoLock of a waiter: Ready first; queue() follows.
OSWakeupOneThread(c, t) ==
    /\ Enter(c, "wake")
    /\ t \in waiters
    /\ waiters' = waiters \ {t}
    /\ state' = [state EXCEPT ![t] = "Ready"]
    /\ pc' = [pc EXCEPT ![c] = "wake"]
    /\ target' = [target EXCEPT ![c] = t]
    /\ UNCHANGED <<mFiberQueue, fiberVars, threadVars, context, alarmVars,
                   executing, currentFiber, interruptVars>>

\* OSSuspendThread of the calling thread.
OSSuspendThread(c) ==
    LET t == currentFiber[c] IN
    /\ Enter(c, "suspend")
    /\ suspendCounter' = [suspendCounter EXCEPT ![t] = @ + 1]
    /\ state' = [state EXCEPT ![t] = "Ready"]
    /\ pc' = [pc EXCEPT ![c] = "reschedule"]
    /\ UNCHANGED <<mFiberQueue, fiberVars, basePriority, attr, context,
                   waiters, alarmVars, executing, target, currentFiber,
                   interruptVars>>

\* Mutant: no lower limit.
UnclampedCounter(n) == n - 1

\* OSResumeThreadNoLock: counter - 1, but never below zero.
ResumedCounter(n) == IF n > 0 THEN n - 1 ELSE 0

\* OSResumeThread(t): queue() only a Ready thread whose counter gets to zero
\* (creating its fiber if it has none), reschedule() whenever it is at zero.
OSResumeThread(c, t) ==
    LET left == ResumedCounter(suspendCounter[t])
        queues == suspendCounter[t] = 1 /\ state[t] = "Ready"
        created == IF queues THEN {t} ELSE {}
    IN
    /\ pc[c] = "guest" /\ "resume" \in Calls /\ ~gSchedulerLock
    /\ suspendCounter' = [suspendCounter EXCEPT ![t] = left]
    /\ threadFiber' = threadFiber \cup created
    /\ mFiberList' = mFiberList \cup created
    /\ target' = [target EXCEPT ![c] = t]
    /\ gSchedulerLock' = (left = 0)
    /\ pc' = [pc EXCEPT ![c] = IF left > 0 THEN "guest"
                               ELSE IF queues THEN "resume"
                               ELSE "reschedule"]
    /\ UNCHANGED <<mFiberQueue, mFiberDeleteList, parentFiber, state,
                   basePriority, attr, context, waiters, alarmVars,
                   executing, currentFiber, interruptVars>>

\* Processor::queue(thread->fiber), called from OSWakeupOneThreadNoLock and
\* OSResumeThreadNoLock.  The insertion compares through the fiber, so a
\* thread that exited since has a null fiber and the call crashes.
QueueTarget(c, p) ==
    IF target[c] \in threadFiber
    THEN Queue(c, target[c], p)
    ELSE /\ MutexFree
         /\ pc' = [pc EXCEPT ![c] = "crash"]
         /\ UNCHANGED mFiberQueue

\* A wake-up queues the fiber and unlocks.
QueueWoken(c) ==
    /\ pc[c] = "wake"
    /\ QueueTarget(c, "guest")
    /\ OSUnlockScheduler
    /\ UNCHANGED <<fiberVars, state, threadVars, context, waiters, alarmVars,
                   executing, target, currentFiber, interruptVars>>

\* OSResumeThread and OSRunThread queue the fiber and reschedule.
QueueResumed(c) ==
    /\ pc[c] = "resume"
    /\ QueueTarget(c, "reschedule")
    /\ UNCHANGED <<fiberVars, state, threadVars, context, waiters, alarmVars,
                   gSchedulerLock, executing, target, currentFiber,
                   interruptVars>>

\* OSSetThreadPriority(t, p): the queue is not sorted again.
OSSetThreadPriority(c, t, p) ==
    /\ Enter(c, "priority")
    /\ basePriority' = [basePriority EXCEPT ![t] = p]
    /\ pc' = [pc EXCEPT ![c] = "reschedule"]
    /\ UNCHANGED <<mFiberQueue, fiberVars, state, suspendCounter, attr,
                   context, waiters, alarmVars, executing, target,
                   currentFiber, interruptVars>>

\* OSSetThreadAffinity(t, a): only the calling core looks at the queue.
OSSetThreadAffinity(c, t, a) ==
    /\ Enter(c, "affinity")
    /\ attr' = [attr EXCEPT ![t] = a]
    /\ pc' = [pc EXCEPT ![c] = "reschedule"]
    /\ UNCHANGED <<mFiberQueue, fiberVars, state, suspendCounter,
                   basePriority, context, waiters, alarmVars, executing,
                   target, currentFiber, interruptVars>>

\* OSExitThread: the thread lets go of its fiber under gSchedulerLock ...
OSExitThread(c) ==
    LET t == currentFiber[c] IN
    /\ pc[c] = "guest" /\ "exit" \in Calls /\ ~gSchedulerLock
    /\ threadFiber' = threadFiber \ {t}
    /\ state' = [state EXCEPT ![t] = "Moribund"]
    /\ pc' = [pc EXCEPT ![c] = "exit"]
    /\ UNCHANGED <<mFiberQueue, mFiberList, mFiberDeleteList, parentFiber,
                   threadVars, context, waiters, alarmVars, gSchedulerLock,
                   executing, target, currentFiber, interruptVars>>

\* ... and Processor::exit destroys the fiber and returns to its parent.  A
\* parent that is another core's primary fiber is lost to this model.
Exit(c) ==
    LET f == currentFiber[c] IN
    /\ pc[c] = "exit" /\ MutexFree
    /\ mFiberList' = mFiberList \ {f}
    /\ mFiberDeleteList' = [mFiberDeleteList EXCEPT ![c] = @ \cup {f}]
    /\ SetCurrentFiber(c, NoFiber)
    /\ executing' = [executing EXCEPT ![c] = NoFiber]
    /\ pc' = [pc EXCEPT ![c] = IF parentFiber[f] = c THEN "loop" ELSE "crash"]
    /\ UNCHANGED <<mFiberQueue, threadFiber, parentFiber, state, threadVars,
                   context, waiters, alarmVars, gSchedulerLock, target,
                   interruptVars>>

-----------------------------------------------------------------------------
(* Interrupts *)

\* The interpreter polls handleInterrupt before every guest instruction, in
\* an interrupt thread's first instruction and in alarm callbacks too.
HandleInterrupt(c) ==
    /\ pc[c] \in {"guest", "first", "callback"}
    /\ EnterInterrupt(c)
    /\ UNCHANGED <<mFiberQueue, fiberVars, state, threadVars, waiters,
                   alarmVars, gSchedulerLock, target>>

\* waitFirstInterrupt: the interrupt thread registers itself and parks.
WaitFirstInterrupt(c) ==
    LET h == currentFiber[c] IN
    /\ pc[c] = "first"
    /\ interruptHandlerFiber' = [interruptHandlerFiber EXCEPT ![c] = h]
    /\ context' = [context EXCEPT ![executing[c]] = "check"]
    /\ executing' = [executing EXCEPT ![c] = NoFiber]
    /\ pc' = [pc EXCEPT ![c] = "loop"]
    /\ UNCHANGED <<mFiberQueue, fiberVars, state, threadVars, waiters,
                   alarmVars, gSchedulerLock, target, currentFiber,
                   interruptedFiber, interrupt>>

\* OSCheckAlarms triggers the alarm of t: its callback is guest code ...
TriggerAlarm(c, t) ==
    /\ pc[c] = "check" /\ t \in alarms[c]
    /\ pc' = [pc EXCEPT ![c] = "callback"]
    /\ target' = [target EXCEPT ![c] = t]
    /\ UNCHANGED <<mFiberQueue, fiberVars, state, threadVars, context,
                   waiters, alarmVars, gSchedulerLock, executing,
                   currentFiber, interruptVars>>

\* ... SleepAlarmHandler, which makes the sleeper Ready ...
SleepAlarmHandler(c) ==
    /\ pc[c] = "callback" /\ ~gSchedulerLock
    /\ gSchedulerLock' = TRUE
    /\ state' = [state EXCEPT ![target[c]] = "Ready"]
    /\ pc' = [pc EXCEPT ![c] = "wakeSleeper"]
    /\ UNCHANGED <<mFiberQueue, fiberVars, threadVars, context, waiters,
                   alarmVars, executing, target, currentFiber,
                   interruptVars>>

\* ... and queues it; the alarm then leaves the queue of this core.
QueueSleeper(c) ==
    /\ pc[c] = "wakeSleeper"
    /\ QueueTarget(c, "check")
    /\ OSUnlockScheduler
    /\ alarms' = [alarms EXCEPT ![c] = @ \ {target[c]}]
    /\ UNCHANGED <<fiberVars, state, threadVars, context, waiters, interruptCount,
                   timerSet, executing, target, currentFiber, interruptVars>>

\* No (other) alarm is due: set the timer for the alarms that remain.
AlarmsChecked(c) ==
    /\ pc[c] = "check"
    /\ timerSet' = [timerSet EXCEPT ![c] = @ \/ alarms[c] # {}]
    /\ pc' = [pc EXCEPT ![c] = "finish"]
    /\ UNCHANGED <<mFiberQueue, fiberVars, state, threadVars, context,
                   waiters, alarms, interruptCount, gSchedulerLock, executing,
                   target, currentFiber, interruptVars>>

\* finishInterrupt: switch back to the interrupted fiber, whatever became of
\* it, or to the primary fiber if there is none.
FinishInterrupt(c) ==
    LET f == interruptedFiber[c] IN
    /\ pc[c] = "finish"
    /\ SetCurrentFiber(c, f)
    /\ interruptedFiber' = [interruptedFiber EXCEPT ![c] = NoFiber]
    /\ context' = [context EXCEPT ![executing[c]] = "check"]
    /\ executing' = [executing EXCEPT ![c] = f]
    /\ pc' = [pc EXCEPT ![c] = IF f = NoFiber THEN "loop" ELSE context'[f]]
    /\ UNCHANGED <<mFiberQueue, fiberVars, state, threadVars, waiters,
                   alarmVars, gSchedulerLock, target, interruptHandlerFiber,
                   interrupt>>

\* timerEntryPoint finds core c's time passed: set the flag, wake the cores.
TimerFires(c) ==
    /\ timerSet[c] /\ interruptCount < MaxInterrupts
    /\ interruptCount' = interruptCount + 1
    /\ timerSet' = [timerSet EXCEPT ![c] = FALSE]
    /\ interrupt' = [interrupt EXCEPT ![c] = TRUE]
    /\ pc' = Notified(pc)
    /\ UNCHANGED <<mFiberQueue, fiberVars, state, threadVars, context,
                   waiters, alarms, gSchedulerLock, executing,
                   target, currentFiber, interruptedFiber,
                   interruptHandlerFiber>>

-----------------------------------------------------------------------------
(* Specification *)

\* What the host thread of core c does by itself.
Primary(c) == Dispatch(c) \/ IdleInterrupt(c) \/ DecideToWait(c) \/ Wait(c)

Kernel(c) ==
    \/ RescheduleReturn(c) \/ RescheduleLeave(c) \/ SwitchToPrimary(c)
    \/ Relock(c) \/ QueueWoken(c) \/ QueueResumed(c) \/ Exit(c)

GuestCall(c) ==
    \/ OSYieldThread(c) \/ OSSleepThread(c) \/ OSSleepTicks(c)
    \/ OSSuspendThread(c) \/ OSExitThread(c)
    \/ \E t \in Guest :
          \/ OSRunThread(c, t) \/ OSWakeupOneThread(c, t)
          \/ OSResumeThread(c, t)
          \/ \E p \in Priorities : OSSetThreadPriority(c, t, p)
          \/ \E a \in SUBSET Core \ {{}} : OSSetThreadAffinity(c, t, a)

Interrupt(c) ==
    \/ HandleInterrupt(c) \/ WaitFirstInterrupt(c)
    \/ \E t \in Guest : TriggerAlarm(c, t)
    \/ SleepAlarmHandler(c) \/ QueueSleeper(c) \/ AlarmsChecked(c)
    \/ FinishInterrupt(c)

Next ==
    \E c \in Core :
        Primary(c) \/ Kernel(c) \/ GuestCall(c) \/ Interrupt(c)
        \/ TimerFires(c)

Spec == Init /\ [][Next]_vars

-----------------------------------------------------------------------------
(* Properties *)

\* Types of all the variables.
TypeOK ==
    /\ mFiberQueue \in Seq(Thread)
    /\ mFiberList \subseteq Thread /\ threadFiber \subseteq Thread
    /\ mFiberDeleteList \in [Core -> SUBSET Thread]
    /\ state \in [Thread -> {"None", "Ready", "Running", "Waiting", "Moribund"}]
    /\ suspendCounter \in [Thread -> Nat]
    /\ basePriority \in [Thread -> Nat]
    /\ attr \in [Thread -> SUBSET Core]
    /\ parentFiber \in [Thread -> Core \cup {NoFiber}]
    /\ context \in [Thread -> {"guest", "relock", "first", "check"}]
    /\ waiters \subseteq Guest
    /\ alarms \in [Core -> SUBSET Guest] /\ interruptCount \in 0 .. MaxInterrupts
    /\ timerSet \in [Core -> BOOLEAN] /\ interrupt \in [Core -> BOOLEAN]
    /\ gSchedulerLock \in BOOLEAN
    /\ pc \in [Core -> Pc]
    /\ executing \in [Core -> Thread \cup {NoFiber}]
    /\ target \in [Core -> Thread \cup {NoFiber}]
    /\ currentFiber \in [Core -> Thread \cup {NoFiber}]
    /\ interruptedFiber \in [Core -> Thread \cup {NoFiber}]
    /\ interruptHandlerFiber \in [Core -> Thread \cup {NoFiber}]

\* What each place in the code knows of the fiber that core c executes.
Control(c) ==
    LET h == InterruptThread[c] IN
    /\ pc[c] \in PrimaryPc => executing[c] = NoFiber
    /\ pc[c] \in GuestPc =>
          executing[c] \in Guest /\ currentFiber[c] = executing[c]
    /\ pc[c] \in HandlerPc => executing[c] = h /\ currentFiber[c] = h
    /\ pc[c] \in HandlerPc \ {"first"} => interruptHandlerFiber[c] = h
    /\ pc[c] \in {"wake", "resume", "callback", "wakeSleeper"} =>
          target[c] \in Guest
    /\ interruptHandlerFiber[c] = IF context[h] = "check" THEN h ELSE NoFiber
    /\ context[h] \in {"first", "check"} /\ attr[h] = {c}
    /\ {currentFiber[c], interruptedFiber[c]} \subseteq Guest \cup {h, NoFiber}

ControlOK ==
    /\ \A c \in Core : Control(c)
    /\ \A t \in Guest : context[t] \in {"guest", "relock"}

\* A host thread executes the fiber its core calls current: getCurrentFiber,
\* and so every kernel call, acts on the thread that made the call.
CurrentIsExecuting ==
    \A c \in Core :
        executing[c] # NoFiber /\ pc[c] # "crash" =>
            currentFiber[c] = executing[c]

\* No fiber is executed by two host threads at once.  reschedule queues a
\* fiber, and drops its locks, before it has switched away from it.
OneCorePerFiber ==
    \A c, d \in Core :
        executing[c] = executing[d] /\ executing[c] # NoFiber => c = d

\* A queue() for thread t is under way on some core.
BeingQueued(t) ==
    \E c \in Core :
        pc[c] \in {"wake", "resume", "wakeSleeper"} /\ target[c] = t

\* No thread is forgotten: one that is Ready is in the run queue, or about to
\* be put there by a wake-up, by OSResumeThread or by its own reschedule.
ReadyIsQueued ==
    \A t \in threadFiber :
        state[t] = "Ready" =>
            \/ t \in Range(mFiberQueue)
            \/ BeingQueued(t)
            \/ \E c \in Core : executing[c] = t /\ pc[c] = "reschedule"

\* No wake-up of a core is lost: a core waits on mCondition only while the
\* queue holds no thread it may run, or a notify is still to come.
NoLostWakeup ==
    \A c \in Core : pc[c] \in {"sleep", "cond"} =>
        \A t \in threadFiber \cap Range(mFiberQueue) :
            Eligible(t, c) => BeingQueued(t)

HoldsScheduler(c) ==
    pc[c] \in {"reschedule", "wake", "resume", "wakeSleeper"}

\* gSchedulerLock is held exactly by the core that is between a lock and the
\* matching unlock, and by one core at most.
SchedulerLockHeldOnce ==
    /\ \A c, d \in Core : HoldsScheduler(c) /\ HoldsScheduler(d) => c = d
    /\ gSchedulerLock <=> \E c \in Core : HoldsScheduler(c)

\* A core that takes a fiber from the queue takes a most important one of
\* those it may run.
DispatchesBest ==
    [][\A c \in Core : executing[c] = NoFiber /\ executing'[c] # NoFiber =>
          \A g \in Range(mFiberQueue) : Eligible(g, c) =>
              basePriority[executing'[c]] =< basePriority[g]]_vars

\* Interrupts lose no thread: a guest thread that is Running is executed by a
\* core, or is the fiber some core's finishInterrupt will switch back to.
NoThreadLost ==
    \A t \in Guest : state[t] = "Running" =>
        \E c \in Core : executing[c] = t \/ interruptedFiber[c] = t

-----------------------------------------------------------------------------
(* Liveness.  The host threads and the kernel code they are in keep going;   *)
(* scheduling is cooperative, so nothing can be promised unless guests that  *)
(* run also give equally important threads their turn by yielding.           *)

FairSpec ==
    /\ Spec
    /\ \A c \in Core : /\ WF_vars(Primary(c)) /\ WF_vars(Kernel(c))
                       /\ WF_vars(Interrupt(c)) /\ WF_vars(OSYieldThread(c))

\* A thread in the run queue gets its turn: the queue is first-in first-out
\* among equals, and yield makes way for equals.
ReadyRuns ==
    \A t \in Guest : (state[t] = "Ready" /\ t \in threadFiber)
                        ~> (state[t] = "Running")

=============================================================================
