---------------------------- MODULE KernelProofs ----------------------------
(***************************************************************************)
(* What threads, alarms and the spin lock guarantee for every number of    *)
(* threads, cores and alarms.                                              *)
(***************************************************************************)
EXTENDS Kernel, ThreadQueueProofs

USE ThreadQueueAssumption

(* The sets of calls that are used together do not overlap. *)
LEMMA UsesApart ==
    \A u \in Uses : /\ u \subseteq LifeCalls => ~(u \subseteq AlarmCalls) /\ "spin lock" \notin u
                    /\ u \subseteq AlarmCalls => "spin lock" \notin u
                    /\ "event" \in u => u \subseteq AlarmCalls
<1> TAKE u \in Uses
<1>1. /\ u # {}
      /\ u \subseteq LifeCalls \/ u \subseteq AlarmCalls \/ u = {"spin lock"}
  BY UsesAssumption
<1>2. /\ \A x \in LifeCalls : x \notin AlarmCalls \cup {"spin lock", "event"}
      /\ "spin lock" \notin AlarmCalls
  BY DEF LifeCalls, AlarmCalls
<1> QED BY <1>1, <1>2

-----------------------------------------------------------------------------
(* The spin lock. *)

SpinTypes ==
    /\ owner \in Caller \cup {NoOwner} /\ recursion \in Nat
    /\ depth \in [Caller -> Nat] /\ strayed \in BOOLEAN

\* Only a lock that is held was taken more than once; a stray release cannot
\* make that untrue, because the last one is left to the owner.
SpinInv == SpinTypes /\ (owner = NoOwner => recursion = 0) /\ SpinExclusion

LEMMA SpinStep ==
    ASSUME SpinInv, NEW t \in Caller,
           \/ AcquireAgain(t) \/ BeginSpin(t) \/ Acquired(t) \/ TryFails(t)
           \/ ReleaseOnce(t) \/ Release(t)
    PROVE  SpinInv'
<1> USE SpinLockAssumption DEF SpinInv, SpinTypes, SpinExclusion
<1>1. CASE AcquireAgain(t)
  BY <1>1 DEF AcquireAgain, Deeper
<1>2. CASE BeginSpin(t)
  BY <1>2 DEF BeginSpin
<1>3. CASE Acquired(t)
  BY <1>3 DEF Acquired, CompareExchange, Deeper
<1>4. CASE TryFails(t)
  BY <1>4 DEF TryFails
<1>5. CASE ReleaseOnce(t)
  <2>1. /\ owner' = owner /\ recursion > 0 /\ recursion' = recursion - 1
        /\ depth' = [depth EXCEPT ![t] = IF @ > 0 THEN @ - 1 ELSE 0]
        /\ strayed' = (strayed \/ owner # t)
    BY <1>5 DEF ReleaseOnce
  <2>2. SpinTypes' /\ (owner' = NoOwner => recursion' = 0)
    BY <2>1
  <2>3. CASE owner # t
    BY <2>1, <2>2, <2>3
  <2>4. CASE owner = t
    <3>1. strayed' = strayed
      BY <2>1, <2>4
    <3>2. \A u \in Caller : depth'[u] = IF u = t /\ depth[u] > 0 THEN depth[u] - 1
                                        ELSE IF u = t THEN 0 ELSE depth[u]
      BY <2>1
    <3> QED BY <2>1, <2>2, <2>4, <3>1, <3>2
  <2> QED BY <2>3, <2>4
<1>6. CASE Release(t)
  BY <1>6 DEF Release
<1> QED BY <1>1, <1>2, <1>3, <1>4, <1>5, <1>6

(* One caller at a time has the spin lock, on any number of cores: coreinit's *)
(* OSAcquireSpinLock, OSTryAcquireSpinLock and OSReleaseSpinLock, until a     *)
(* caller releases what it does not hold.                                     *)
THEOREM SpinCorrect == Spec => []SpinExclusion
<1>1. Init => SpinInv
  <2> SUFFICES ASSUME SpinInit PROVE SpinInv
    BY DEF Init
  <2>1. /\ owner = NoOwner /\ recursion = 0 /\ strayed = FALSE
        /\ depth = [t \in Caller |-> 0]
    BY DEF SpinInit
  <2> QED BY <2>1, SpinLockAssumption DEF SpinInv, SpinTypes, SpinExclusion
<1>2. SpinInv /\ [Next]_kernelVars => SpinInv'
  <2> SUFFICES ASSUME SpinInv, [Next]_kernelVars PROVE SpinInv'
    OBVIOUS
  <2>1. CASE SpinLocks
    BY <2>1, SpinStep DEF SpinLocks, SpinNext
  <2>2. CASE UNCHANGED spinVars
    BY <2>2 DEF spinVars, SpinInv, SpinTypes, SpinExclusion
  <2> QED BY <2>1, <2>2
          DEF Next, Threads, AlarmsAndWaits, EventCalls, kernelVars
<1> QED BY <1>1, <1>2, PTL DEF Spec, SpinInv

-----------------------------------------------------------------------------
(* The two locks of the alarms. *)

\* Who holds the scheduler lock is in a kernel call; while an interrupt thread
\* has something to do, its core's thread is not in one.
LockInv ==
    /\ DOMAIN state = Thread /\ DOMAIN pc = Thread
    /\ DOMAIN core = AlarmThread /\ DOMAIN handler = Core
    /\ \A c \in Core : "pc" \in DOMAIN handler[c]
    /\ schedLock \in AlarmThread => pc[schedLock] \notin {"guest", "cancelAlarms"}
    /\ \A c \in Core : handler[c].pc # "idle" =>
          \A t \in AlarmThread : state[t] = "Running" /\ core[t] = c => pc[t] = "guest"

\* Without alarms nobody takes the scheduler lock and waits.
EmbraceInv ==
    /\ using \in Uses
    /\ IF using \subseteq AlarmCalls THEN LockInv ELSE schedLock = Nobody

LEMMA EmbraceInit == Init => EmbraceInv
<1> SUFFICES ASSUME Init PROVE EmbraceInv
  OBVIOUS
<1>1. using \in Uses /\ schedLock = Nobody
  BY DEF Init, AlarmInit
<1>2. ASSUME using \subseteq AlarmCalls PROVE LockInv
  <2>1. DOMAIN state = Thread
    <3>1. \/ state = Created
          \/ state = [t \in Thread |-> IF t \in AlarmThread THEN "Running" ELSE "None"]
      BY DEF Init
    <3> QED BY <3>1 DEF Created
  <2>2. DOMAIN pc = Thread
    BY DEF Init
  <2>3. core = HomeCore /\ handler = [c \in Core |-> IdleHandler]
    BY DEF Init, AlarmInit
  <2>4. NoThread \notin AlarmThread
    BY UsesAssumption
  <2> QED BY <1>1, <2>1, <2>2, <2>3, <2>4, AlarmAssumption DEF LockInv, IdleHandler, Nobody
<1> QED BY <1>1, <1>2 DEF EmbraceInv

(* Kernel calls, and threads that are dispatched. *)
LEMMA LockCalls ==
    ASSUME LockInv, NEW t \in AlarmThread,
           \/ \E a \in GameAlarm : \/ OSSetPeriodicAlarm(t, a, 0) \/ OSSetPeriodicAlarm(t, a, 1)
                                   \/ OSCancelAlarm(t, a) \/ OSWaitAlarm(t, a)
           \/ OSCancelAlarms(t) \/ CancelTagged(t) \/ AllCancelled(t)
           \/ TimedWait(t, "sleepSet") \/ OSSleepTicks(t) \/ SleepEnds(t)
           \/ TimedWait(t, "eventSet") \/ OSWaitEventWithTimeout(t) \/ EventWaitEnds(t)
    PROVE  LockInv'
<1> USE DEF LockInv
<1>1. NoThread \notin AlarmThread /\ AlarmThread \subseteq Thread
  BY UsesAssumption
<1>2. CASE \E a \in GameAlarm : \/ OSSetPeriodicAlarm(t, a, 0) \/ OSSetPeriodicAlarm(t, a, 1)
                                \/ OSCancelAlarm(t, a)
  BY <1>2 DEF OSSetPeriodicAlarm, OSCancelAlarm, threadVars
<1>3. CASE OSCancelAlarms(t) \/ CancelTagged(t) \/ AllCancelled(t)
  <2>1. CASE OSCancelAlarms(t)
    BY <2>1, <1>1 DEF OSCancelAlarms, CanCall, At, Goto
  <2>2. CASE CancelTagged(t)
    <3>1. UNCHANGED <<threadVars, schedLock, handler, core>>
      BY <2>2 DEF CancelTagged
    <3> QED BY <3>1 DEF threadVars
  <2>3. CASE AllCancelled(t)
    BY <2>3, <1>1 DEF AllCancelled, At, Goto
  <2> QED BY <1>3, <2>1, <2>2, <2>3
<1>4. CASE \E a \in GameAlarm : OSWaitAlarm(t, a)
  BY <1>4, <1>1 DEF OSWaitAlarm, CanCall, At, Goto
<1>5. CASE TimedWait(t, "sleepSet") \/ TimedWait(t, "eventSet")
  BY <1>5, <1>1 DEF TimedWait, CanCall, At, Goto
<1>6. CASE OSSleepTicks(t) \/ OSWaitEventWithTimeout(t)
  <2>1. /\ state' = [state EXCEPT ![t] = "Waiting"] /\ schedLock' = Nobody
        /\ UNCHANGED <<handler, core>>
        /\ \E p : pc' = [pc EXCEPT ![t] = p]
    BY <1>6 DEF OSSleepTicks, OSWaitEventWithTimeout, SleepTimed, Goto
  <2> QED BY <2>1, <1>1 DEF Nobody
<1>7. CASE SleepEnds(t) \/ EventWaitEnds(t)
  <2>1. schedLock = Nobody /\ pc' = [pc EXCEPT ![t] = "guest"]
        /\ UNCHANGED <<state, schedLock, handler, core>>
    BY <1>7 DEF SleepEnds, EventWaitEnds, FreeBlock, Goto
  <2> QED BY <2>1, <1>1 DEF Nobody
<1> QED BY <1>2, <1>3, <1>4, <1>5, <1>6, <1>7

(* The timer, the interrupt threads and the scheduler. *)
LEMMA LockInterrupts ==
    ASSUME LockInv, InterruptNext
    PROVE  LockInv'
<1> USE DEF LockInv
<1>1. NoThread \notin AlarmThread /\ AlarmThread \subseteq Thread
  BY UsesAssumption
<1>2. CASE Tick
  BY <1>2 DEF Tick, threadVars
<1>3. CASE \E c \in Core : TimerFires(c)
  BY <1>3 DEF TimerFires, threadVars
<1>4. CASE \E c \in Core : TakeInterrupt(c)
  BY <1>4 DEF TakeInterrupt, Handle, Interruptible
<1>5. ASSUME NEW c \in Core, NEW h, "pc" \in DOMAIN h,
             handler[c].pc # "idle" \/ h.pc = "idle", Handle(c, h), state' = state
      PROVE  LockInv'
  BY <1>5 DEF Handle
<1>6. CASE \E c \in Core : CheckAlarms(c)
  BY <1>5, <1>6 DEF CheckAlarms
<1>7. CASE \E c \in Core : PassAlarm(c)
  BY <1>5, <1>7 DEF PassAlarm, Counted
<1>8. CASE \E c \in Core : TriggerAlarm(c)
  BY <1>5, <1>8 DEF TriggerAlarm
<1>9. CASE \E c \in Core : AlarmHandler(c)
  <2>1. PICK c \in Core : AlarmHandler(c)
    BY <1>9
  <2>2. /\ handler[c].pc # "idle"
        /\ handler' = [handler EXCEPT ![c] = [handler[c] EXCEPT !.pc = "wake"]]
        /\ UNCHANGED <<pc, schedLock, core>>
    BY <2>1 DEF AlarmHandler, Handle
  <2>3. state' = state \/ \E u : state' = [state EXCEPT ![u] = "Ready"]
    BY <2>1 DEF AlarmHandler
  <2>4. DOMAIN state' = Thread /\ \A u \in Thread : state'[u] = "Running" => state[u] = "Running"
    BY <2>3
  <2> QED BY <2>2, <2>4, <1>1
<1>10. CASE \E c \in Core : WakeWaiters(c)
  BY <1>5, <1>10 DEF WakeWaiters
<1>11. CASE \E c \in Core : AlarmTriggered(c)
  BY <1>5, <1>11 DEF AlarmTriggered, Counted
<1>12. CASE \E c \in Core : FinishInterrupt(c)
  BY <1>5, <1>12 DEF FinishInterrupt, IdleHandler
<1>13. CASE \E c \in Core, t \in AlarmThread : DispatchOn(t, c)
  BY <1>13, <1>1 DEF DispatchOn, Dispatch
<1> QED BY <1>2, <1>3, <1>4, <1>6, <1>7, <1>8, <1>9, <1>10, <1>11, <1>12, <1>13
        DEF InterruptNext

(* OSSignalEvent and waits that need not sleep. *)
LEMMA LockEvents ==
    ASSUME LockInv, NEW t \in Thread, EventCall(t)
    PROVE  LockInv'
<1> USE DEF LockInv
<1>1. UNCHANGED <<schedLock, handler, core>> /\ pc' = pc
  BY DEF EventCall, alarmVars, WaitReturns, SignalUnawaited, OSSignalEvent, threadVars
<1>2. DOMAIN state' = Thread /\ \A u \in Thread : state'[u] = "Running" => state[u] = "Running"
  <2>1. CASE WaitReturns(t) \/ SignalUnawaited(t)
    BY <2>1 DEF WaitReturns, SignalUnawaited, threadVars
  <2>2. CASE OSSignalEvent(t)
    BY <2>2 DEF OSSignalEvent, OSWakeupThreadNoLock, Rescheduled, Woken
  <2> QED BY <2>1, <2>2 DEF EventCall
<1>3. AlarmThread \subseteq Thread
  BY UsesAssumption
<1> QED BY <1>1, <1>2, <1>3

(* gAlarmLock and the scheduler lock are taken in both orders, by a timed     *)
(* wait and by the interrupt thread that fires an alarm.  On any number of    *)
(* cores, no two of these are on the same core.                               *)
THEOREM EmbraceCorrect == Spec => []EmbraceTakesTwoCores
<1>1. Init => EmbraceInv
  BY EmbraceInit
<1>2. EmbraceInv /\ [Next]_kernelVars => EmbraceInv'
  <2> SUFFICES ASSUME EmbraceInv, [Next]_kernelVars PROVE EmbraceInv'
    OBVIOUS
  <2>1. CASE Threads
    <3>1. ~(using \subseteq AlarmCalls) /\ using' = using /\ schedLock' = schedLock
      BY <2>1, UsesApart DEF Threads, EmbraceInv, alarmVars
    <3> QED BY <3>1 DEF EmbraceInv
  <2>2. CASE AlarmsAndWaits
    <3>1. using \subseteq AlarmCalls /\ using' = using /\ LockInv
      BY <2>2 DEF AlarmsAndWaits, EmbraceInv
    <3>2. LockInv'
      BY <2>2, <3>1, LockCalls, LockInterrupts
         DEF AlarmsAndWaits, AlarmSetNext, AlarmCancelNext, AlarmWaitNext,
             SleepTicksNext, EventTimeoutNext
    <3> QED BY <3>1, <3>2 DEF EmbraceInv
  <2>3. CASE EventCalls
    <3>1. using \subseteq AlarmCalls /\ using' = using /\ LockInv
      BY <2>3, UsesApart DEF EventCalls, EmbraceInv
    <3>2. LockInv'
      BY <2>3, <3>1, LockEvents DEF EventCalls
    <3> QED BY <3>1, <3>2 DEF EmbraceInv
  <2>4. CASE SpinLocks \/ UNCHANGED kernelVars
    <3>1. UNCHANGED <<using, schedLock, handler, core, state, pc>>
      BY <2>4 DEF SpinLocks, kernelVars, alarmVars, threadVars
    <3> QED BY <3>1 DEF EmbraceInv, LockInv
  <2> QED BY <2>1, <2>2, <2>3, <2>4 DEF Next
<1>3. EmbraceInv => EmbraceTakesTwoCores
  <2> SUFFICES ASSUME EmbraceInv, NEW c \in Core, NEW t \in AlarmThread,
                      handler[c].pc \in {"callback", "wake"}, schedLock = t,
                      state[t] = "Running", core[t] = c
               PROVE  FALSE
    BY DEF EmbraceTakesTwoCores
  <2>1. schedLock # Nobody
    BY UsesAssumption DEF Nobody
  <2>2. LockInv
    BY <2>1 DEF EmbraceInv
  <2> QED BY <2>2 DEF LockInv
<1> QED BY <1>1, <1>2, <1>3, PTL DEF Spec

-----------------------------------------------------------------------------
(* The life of threads: the invariant. *)

LifePlaces == {"guest", "suspending", "joining", "asleep", "cancelling"}

LifeTypes ==
    /\ state \in [Thread -> States] /\ pc \in [Thread -> LifePlaces]
    /\ links \in LinksType
    /\ suspendCounter \in [Thread -> Nat] /\ needSuspend \in [Thread -> Nat]
    /\ requestFlag \in [Thread -> {"None", "Suspend", "Cancel"}]
    /\ cancelState \in [Thread -> BOOLEAN] /\ suspendResult \in [Thread -> {0, -1}]
    /\ fiber \subseteq Thread /\ detached \subseteq Thread /\ ended \subseteq Thread
    /\ target \in [Thread -> Link]

\* Every thread but one that waits to be resumed for the first time, or that
\* has ended, has a fiber.  Only a thread that ran sets its cancelState, and
\* OSCancelThread resumes the others before it clears their counters.
FiberInv ==
    /\ RunningNotSuspended /\ RunnableHasFiber
    /\ \A t \in Thread :
        /\ state[t] = "Waiting" => t \in fiber
        /\ cancelState[t] => t \in fiber \/ Terminated(t)
        /\ pc[t] = "cancelling" => /\ target[t] \in Thread
                                   /\ target[t] \in fiber \/ Terminated(target[t])

\* Who is in a queue of another thread called for it.
PlaceInv ==
    \A t, u \in Thread :
        /\ t \in Listed(links, JoinQueue[u]) => pc[t] = "joining" /\ target[t] = u
        /\ t \in Listed(links, SuspendQueue[u]) => pc[t] = "suspending" /\ target[t] = u
        /\ t \in Listed(links, "game") => pc[t] = "asleep"

\* A thread that has ended and looks as if it had not been created may not be
\* joined, as it is detached.
EndInv ==
    /\ JoinSeesExit
    /\ \A u \in Thread :
         /\ Terminated(u) => Listed(links, SuspendQueue[u]) = {}
         /\ u \in ended /\ state[u] = "None" => u \in detached

SuspendersKnown(u) ==
    \/ Terminated(u)
    \/ \E t \in Thread : pc[t] = "cancelling" /\ target[t] = u
    \/ requestFlag[u] = "Cancel"
    \/ /\ Cardinality(Listed(links, SuspendQueue[u])) =< needSuspend[u]
       /\ needSuspend[u] =< Cardinality(Suspenders(u))

RefusalKnown(t) == suspendResult[t] = -1 => Lost(t) /\ pc[t] = "suspending"

RefusalInv == \A t \in Thread : SuspendersKnown(t) /\ RefusalKnown(t)

LifeInv ==
    LifeTypes /\ Lists(links, state) /\ FiberInv /\ PlaceInv /\ EndInv /\ RefusalInv

LEMMA QueuesOfThreads ==
    /\ "game" \in WaitQueue
    /\ \A t \in Thread : JoinQueue[t] \in WaitQueue /\ SuspendQueue[t] \in WaitQueue
    /\ \A t, u \in Thread :
          /\ JoinQueue[t] # SuspendQueue[u] /\ JoinQueue[t] # "game" /\ SuspendQueue[t] # "game"
          /\ JoinQueue[t] = JoinQueue[u] => t = u
          /\ SuspendQueue[t] = SuspendQueue[u] => t = u
  BY UsesAssumption, LifeAssumption DEF LifeQueue

LEMMA OnlyWaitersListed ==
    ASSUME LifeInv, NEW q \in WaitQueue
    PROVE  /\ Listed(links, q) \subseteq Thread
           /\ \A t \in Listed(links, q) : state[t] = "Waiting"
           /\ \A r \in WaitQueue, t \in Listed(links, q) : t \in Listed(links, r) => r = q
  BY ListedWait DEF LifeInv, LifeTypes

(* What leaves the parts of the invariant alone. *)
LEMMA PlaceKept ==
    ASSUME LifeInv, NEW t \in Thread, state[t] # "Waiting",
           \A q \in WaitQueue : Listed(links', q) \subseteq Listed(links, q),
           \A w \in Thread \ {t} : pc'[w] = pc[w] /\ target'[w] = target[w]
    PROVE  PlaceInv'
<1>1. \A q \in WaitQueue : t \notin Listed(links, q)
  BY OnlyWaitersListed
<1>2. PlaceInv
  BY DEF LifeInv
<1>3. ASSUME NEW w \in Thread, NEW u \in Thread
      PROVE  /\ w \in Listed(links', JoinQueue[u]) => pc'[w] = "joining" /\ target'[w] = u
             /\ w \in Listed(links', SuspendQueue[u]) => pc'[w] = "suspending" /\ target'[w] = u
             /\ w \in Listed(links', "game") => pc'[w] = "asleep"
  <2>1. JoinQueue[u] \in WaitQueue /\ SuspendQueue[u] \in WaitQueue /\ "game" \in WaitQueue
    BY QueuesOfThreads
  <2> QED BY <1>1, <1>2, <2>1 DEF PlaceInv
<1> QED BY <1>3 DEF PlaceInv

LEMMA EndKept ==
    ASSUME LifeInv, ended' = ended, detached \subseteq detached',
           \A q \in WaitQueue : Listed(links', q) \subseteq Listed(links, q),
           \A w \in Thread :
              /\ pc'[w] = "joining" => pc[w] = "joining" /\ target'[w] = target[w]
              /\ state'[w] # "Waiting" /\ pc[w] = "joining" => state[w] # "Waiting"
              /\ state'[w] \in {"None", "Moribund"} => state'[w] = state[w]
    PROVE  EndInv'
<1>1. EndInv
  BY DEF LifeInv
<1>2. \A u \in Thread : JoinQueue[u] \in WaitQueue /\ SuspendQueue[u] \in WaitQueue
  BY QueuesOfThreads
<1>3. ASSUME NEW u \in Thread
      PROVE  /\ u \in ended' /\ state'[u] \in {"None", "Moribund"}
                   => Listed(links', JoinQueue[u]) = {}
             /\ state'[u] \in {"None", "Moribund"} => Listed(links', SuspendQueue[u]) = {}
             /\ u \in ended' /\ state'[u] = "None" => u \in detached'
  BY <1>1, <1>2 DEF EndInv, JoinSeesExit, Terminated
<1>4. ASSUME NEW u \in Thread, NEW t \in Thread,
             pc'[t] = "joining", target'[t] = u, state'[t] # "Waiting"
      PROVE  u \in ended'
  BY <1>1, <1>4 DEF EndInv, JoinSeesExit
<1> QED BY <1>3, <1>4 DEF EndInv, JoinSeesExit, Terminated

LEMMA SuspendersMany ==
    /\ Cardinality({}) = 0
    /\ \A u \in Thread : Cardinality(Suspenders(u)) \in Nat /\ Cardinality(Suspenders(u)') \in Nat
<1>1. \A u \in Thread : Suspenders(u) \subseteq Thread /\ Suspenders(u)' \subseteq Thread
  BY DEF Suspenders
<1> HIDE DEF Suspenders
<1>2. \A u \in Thread : IsFiniteSet(Suspenders(u)) /\ IsFiniteSet(Suspenders(u)')
  BY <1>1, FS_Subset
<1> QED BY <1>2, FS_EmptySet, FS_CardinalityType

LEMMA SuspendersKept ==
    ASSUME LifeInv, NEW u \in Thread, SuspendersKnown(u),
           state[u] \in {"None", "Moribund"} => state'[u] \in {"None", "Moribund"},
           \A t \in Thread : pc[t] = "cancelling" /\ target[t] = u
                                => pc'[t] = "cancelling" /\ target'[t] = u,
           requestFlag'[u] = requestFlag[u], needSuspend'[u] = needSuspend[u],
           Listed(links', SuspendQueue[u]) = Listed(links, SuspendQueue[u]),
           \A w \in Thread : state[w] = "Waiting" /\ pc[w] = "suspending" /\ target[w] = u
                                => /\ state'[w] = "Waiting"
                                   /\ pc'[w] = pc[w] /\ target'[w] = target[w]
    PROVE  SuspendersKnown(u)'
<1>1. /\ Suspenders(u) \subseteq Suspenders(u)' /\ IsFiniteSet(Suspenders(u)')
      /\ IsFiniteSet(Suspenders(u))
  BY FS_Subset DEF Suspenders
<1>2. /\ Cardinality(Suspenders(u)) =< Cardinality(Suspenders(u)')
      /\ Cardinality(Suspenders(u)) \in Nat /\ Cardinality(Suspenders(u)') \in Nat
  BY <1>1, FS_Subset, FS_CardinalityType
<1> HIDE DEF Suspenders
<1>3. CASE /\ Cardinality(Listed(links, SuspendQueue[u])) =< needSuspend[u]
           /\ needSuspend[u] =< Cardinality(Suspenders(u))
  <2>1. needSuspend[u] \in Nat
    BY DEF LifeInv, LifeTypes
  <2> QED BY <1>2, <1>3, <2>1 DEF SuspendersKnown
<1> QED BY <1>3 DEF SuspendersKnown, Terminated

\* Steps that make no thread wait lose only those they take off a list.
LEMMA LosesNobody ==
    ASSUME \A w \in Thread : state'[w] = "Waiting" =>
              /\ state[w] = "Waiting"
              /\ \/ suspendResult'[w] = -1
                 \/ \A q \in WaitQueue : w \in Listed(links, q) => w \in Listed(links', q)
    PROVE  LosesRefused
  BY DEF LosesRefused, Lost

LEMMA RefusalKept ==
    ASSUME NEW t \in Thread, RefusalKnown(t),
           state'[t] = "Waiting" <=> state[t] = "Waiting",
           \A q \in WaitQueue : t \in Listed(links', q) <=> t \in Listed(links, q),
           suspendResult'[t] = suspendResult[t],
           state[t] = "Waiting" => pc'[t] = pc[t]
    PROVE  RefusalKnown(t)'
  BY DEF RefusalKnown, Lost

LEMMA LifeStart == Init /\ using \subseteq LifeCalls => LifeInv
<1> SUFFICES ASSUME Init, using \subseteq LifeCalls PROVE LifeInv
  OBVIOUS
<1>1. /\ pc = [t \in Thread |-> "guest"] /\ links = EmptyLinks /\ state = Created /\ LifeInit
  BY DEF Init
<1>2. state \in [Thread -> States] /\ \A t \in Thread : state[t] \in {"Running", "Ready"}
  BY <1>1 DEF Created, States
<1>3. /\ links \in LinksType /\ Lists(links, state)
      /\ \A q \in WaitQueue : Listed(links, q) = {}
  BY <1>1, <1>2, EmptyLists
<1>4. LifeTypes
  BY <1>1, <1>2, <1>3 DEF LifeTypes, LifeInit, LifePlaces, Link
<1>5. FiberInv
  BY <1>1, <1>2 DEF FiberInv, LifeInit, RunningNotSuspended, RunnableHasFiber
<1>6. PlaceInv
  BY <1>3, QueuesOfThreads DEF PlaceInv
<1>7. EndInv
  BY <1>1, <1>2, <1>3, QueuesOfThreads DEF EndInv, JoinSeesExit, LifeInit, Terminated
<1>8. RefusalInv
  <2> SUFFICES ASSUME NEW t \in Thread PROVE SuspendersKnown(t) /\ RefusalKnown(t)
    BY DEF RefusalInv
  <2>1. needSuspend[t] = 0 /\ Listed(links, SuspendQueue[t]) = {} /\ Cardinality({}) = 0
    BY <1>1, <1>3, QueuesOfThreads, FS_EmptySet DEF LifeInit
  <2>2. SuspendersKnown(t)
    BY <2>1, SuspendersMany DEF SuspendersKnown
  <2>3. RefusalKnown(t)
    BY <1>1, <1>2 DEF RefusalKnown, Lost, LifeInit
  <2> QED BY <2>2, <2>3
<1> QED BY <1>3, <1>4, <1>5, <1>6, <1>7, <1>8 DEF LifeInv

-----------------------------------------------------------------------------
(* The life of threads: steps that leave the queues alone. *)

LEMMA ListsKept ==
    ASSUME LifeInv, state' \in [Thread -> States], links' = links,
           \A u \in Thread : state[u] = "Waiting" => state'[u] = "Waiting"
    PROVE  links' \in LinksType /\ Lists(links', state')
  BY ListsStay DEF LifeInv, LifeTypes

LEMMA DispatchStep ==
    ASSUME LifeInv, NEW t \in Thread, DispatchThread(t)
    PROVE  LifeInv' /\ LosesRefused
<1>1. /\ state[t] = "Ready" /\ t \in fiber /\ suspendCounter[t] = 0
      /\ state' = [state EXCEPT ![t] = "Running"] /\ UNCHANGED <<pc, links, lifeVars>>
  BY DEF DispatchThread, Dispatch
<1>2. LifeTypes'
  BY <1>1 DEF LifeInv, LifeTypes, States, lifeVars
<1>3. \A w \in Thread : state'[w] = IF w = t THEN "Running" ELSE state[w]
  BY <1>1 DEF LifeInv, LifeTypes
<1>4. Lists(links, state)'
  BY <1>1, <1>2, <1>3, ListsKept DEF LifeTypes
<1>5. FiberInv'
  BY <1>1, <1>3
     DEF LifeInv, FiberInv, RunningNotSuspended, RunnableHasFiber, Terminated, lifeVars
<1>6. PlaceInv'
  BY <1>1, PlaceKept DEF lifeVars
<1>7. EndInv'
  BY <1>1, <1>3, EndKept DEF lifeVars
<1>8. RefusalInv'
  <2> SUFFICES ASSUME NEW w \in Thread
               PROVE  SuspendersKnown(w)' /\ RefusalKnown(w)'
    BY DEF RefusalInv
  <2>1. SuspendersKnown(w) /\ RefusalKnown(w)
    BY DEF LifeInv, RefusalInv
  <2>2. SuspendersKnown(w)'
    BY <1>1, <1>3, <2>1, SuspendersKept DEF lifeVars
  <2>3. RefusalKnown(w)'
    BY <1>1, <1>3, <2>1, RefusalKept DEF lifeVars
  <2> QED BY <2>2, <2>3
<1>9. LosesRefused
  BY <1>1, <1>3, LosesNobody
<1> QED BY <1>2, <1>4, <1>5, <1>6, <1>7, <1>8, <1>9 DEF LifeInv

LEMMA ReturnStep ==
    ASSUME LifeInv, NEW t \in Thread, CallReturns(t)
    PROVE  LifeInv' /\ LosesRefused
<1>1. /\ state[t] = "Running" /\ pc[t] \in {"suspending", "joining", "asleep"}
      /\ pc' = [pc EXCEPT ![t] = "guest"] /\ target' = [target EXCEPT ![t] = NoThread]
      /\ UNCHANGED <<state, links, suspendCounter, needSuspend, requestFlag,
                     cancelState, suspendResult, fiber, detached, ended>>
  BY DEF CallReturns, At, Goto
<1>2. LifeTypes'
  BY <1>1 DEF LifeInv, LifeTypes, LifePlaces, Link
<1>3. /\ \A w \in Thread \ {t} : pc'[w] = pc[w] /\ target'[w] = target[w]
      /\ pc'[t] = "guest"
  BY <1>1 DEF LifeInv, LifeTypes
<1>4. Lists(links, state)'
  BY <1>1 DEF LifeInv
<1>5. FiberInv'
  BY <1>1, <1>3
     DEF LifeInv, FiberInv, RunningNotSuspended, RunnableHasFiber, Terminated
<1>6. PlaceInv'
  BY <1>1, <1>3, PlaceKept
<1>7. EndInv'
  BY <1>1, <1>3, EndKept
<1>8. RefusalInv'
  <2> SUFFICES ASSUME NEW w \in Thread
               PROVE  SuspendersKnown(w)' /\ RefusalKnown(w)'
    BY DEF RefusalInv
  <2>1. SuspendersKnown(w) /\ RefusalKnown(w)
    BY DEF LifeInv, RefusalInv
  <2>2. SuspendersKnown(w)'
    BY <1>1, <1>3, <2>1, SuspendersKept
  <2>3. RefusalKnown(w)'
    BY <1>1, <1>3, <2>1, RefusalKept
  <2> QED BY <2>2, <2>3
<1>9. LosesRefused
  BY <1>1, LosesNobody
<1> QED BY <1>2, <1>4, <1>5, <1>6, <1>7, <1>8, <1>9 DEF LifeInv

\* Of OSResumeThread, OSContinueThread.
LEMMA ResumeStep ==
    ASSUME LifeInv, NEW t \in Thread, NEW u \in Thread,
           OSResumeThread(t, u) \/ OSContinueThread(t, u)
    PROVE  LifeInv' /\ LosesRefused
<1>1. /\ state[t] = "Running" /\ pc[t] = "guest"
      /\ state' = state \/ state' = [state EXCEPT ![t] = "Ready"]
      /\ UNCHANGED <<pc, links, needSuspend, requestFlag, cancelState,
                     suspendResult, detached, ended, target>>
  BY DEF OSResumeThread, OSContinueThread, At, MayReschedule, Rescheduled
<1>2. PICK n \in Nat : OSResumeThreadNoLock(u, n) /\ (n = 1 \/ n = suspendCounter[u])
  BY DEF OSResumeThread, OSContinueThread, LifeInv, LifeTypes
<1>3. /\ suspendCounter' = [suspendCounter EXCEPT ![u] = IF @ > n THEN @ - n ELSE 0]
      /\ fiber' = IF suspendCounter[u] = n /\ state[u] = "Ready"
                  THEN fiber \cup {u} ELSE fiber
  BY <1>2 DEF OSResumeThreadNoLock
<1>4. state' \in [Thread -> States]
  BY <1>1 DEF LifeInv, LifeTypes, States
<1>5. suspendCounter' \in [Thread -> Nat]
  BY <1>3 DEF LifeInv, LifeTypes
<1>6. LifeTypes'
  BY <1>1, <1>3, <1>4, <1>5 DEF LifeInv, LifeTypes
<1>7. /\ \A w \in Thread \ {t} : state'[w] = state[w]
      /\ state'[t] \in {"Running", "Ready"}
  BY <1>1 DEF LifeInv, LifeTypes
<1>8. Lists(links, state)'
  BY <1>1, <1>4, <1>7, ListsKept
<1>9. FiberInv'
  <2>1. fiber \subseteq fiber' /\ t \in fiber /\ suspendCounter[t] = 0
    BY <1>1, <1>3 DEF LifeInv, FiberInv, RunningNotSuspended
  <2>2. \A w \in Thread : /\ suspendCounter[w] = 0 => suspendCounter'[w] = 0
                          /\ w # u => suspendCounter'[w] = suspendCounter[w]
    BY <1>3 DEF LifeInv, LifeTypes
  <2>3. RunningNotSuspended'
    BY <1>1, <1>7, <2>1, <2>2 DEF LifeInv, FiberInv, RunningNotSuspended
  <2>4. suspendCounter'[u] = 0 => suspendCounter[u] = 0 \/ suspendCounter[u] = n
    <3>1. suspendCounter[u] \in Nat /\ suspendCounter'[u] =
             IF suspendCounter[u] > n THEN suspendCounter[u] - n ELSE 0
      BY <1>3 DEF LifeInv, LifeTypes
    <3> QED BY <1>2, <3>1
  <2>5. RunnableHasFiber'
    <3> SUFFICES ASSUME NEW w \in Thread, state'[w] = "Ready", suspendCounter'[w] = 0
                 PROVE  w \in fiber'
      BY DEF RunnableHasFiber
    <3>1. CASE w = t
      BY <3>1, <2>1
    <3>2. CASE w # t
      BY <3>2, <1>3, <1>7, <2>1, <2>2, <2>4 DEF LifeInv, FiberInv, RunnableHasFiber
    <3> QED BY <3>1, <3>2
  <2> QED BY <1>1, <1>7, <2>1, <2>3, <2>5 DEF LifeInv, FiberInv, Terminated
<1>10. PlaceInv'
  BY <1>1, PlaceKept
<1>11. EndInv'
  BY <1>1, <1>7, EndKept
<1>12. RefusalInv'
  <2> SUFFICES ASSUME NEW w \in Thread
               PROVE  SuspendersKnown(w)' /\ RefusalKnown(w)'
    BY DEF RefusalInv
  <2>1. SuspendersKnown(w) /\ RefusalKnown(w)
    BY DEF LifeInv, RefusalInv
  <2>2. SuspendersKnown(w)'
    BY <1>1, <1>7, <2>1, SuspendersKept
  <2>3. RefusalKnown(w)'
    BY <1>1, <1>7, <2>1, RefusalKept
  <2> QED BY <2>2, <2>3
<1>13. LosesRefused
  BY <1>1, <1>7, LosesNobody
<1> QED BY <1>6, <1>8, <1>9, <1>10, <1>11, <1>12, <1>13 DEF LifeInv

\* What changes a counter, an attribute or the flag of the caller.
LEMMA AttributeStep ==
    ASSUME LifeInv, NEW t \in Thread,
           \/ OSSetThreadCancelState(t)
           \/ \E u \in Thread : SuspendAgain(t, u) \/ OSDetachThread(t, u)
    PROVE  LifeInv' /\ LosesRefused
<1>1. /\ state[t] = "Running" /\ pc[t] = "guest" /\ t \in fiber
      /\ UNCHANGED <<threadVars, needSuspend, requestFlag, suspendResult, fiber, ended, target>>
  BY DEF OSSetThreadCancelState, SuspendAgain, OSDetachThread, At, LifeInv, FiberInv,
         RunningNotSuspended
<1>2. \/ suspendCounter' = suspendCounter
      \/ \E u \in Thread : /\ suspendCounter[u] >= 1
                           /\ suspendCounter' = [suspendCounter EXCEPT ![u] = @ + 1]
  BY DEF OSSetThreadCancelState, SuspendAgain, OSDetachThread
<1>3. detached' = detached \/ \E u \in Thread : detached' = detached \cup {u}
  BY DEF OSSetThreadCancelState, SuspendAgain, OSDetachThread
<1>4. cancelState' = cancelState \/ cancelState' = [cancelState EXCEPT ![t] = ~@]
  BY DEF OSSetThreadCancelState, SuspendAgain, OSDetachThread
<1>5. /\ suspendCounter' \in [Thread -> Nat]
      /\ \A w \in Thread : suspendCounter'[w] = 0 <=> suspendCounter[w] = 0
  BY <1>2 DEF LifeInv, LifeTypes
<1>6. /\ cancelState' \in [Thread -> BOOLEAN]
      /\ \A w \in Thread : w # t => cancelState'[w] = cancelState[w]
  <2>1. cancelState \in [Thread -> BOOLEAN]
    BY DEF LifeInv, LifeTypes
  <2> QED BY <1>4, <2>1
<1>7. LifeTypes'
  BY <1>1, <1>3, <1>5, <1>6 DEF LifeInv, LifeTypes, threadVars
<1>8. Lists(links, state)'
  BY <1>1 DEF LifeInv, threadVars
<1>9. FiberInv'
  BY <1>1, <1>5, <1>6
     DEF LifeInv, FiberInv, RunningNotSuspended, RunnableHasFiber, Terminated, threadVars
<1>10. PlaceInv'
  BY <1>1, PlaceKept DEF threadVars
<1>11. EndInv'
  BY <1>1, <1>3, EndKept DEF threadVars
<1>12. RefusalInv'
  <2> SUFFICES ASSUME NEW w \in Thread
               PROVE  SuspendersKnown(w)' /\ RefusalKnown(w)'
    BY DEF RefusalInv
  <2>1. SuspendersKnown(w) /\ RefusalKnown(w)
    BY DEF LifeInv, RefusalInv
  <2>2. SuspendersKnown(w)'
    BY <1>1, <2>1, SuspendersKept DEF threadVars
  <2>3. RefusalKnown(w)'
    BY <1>1, <2>1, RefusalKept DEF threadVars
  <2> QED BY <2>2, <2>3
<1>13. LosesRefused
  BY <1>1, LosesNobody DEF threadVars
<1> QED BY <1>7, <1>8, <1>9, <1>10, <1>11, <1>12, <1>13 DEF LifeInv

\* OSCreateThread and OSRunThread: a thread that has ended starts anew.
LEMMA StartStep ==
    ASSUME LifeInv, NEW t \in Thread, NEW u \in Thread,
           OSCreateThread(t, u) \/ OSRunThread(t, u)
    PROVE  LifeInv' /\ LosesRefused
<1>1. /\ state[t] = "Running" /\ pc[t] = "guest" /\ t \in fiber /\ suspendCounter[t] = 0
      /\ Terminated(u) /\ t # u
      /\ UNCHANGED <<pc, links, target>>
  BY DEF OSCreateThread, OSRunThread, At, Terminated, LifeInv, FiberInv, RunningNotSuspended
<1>2. /\ state' \in [Thread -> States]
      /\ \A w \in Thread \ {t, u} : state'[w] = state[w]
      /\ state'[t] \in {"Running", "Ready"}
      /\ state'[u] \in {"Ready", "None"}
  BY <1>1 DEF OSCreateThread, OSRunThread, Rescheduled, LifeInv, LifeTypes, States
<1>3. /\ \E n \in Nat : suspendCounter' = [suspendCounter EXCEPT ![u] = n]
      /\ needSuspend' = [needSuspend EXCEPT ![u] = 0]
      /\ requestFlag' = [requestFlag EXCEPT ![u] = "None"]
      /\ cancelState' = cancelState \/ cancelState' = [cancelState EXCEPT ![u] = FALSE]
      /\ suspendResult' = suspendResult \/ suspendResult' = [suspendResult EXCEPT ![u] = 0]
      /\ fiber \subseteq fiber' /\ fiber' \subseteq Thread
      /\ suspendCounter'[u] = 0 => u \in fiber'
  BY DEF OSCreateThread, OSRunThread, LifeInv, LifeTypes
<1>4. \/ state'[u] = "Ready" /\ ended' = ended /\ detached' = detached
      \/ /\ ended' = ended \ {u}
         /\ detached \ {u} \subseteq detached' /\ detached' \subseteq detached \cup {u}
         /\ \A w \in Thread : target[w] # u
  <2>1. CASE OSCreateThread(t, u)
    BY <2>1 DEF OSCreateThread
  <2>2. CASE OSRunThread(t, u)
    BY <2>2, <1>1 DEF OSRunThread, Rescheduled, LifeInv, LifeTypes
  <2> QED BY <2>1, <2>2
<1>5. LifeTypes'
  <2>1. cancelState' \in [Thread -> BOOLEAN]
    BY <1>3 DEF LifeInv, LifeTypes
  <2>2. detached' \subseteq Thread /\ ended' \subseteq Thread
    BY <1>4 DEF LifeInv, LifeTypes
  <2>3. /\ suspendCounter' \in [Thread -> Nat] /\ needSuspend' \in [Thread -> Nat]
        /\ requestFlag' \in [Thread -> {"None", "Suspend", "Cancel"}]
    BY <1>3 DEF LifeInv, LifeTypes
  <2>4. suspendResult' \in [Thread -> {0, -1}]
    BY <1>3 DEF LifeInv, LifeTypes
  <2> QED BY <1>1, <1>2, <1>3, <2>1, <2>2, <2>3, <2>4 DEF LifeInv, LifeTypes
<1>6. Lists(links, state)'
  BY <1>1, <1>2, ListsKept DEF Terminated
<1>7. FiberInv'
  <2>1. \A w \in Thread \ {u} : /\ suspendCounter'[w] = suspendCounter[w]
                                /\ cancelState'[w] = cancelState[w]
    BY <1>3 DEF LifeInv, LifeTypes
  <2>2. cancelState'[u] => u \in fiber' \/ state'[u] = "None"
    <3>1. CASE OSCreateThread(t, u)
      BY <3>1 DEF OSCreateThread, LifeInv, LifeTypes
    <3>2. CASE OSRunThread(t, u)
      BY <3>2 DEF OSRunThread
    <3> QED BY <3>1, <3>2
  <2>3. ASSUME NEW w \in Thread, pc[w] = "cancelling", target[w] = u
        PROVE  u \in fiber'
    <3>1. CASE OSCreateThread(t, u)
      BY <3>1, <2>3 DEF OSCreateThread
    <3>2. CASE OSRunThread(t, u)
      BY <3>2 DEF OSRunThread
    <3> QED BY <3>1, <3>2
  <2>4. RunningNotSuspended' /\ RunnableHasFiber'
    BY <1>1, <1>2, <1>3, <2>1 DEF LifeInv, FiberInv, RunningNotSuspended, RunnableHasFiber
  <2>5. ASSUME NEW w \in Thread
        PROVE  /\ state'[w] = "Waiting" => w \in fiber'
               /\ cancelState'[w] => w \in fiber' \/ Terminated(w)'
    BY <1>1, <1>2, <1>3, <2>1, <2>2 DEF LifeInv, FiberInv, Terminated
  <2>6. ASSUME NEW w \in Thread, pc'[w] = "cancelling"
        PROVE  /\ target'[w] \in Thread
               /\ target'[w] \in fiber' \/ state'[target'[w]] \in {"None", "Moribund"}
    <3>1. /\ pc[w] = "cancelling" /\ target'[w] = target[w] /\ target[w] \in Thread
          /\ target[w] \in fiber \/ Terminated(target[w])
      BY <2>6, <1>1 DEF LifeInv, FiberInv
    <3>2. CASE target[w] = u
      BY <3>1, <3>2, <2>3
    <3>3. CASE target[w] # u
      BY <3>1, <3>3, <1>1, <1>2, <1>3 DEF Terminated
    <3> QED BY <3>1, <3>2, <3>3
  <2> QED BY <2>4, <2>5, <2>6 DEF FiberInv, Terminated
<1>8. PlaceInv'
  BY <1>1, PlaceKept
<1>9. EndInv'
  <2>1. EndInv /\ Listed(links, SuspendQueue[u]) = {}
    BY <1>1 DEF LifeInv, EndInv
  <2>2. ASSUME NEW w \in Thread
        PROVE  /\ w \in ended' /\ state'[w] \in {"None", "Moribund"}
                     => Listed(links, JoinQueue[w]) = {}
               /\ state'[w] \in {"None", "Moribund"} => Listed(links, SuspendQueue[w]) = {}
               /\ w \in ended' /\ state'[w] = "None" => w \in detached'
    BY <1>1, <1>2, <1>4, <2>1 DEF EndInv, JoinSeesExit, Terminated
  <2>3. ASSUME NEW w \in Thread, NEW x \in Thread,
               pc[w] = "joining", target[w] = x, state'[w] # "Waiting"
        PROVE  x \in ended'
    BY <1>1, <1>2, <1>4, <2>1, <2>3 DEF EndInv, JoinSeesExit, Terminated
  <2> QED BY <1>1, <2>2, <2>3 DEF EndInv, JoinSeesExit, Terminated
<1>10. RefusalInv'
  <2> SUFFICES ASSUME NEW w \in Thread
               PROVE  SuspendersKnown(w)' /\ RefusalKnown(w)'
    BY DEF RefusalInv
  <2>1. SuspendersKnown(w) /\ RefusalKnown(w)
    BY DEF LifeInv, RefusalInv
  <2>2. SuspendersKnown(w)'
    <3>1. CASE w = u
      <4>1. needSuspend'[u] = 0 /\ Listed(links', SuspendQueue[u]) = {}
        BY <1>1, <1>3 DEF LifeInv, LifeTypes, EndInv
      <4> QED BY <3>1, <4>1, SuspendersMany DEF SuspendersKnown
    <3>2. CASE w # u
      <4>1. requestFlag'[w] = requestFlag[w] /\ needSuspend'[w] = needSuspend[w]
        BY <3>2, <1>3 DEF LifeInv, LifeTypes
      <4>2. state[w] \in {"None", "Moribund"} => state'[w] \in {"None", "Moribund"}
        BY <3>2, <1>1, <1>2
      <4>3. \A x \in Thread : state[x] = "Waiting" => state'[x] = "Waiting"
        BY <1>1, <1>2 DEF Terminated
      <4> QED BY <4>1, <4>2, <4>3, <1>1, <2>1, SuspendersKept
    <3> QED BY <3>1, <3>2
  <2>3. RefusalKnown(w)'
    <3>1. suspendResult'[w] = suspendResult[w]
      <4>1. w = u => suspendResult[w] = 0 /\ suspendResult'[w] = 0
        BY <1>1, <1>3, <2>1 DEF LifeInv, LifeTypes, RefusalKnown, Lost, Terminated
      <4> QED BY <4>1, <1>3 DEF LifeInv, LifeTypes
    <3>2. state'[w] = "Waiting" <=> state[w] = "Waiting"
      BY <1>1, <1>2 DEF Terminated
    <3> QED BY <3>1, <3>2, <1>1, <2>1, RefusalKept
  <2> QED BY <2>2, <2>3
<1>11. LosesRefused
  BY <1>1, <1>2, LosesNobody
<1> QED BY <1>5, <1>6, <1>7, <1>8, <1>9, <1>10, <1>11 DEF LifeInv

\* The end of OSCancelThread of another thread.
LEMMA CancelOther ==
    ASSUME LifeInv, NEW t \in Thread, NEW u \in Thread, t # u,
           state[t] = "Running", pc[t] = "guest" \/ target[t] = u,
           state[u] = "Ready" => u \in fiber, RequestCancel(t, u)
    PROVE  LifeInv' /\ LosesRefused
<1>1. /\ suspendCounter' = [suspendCounter EXCEPT ![u] = 0]
      /\ needSuspend' = [needSuspend EXCEPT ![u] = 0]
      /\ requestFlag' = [requestFlag EXCEPT ![u] = "Cancel"]
      /\ target' = [target EXCEPT ![t] = NoThread]
      /\ pc' = [pc EXCEPT ![t] = "guest"]
      /\ UNCHANGED <<state, links, suspendResult, fiber, ended, cancelState, detached>>
  BY DEF RequestCancel
<1>2. LifeTypes'
  BY <1>1 DEF LifeInv, LifeTypes, LifePlaces, Link
<1>3. /\ \A w \in Thread \ {t} : pc'[w] = pc[w] /\ target'[w] = target[w]
      /\ pc'[t] = "guest"
  BY <1>1 DEF LifeInv, LifeTypes
<1>4. \A w \in Thread : suspendCounter'[w] = IF w = u THEN 0 ELSE suspendCounter[w]
  BY <1>1 DEF LifeInv, LifeTypes
<1>5. Lists(links, state)'
  BY <1>1 DEF LifeInv
<1>6. FiberInv'
  BY <1>1, <1>3, <1>4
     DEF LifeInv, FiberInv, RunningNotSuspended, RunnableHasFiber, Terminated
<1>7. PlaceInv'
  BY <1>1, <1>3, PlaceKept
<1>8. EndInv'
  BY <1>1, <1>3, EndKept
<1>9. RefusalInv'
  <2> SUFFICES ASSUME NEW w \in Thread
               PROVE  SuspendersKnown(w)' /\ RefusalKnown(w)'
    BY DEF RefusalInv
  <2>1. SuspendersKnown(w) /\ RefusalKnown(w)
    BY DEF LifeInv, RefusalInv
  <2>2. SuspendersKnown(w)'
    <3>1. CASE w = u
      BY <3>1, <1>1 DEF SuspendersKnown, LifeInv, LifeTypes
    <3>2. CASE w # u
      <4>1. requestFlag'[w] = requestFlag[w] /\ needSuspend'[w] = needSuspend[w]
        BY <3>2, <1>1 DEF LifeInv, LifeTypes
      <4>2. \A x \in Thread : pc[x] = "cancelling" /\ target[x] = w
                                => pc'[x] = "cancelling" /\ target'[x] = w
        BY <3>2, <1>3
      <4> QED BY <4>1, <4>2, <1>1, <1>3, <2>1, SuspendersKept
    <3> QED BY <3>1, <3>2
  <2>3. RefusalKnown(w)'
    BY <1>1, <1>3, <2>1, RefusalKept
  <2> QED BY <2>2, <2>3
<1>10. LosesRefused
  BY <1>1, LosesNobody
<1> QED BY <1>2, <1>5, <1>6, <1>7, <1>8, <1>9, <1>10 DEF LifeInv

-----------------------------------------------------------------------------
(* The life of threads: steps that put a thread into a queue.                *)

LEMMA SleepKeeps ==
    ASSUME LifeInv, NEW t \in Thread, NEW q \in WaitQueue, NEW p \in LifePlaces,
           state[t] = "Running", OSSleepThreadNoLock(t, q, p), p # "cancelling",
           target' \in [Thread -> Link],
           \A w \in Thread \ {t} : target'[w] = target[w],
           UNCHANGED <<suspendCounter, cancelState, suspendResult, fiber, detached, ended>>,
           \A u \in Thread :
              /\ q = JoinQueue[u] => /\ u \notin detached /\ state[u] # "Moribund"
                                     /\ p = "joining" /\ target'[t] = u
              /\ q = SuspendQueue[u] => ~Terminated(u) /\ p = "suspending" /\ target'[t] = u,
           q = "game" => p = "asleep"
    PROVE  /\ state' = [state EXCEPT ![t] = "Waiting"] /\ pc' = [pc EXCEPT ![t] = p]
           /\ links' \in LinksType /\ Lists(links, state)'
           /\ FiberInv' /\ PlaceInv' /\ EndInv'
           /\ \A r \in WaitQueue \ {q} : Listed(links', r) = Listed(links, r)
           /\ Listed(links', q) \subseteq Listed(links, q) \cup {t}
           /\ LosesRefused /\ \A w \in Thread : RefusalKnown(w)'
<1>1. /\ state' = [state EXCEPT ![t] = "Waiting"] /\ pc' = [pc EXCEPT ![t] = p]
      /\ links' = OSInsertThreadQueue(links, q, t)
  BY DEF OSSleepThreadNoLock, Goto
<1>2. /\ state \in [Thread -> States] /\ links \in LinksType /\ Lists(links, state)
      /\ pc \in [Thread -> LifePlaces]
  BY DEF LifeInv, LifeTypes
<1>3. /\ state' \in [Thread -> States]
      /\ \A w \in Thread : state'[w] = IF w = t THEN "Waiting" ELSE state[w]
      /\ \A w \in Thread : pc'[w] = IF w = t THEN p ELSE pc[w]
  BY <1>1, <1>2 DEF States
<1>4. /\ links' \in LinksType /\ Lists(links', state')
      /\ \A r \in WaitQueue \ {q} : Listed(links', r) = Listed(links, r)
      /\ Listed(links, q) \subseteq Listed(links', q)
      /\ Listed(links', q) \subseteq Listed(links, q) \cup {t}
      /\ t \in Listed(links', q) \/ PutBeforeHead(links, links', q, t)
  <2>1. \A w \in Thread : state[w] = "Waiting" => state'[w] = "Waiting"
    BY <1>3
  <2>2. state[t] # "Waiting" /\ state'[t] = "Waiting"
    BY <1>3
  <2>3. state' \in [Thread -> States] /\ state[t] # "Waiting"
        /\ links' = OSInsertThreadQueue(links, q, t)
    BY <1>1, <1>3, <2>2
  <2> QED BY <1>2, <2>1, <2>2, <2>3, SleepLists
<1>5. LosesRefused
  <2> SUFFICES ASSUME NEW w \in Thread, Lost(w)'
               PROVE  \/ Lost(w)
                      \/ state[w] # "Waiting" /\ PutBeforeHead(links, links', q, w)
    BY DEF LosesRefused
  <2>1. CASE w = t
    BY <1>4, <2>1 DEF Lost
  <2>2. CASE w # t
    BY <1>3, <1>4, <2>2 DEF Lost
  <2> QED BY <2>1, <2>2
<1>6. FiberInv'
  BY <1>3 DEF LifeInv, FiberInv, RunningNotSuspended, RunnableHasFiber, Terminated
<1>7. \A r \in WaitQueue : t \notin Listed(links, r)
  BY OnlyWaitersListed
<1>8. \A u \in Thread : JoinQueue[u] \in WaitQueue /\ SuspendQueue[u] \in WaitQueue
  BY QueuesOfThreads
<1>9. PlaceInv'
  <2>1. PlaceInv /\ "game" \in WaitQueue
    BY QueuesOfThreads DEF LifeInv
  <2>2. ASSUME NEW w \in Thread, NEW u \in Thread
        PROVE  /\ w \in Listed(links', JoinQueue[u]) => pc'[w] = "joining" /\ target'[w] = u
               /\ w \in Listed(links', SuspendQueue[u]) => pc'[w] = "suspending" /\ target'[w] = u
               /\ w \in Listed(links', "game") => pc'[w] = "asleep"
    <3>1. CASE w = t
      BY <3>1, <1>3, <1>4, <1>7, <1>8, <2>1
    <3>2. CASE w # t
      <4>1. \A r \in WaitQueue : w \in Listed(links', r) => w \in Listed(links, r)
        BY <3>2, <1>4
      <4> QED BY <3>2, <4>1, <1>3, <1>8, <2>1 DEF PlaceInv
    <3> QED BY <3>1, <3>2
  <2> QED BY <2>2 DEF PlaceInv
<1>10. EndInv'
  <2>1. EndInv
    BY DEF LifeInv
  <2>2. ASSUME NEW u \in Thread
        PROVE  /\ u \in ended /\ state'[u] \in {"None", "Moribund"}
                     => Listed(links', JoinQueue[u]) = {}
               /\ state'[u] \in {"None", "Moribund"} => Listed(links', SuspendQueue[u]) = {}
               /\ u \in ended /\ state'[u] = "None" => u \in detached
    BY <1>3, <1>4, <1>8, <2>1, SMTT(40) DEF EndInv, JoinSeesExit, Terminated
  <2>3. ASSUME NEW u \in Thread, NEW w \in Thread,
               pc'[w] = "joining", target'[w] = u, state'[w] # "Waiting"
        PROVE  u \in ended
    BY <1>3, <2>1, <2>3 DEF EndInv, JoinSeesExit
  <2> QED BY <2>2, <2>3 DEF EndInv, JoinSeesExit, Terminated
<1>11. ASSUME NEW w \in Thread PROVE RefusalKnown(w)'
  <2>1. RefusalKnown(w)
    BY <1>11 DEF LifeInv, RefusalInv
  <2>2. CASE w = t
    <3>1. suspendResult[t] # -1
      BY <2>1, <2>2 DEF RefusalKnown, Lost
    <3> QED BY <2>2, <3>1 DEF RefusalKnown
  <2>3. CASE w # t
    <3>1. \A r \in WaitQueue : w \in Listed(links', r) <=> w \in Listed(links, r)
      BY <2>3, <1>4
    <3> QED BY <2>1, <2>3, <3>1, <1>3, RefusalKept
  <2> QED BY <2>2, <2>3
<1> QED BY <1>1, <1>4, <1>5, <1>6, <1>9, <1>10, <1>11

LEMMA SleepStep ==
    ASSUME LifeInv, NEW t \in Thread,
           OSSleepThread(t) \/ \E u \in Thread : OSJoinThread(t, u) \/ AskToSuspend(t, u)
    PROVE  LifeInv' /\ LosesRefused
<1>1. state[t] = "Running" /\ pc[t] = "guest" /\ t \in fiber
  BY DEF OSSleepThread, OSJoinThread, AskToSuspend, At, LifeInv, FiberInv,
         RunningNotSuspended
<1>2. PICK q \in WaitQueue, p \in LifePlaces :
        /\ OSSleepThreadNoLock(t, q, p) /\ p # "cancelling"
        /\ target' \in [Thread -> Link]
        /\ \A w \in Thread \ {t} : target'[w] = target[w]
        /\ UNCHANGED <<suspendCounter, cancelState, suspendResult, fiber, detached, ended>>
        /\ \A u \in Thread :
              /\ q = JoinQueue[u] => /\ u \notin detached /\ state[u] # "Moribund"
                                     /\ p = "joining" /\ target'[t] = u
              /\ q = SuspendQueue[u] => ~Terminated(u) /\ p = "suspending" /\ target'[t] = u
                                        /\ AskToSuspend(t, u)
        /\ q = "game" => p = "asleep"
        /\ \/ needSuspend' = needSuspend /\ requestFlag' = requestFlag
           \/ \E u \in Thread : q = SuspendQueue[u]
  <2>1. CASE OSSleepThread(t)
    <3>1. /\ OSSleepThreadNoLock(t, "game", "asleep") /\ UNCHANGED lifeVars
          /\ "game" \in WaitQueue /\ "asleep" \in LifePlaces
      BY <2>1, QueuesOfThreads DEF OSSleepThread, LifePlaces
    <3>2. target' \in [Thread -> Link] /\ \A w \in Thread \ {t} : target'[w] = target[w]
      BY <3>1 DEF lifeVars, LifeInv, LifeTypes
    <3>3. \A u \in Thread : JoinQueue[u] # "game" /\ SuspendQueue[u] # "game"
      BY QueuesOfThreads
    <3> QED BY <3>1, <3>2, <3>3 DEF lifeVars
  <2>2. CASE \E u \in Thread : OSJoinThread(t, u)
    <3>1. PICK u \in Thread : OSJoinThread(t, u)
      BY <2>2
    <3>2. /\ OSSleepThreadNoLock(t, JoinQueue[u], "joining")
          /\ JoinQueue[u] \in WaitQueue /\ "joining" \in LifePlaces
          /\ u \notin detached /\ state[u] # "Moribund"
          /\ UNCHANGED <<suspendCounter, cancelState, suspendResult, fiber, detached,
                         ended, needSuspend, requestFlag>>
      BY <3>1, QueuesOfThreads DEF OSJoinThread, LifePlaces
    <3>3. /\ target' \in [Thread -> Link] /\ \A w \in Thread \ {t} : target'[w] = target[w]
          /\ target'[t] = u
      BY <3>1 DEF OSJoinThread, LifeInv, LifeTypes, Link
    <3>4. \A w \in Thread : /\ JoinQueue[w] = JoinQueue[u] => w = u
                            /\ SuspendQueue[w] # JoinQueue[u]
          /\ JoinQueue[u] # "game"
      BY QueuesOfThreads
    <3> QED BY <3>2, <3>3, <3>4
  <2>3. CASE \E u \in Thread : AskToSuspend(t, u)
    <3>1. PICK u \in Thread : AskToSuspend(t, u)
      BY <2>3
    <3>2. /\ OSSleepThreadNoLock(t, SuspendQueue[u], "suspending")
          /\ SuspendQueue[u] \in WaitQueue /\ "suspending" \in LifePlaces
          /\ ~Terminated(u)
          /\ UNCHANGED <<suspendCounter, cancelState, suspendResult, fiber, detached, ended>>
      BY <3>1, QueuesOfThreads DEF AskToSuspend, MaySuspend, LifePlaces
    <3>3. /\ target' \in [Thread -> Link] /\ \A w \in Thread \ {t} : target'[w] = target[w]
          /\ target'[t] = u
      BY <3>1 DEF AskToSuspend, LifeInv, LifeTypes, Link
    <3>4. \A w \in Thread : /\ SuspendQueue[w] = SuspendQueue[u] => w = u
                            /\ JoinQueue[w] # SuspendQueue[u]
          /\ SuspendQueue[u] # "game"
      BY QueuesOfThreads
    <3> QED BY <3>1, <3>2, <3>3, <3>4
  <2> QED BY <2>1, <2>2, <2>3
<1>3. /\ state' = [state EXCEPT ![t] = "Waiting"] /\ pc' = [pc EXCEPT ![t] = p]
      /\ links' \in LinksType /\ Lists(links, state)'
      /\ FiberInv' /\ PlaceInv' /\ EndInv'
      /\ \A r \in WaitQueue \ {q} : Listed(links', r) = Listed(links, r)
      /\ Listed(links', q) \subseteq Listed(links, q) \cup {t}
      /\ LosesRefused /\ \A w \in Thread : RefusalKnown(w)'
  BY <1>1, <1>2, SleepKeeps
<1>4. LifeTypes'
  <2>1. needSuspend' \in [Thread -> Nat] /\ requestFlag' \in [Thread -> {"None", "Suspend", "Cancel"}]
    BY <1>2 DEF AskToSuspend, LifeInv, LifeTypes
  <2> QED BY <1>2, <1>3, <2>1 DEF LifeInv, LifeTypes, States
<1>5. ASSUME NEW w \in Thread PROVE SuspendersKnown(w)'
  <2>1. SuspendersKnown(w)
    BY <1>5 DEF LifeInv, RefusalInv
  <2>2. /\ state[w] \in {"None", "Moribund"} => state'[w] \in {"None", "Moribund"}
        /\ \A x \in Thread : pc[x] = "cancelling" /\ target[x] = w
                                => pc'[x] = "cancelling" /\ target'[x] = w
        /\ \A x \in Thread : state[x] = "Waiting"
              => /\ state'[x] = "Waiting" /\ pc'[x] = pc[x] /\ target'[x] = target[x]
    BY <1>1, <1>2, <1>3 DEF LifeInv, LifeTypes
  <2>3. SuspendQueue[w] \in WaitQueue
    BY QueuesOfThreads
  <2>4. CASE q # SuspendQueue[w]
    <3>1. needSuspend'[w] = needSuspend[w] /\ requestFlag'[w] = requestFlag[w]
      BY <1>2, <2>4 DEF AskToSuspend, LifeInv, LifeTypes
    <3> QED BY <1>3, <2>1, <2>2, <2>3, <2>4, <3>1, SuspendersKept
  <2>5. CASE q = SuspendQueue[w]
    <3>1. /\ requestFlag[w] # "Cancel" /\ ~Terminated(w)
          /\ needSuspend'[w] = needSuspend[w] + 1
      BY <1>2, <2>5 DEF AskToSuspend, MaySuspend, LifeInv, LifeTypes
    <3>2. /\ t \notin Listed(links, q) /\ Listed(links, q) \subseteq Thread
          /\ Listed(links', q) \subseteq Listed(links, q) \cup {t}
      BY <1>1, <1>3, OnlyWaitersListed
    <3>3. /\ Cardinality(Listed(links', q)) =< Cardinality(Listed(links, q)) + 1
          /\ Cardinality(Listed(links', q)) \in Nat /\ Cardinality(Listed(links, q)) \in Nat
      <4>1. /\ IsFiniteSet(Listed(links, q))
            /\ Cardinality(Listed(links, q) \cup {t}) = Cardinality(Listed(links, q)) + 1
        BY <3>2, FS_Subset, FS_AddElement
      <4>2. IsFiniteSet(Listed(links, q) \cup {t})
        BY <4>1, FS_AddElement
      <4> QED BY <3>2, <4>1, <4>2, FS_Subset, FS_CardinalityType
    <3>4. /\ Cardinality(Suspenders(w)) + 1 =< Cardinality(Suspenders(w)')
          /\ Cardinality(Suspenders(w)) \in Nat /\ Cardinality(Suspenders(w)') \in Nat
      <4>1. /\ state'[t] = "Waiting" /\ pc'[t] = "suspending" /\ target'[t] = w
            /\ state[t] # "Waiting"
        BY <1>1, <1>2, <1>3, <2>5 DEF LifeInv, LifeTypes
      <4>2. /\ Suspenders(w) \cup {t} \subseteq Suspenders(w)' /\ t \notin Suspenders(w)
            /\ Suspenders(w) \subseteq Thread /\ Suspenders(w)' \subseteq Thread
        BY <2>2, <4>1 DEF Suspenders
      <4> HIDE DEF Suspenders
      <4>3. /\ IsFiniteSet(Suspenders(w)) /\ IsFiniteSet(Suspenders(w)')
            /\ Cardinality(Suspenders(w) \cup {t}) = Cardinality(Suspenders(w)) + 1
        BY <4>2, FS_Subset, FS_AddElement
      <4> QED BY <4>2, <4>3, FS_Subset, FS_CardinalityType
    <3>5. needSuspend[w] \in Nat
      BY DEF LifeInv, LifeTypes
    <3>6. \/ \E x \in Thread : pc[x] = "cancelling" /\ target[x] = w
          \/ /\ Cardinality(Listed(links, q)) =< needSuspend[w]
             /\ needSuspend[w] =< Cardinality(Suspenders(w))
      BY <2>1, <2>5, <3>1 DEF SuspendersKnown
    <3>7. \/ \E x \in Thread : pc'[x] = "cancelling" /\ target'[x] = w
          \/ /\ Cardinality(Listed(links', q)) =< needSuspend'[w]
             /\ needSuspend'[w] =< Cardinality(Suspenders(w)')
      BY <2>2, <3>1, <3>3, <3>4, <3>5, <3>6
    <3> QED BY <2>5, <3>7 DEF SuspendersKnown
  <2> QED BY <2>4, <2>5
<1> QED BY <1>3, <1>4, <1>5 DEF LifeInv, RefusalInv

-----------------------------------------------------------------------------
(* The life of threads: steps that wake a queue.                             *)

LEMMA WakeKeeps ==
    ASSUME LifeInv, NEW t \in Thread, NEW q \in WaitQueue,
           state[t] = "Running", state'[t] \in {"Running", "Ready"},
           state' \in [Thread -> States], links' = OSClearQueue(links, q),
           \A w \in Thread \ {t} :
              state'[w] = IF w \in Listed(links, q) THEN "Ready" ELSE state[w],
           \A w \in Listed(links, q) : pc[w] # "joining",
           UNCHANGED <<pc, target, suspendResult, detached, ended>>
    PROVE  /\ links' \in LinksType /\ Lists(links, state)'
           /\ PlaceInv' /\ EndInv'
           /\ \A r \in WaitQueue \ {q} : Listed(links', r) = Listed(links, r)
           /\ Listed(links', q) = {}
           /\ LosesRefused /\ \A w \in Thread : RefusalKnown(w)'
<1>1. /\ state \in [Thread -> States] /\ links \in LinksType /\ Lists(links, state)
  BY DEF LifeInv, LifeTypes
<1>2. /\ links' \in LinksType /\ Lists(links', state')
      /\ \A r \in WaitQueue \ {q} : Listed(links', r) = Listed(links, r)
      /\ Listed(links', q) = {}
  <2>1. \A w \in Thread : state[w] = "Waiting" /\ w \notin Listed(links, q)
                             => state'[w] = "Waiting"
    OBVIOUS
  <2> QED BY <1>1, <2>1, ClearLists
<1>3. \A r \in WaitQueue : Listed(links', r) \subseteq Listed(links, r)
  BY <1>2
<1>4. \A w \in Listed(links, q) : w \in Thread /\ state[w] = "Waiting"
                                  /\ \A r \in WaitQueue : w \in Listed(links, r) => r = q
  BY OnlyWaitersListed
<1>5. PlaceInv'
  BY <1>3, PlaceKept
<1>6. EndInv'
  <2>1. \A w \in Thread :
           /\ pc'[w] = "joining" => pc[w] = "joining" /\ target'[w] = target[w]
           /\ state'[w] # "Waiting" /\ pc[w] = "joining" => state[w] # "Waiting"
           /\ state'[w] \in {"None", "Moribund"} => state'[w] = state[w]
    BY <1>4
  <2> QED BY <1>3, <2>1, EndKept
<1>7. ASSUME NEW w \in Thread PROVE RefusalKnown(w)'
  <2>1. RefusalKnown(w)
    BY <1>7 DEF LifeInv, RefusalInv
  <2>2. CASE w \in Listed(links, q)
    <3>1. suspendResult'[w] # -1 /\ state'[w] = "Ready"
      BY <1>4, <2>1, <2>2 DEF RefusalKnown, Lost
    <3> QED BY <3>1 DEF RefusalKnown, Lost
  <2>3. CASE w \notin Listed(links, q)
    <3>1. \A r \in WaitQueue : w \in Listed(links', r) <=> w \in Listed(links, r)
      BY <1>2, <2>3
    <3>2. state'[w] = "Waiting" <=> state[w] = "Waiting"
      BY <2>3
    <3> QED BY <2>1, <3>1, <3>2, RefusalKept
  <2> QED BY <2>2, <2>3
<1>8. LosesRefused
  BY <1>2, <1>4, LosesNobody
<1> QED BY <1>2, <1>5, <1>6, <1>7, <1>8

\* OSWakeupThread.
LEMMA WakeupStep ==
    ASSUME LifeInv, NEW t \in Thread, OSWakeupThread(t)
    PROVE  LifeInv' /\ LosesRefused
<1>1. /\ state[t] = "Running" /\ state' = Woken(state, Listed(links, "game"))
      /\ links' = OSClearQueue(links, "game") /\ UNCHANGED <<pc, lifeVars>>
  BY DEF OSWakeupThread, At
<1>2. "game" \in WaitQueue /\ t \notin Listed(links, "game")
  BY <1>1, OnlyWaitersListed, QueuesOfThreads
<1>3. /\ state' \in [Thread -> States] /\ state'[t] = "Running"
      /\ \A w \in Thread : state'[w] = IF w \in Listed(links, "game") THEN "Ready" ELSE state[w]
  BY <1>1, <1>2 DEF Woken, LifeInv, LifeTypes, States
<1>4. \A w \in Listed(links, "game") : /\ w \in Thread /\ state[w] = "Waiting"
                                       /\ pc[w] = "asleep"
  BY <1>2, OnlyWaitersListed DEF LifeInv, PlaceInv
<1>5. /\ links' \in LinksType /\ Lists(links, state)'
      /\ PlaceInv' /\ EndInv'
      /\ \A r \in WaitQueue \ {"game"} : Listed(links', r) = Listed(links, r)
      /\ LosesRefused /\ \A w \in Thread : RefusalKnown(w)'
  <2>1. UNCHANGED <<pc, target, suspendResult, detached, ended>>
    BY <1>1 DEF lifeVars
  <2> QED BY <1>1, <1>2, <1>3, <1>4, <2>1, WakeKeeps
<1>6. LifeTypes'
  BY <1>1, <1>3, <1>5 DEF LifeInv, LifeTypes, lifeVars
<1>7. FiberInv'
  <2>1. UNCHANGED <<pc, suspendCounter, fiber, cancelState, target>>
    BY <1>1 DEF lifeVars
  <2> QED BY <2>1, <1>3, <1>4
          DEF LifeInv, FiberInv, RunningNotSuspended, RunnableHasFiber, Terminated
<1>8. ASSUME NEW w \in Thread PROVE SuspendersKnown(w)'
  <2>1. SuspendersKnown(w)
    BY <1>8 DEF LifeInv, RefusalInv
  <2>2. Listed(links', SuspendQueue[w]) = Listed(links, SuspendQueue[w])
    BY <1>5, QueuesOfThreads
  <2>3. state[w] \in {"None", "Moribund"} => state'[w] \in {"None", "Moribund"}
    BY <1>3, <1>4
  <2>4. \A x \in Thread : state[x] = "Waiting" /\ pc[x] = "suspending"
                             => state'[x] = "Waiting"
    BY <1>3, <1>4
  <2> QED BY <1>1, <2>1, <2>2, <2>3, <2>4, SuspendersKept DEF lifeVars
<1> QED BY <1>5, <1>6, <1>7, <1>8 DEF LifeInv, RefusalInv

\* A thread suspends itself, or does what it was asked.
LEMMA SuspendStep ==
    ASSUME LifeInv, NEW t \in Thread, SuspendSelf(t) \/ TestSuspend(t)
    PROVE  LifeInv' /\ LosesRefused
<1> DEFINE q == SuspendQueue[t]
<1>1. PICK needed \in Nat :
        /\ state[t] = "Running"
        /\ OSSuspendThreadNoLock(t, needed)
        /\ UNCHANGED <<pc, cancelState, suspendResult, fiber, detached, ended, target>>
  BY DEF SuspendSelf, TestSuspend, At, LifeInv, LifeTypes
<1>2. /\ requestFlag' = [requestFlag EXCEPT ![t] = "None"]
      /\ suspendCounter' = [suspendCounter EXCEPT ![t] = @ + needed]
      /\ needSuspend' = [needSuspend EXCEPT ![t] = 0]
      /\ state' = [Woken(state, Listed(links, q)) EXCEPT ![t] = "Ready"]
      /\ links' = OSClearQueue(links, q)
  BY <1>1 DEF OSSuspendThreadNoLock
<1>3. q \in WaitQueue /\ t \in fiber
  BY <1>1, QueuesOfThreads DEF LifeInv, FiberInv, RunningNotSuspended
<1>4. /\ state' \in [Thread -> States] /\ state'[t] = "Ready"
      /\ \A w \in Thread \ {t} :
            state'[w] = IF w \in Listed(links, q) THEN "Ready" ELSE state[w]
  BY <1>2 DEF Woken, LifeInv, LifeTypes, States
<1>5. \A w \in Listed(links, q) : /\ w \in Thread /\ state[w] = "Waiting"
                                  /\ pc[w] = "suspending" /\ target[w] = t
  <2>1. \A w \in Listed(links, q) : w \in Thread /\ state[w] = "Waiting"
    BY <1>3, OnlyWaitersListed
  <2> QED BY <2>1 DEF LifeInv, PlaceInv
<1> HIDE DEF q
<1>6. /\ links' \in LinksType /\ Lists(links, state)'
      /\ PlaceInv' /\ EndInv'
      /\ \A r \in WaitQueue \ {q} : Listed(links', r) = Listed(links, r)
      /\ Listed(links', q) = {}
      /\ LosesRefused /\ \A w \in Thread : RefusalKnown(w)'
  BY <1>1, <1>2, <1>3, <1>4, <1>5, WakeKeeps
<1>7. /\ \A w \in Thread \ {t} : suspendCounter'[w] = suspendCounter[w]
      /\ suspendCounter' \in [Thread -> Nat]
  BY <1>2 DEF LifeInv, LifeTypes
<1>8. LifeTypes'
  BY <1>1, <1>2, <1>4, <1>6, <1>7 DEF LifeInv, LifeTypes
<1>9. FiberInv'
  BY <1>1, <1>3, <1>4, <1>5, <1>7
     DEF LifeInv, FiberInv, RunningNotSuspended, RunnableHasFiber, Terminated
<1>10. ASSUME NEW w \in Thread PROVE SuspendersKnown(w)'
  <2>1. CASE w = t
    <3>1. needSuspend'[t] = 0 /\ Listed(links', SuspendQueue[t]) = {}
      BY <1>2, <1>6 DEF LifeInv, LifeTypes, q
    <3> QED BY <2>1, <3>1, SuspendersMany DEF SuspendersKnown
  <2>2. CASE w # t
    <3>1. SuspendersKnown(w)
      BY <1>10 DEF LifeInv, RefusalInv
    <3>2. Listed(links', SuspendQueue[w]) = Listed(links, SuspendQueue[w])
      BY <1>6, <2>2, QueuesOfThreads DEF q
    <3>3. state[w] \in {"None", "Moribund"} => state'[w] \in {"None", "Moribund"}
      BY <1>4, <1>5, <2>2
    <3>4. requestFlag'[w] = requestFlag[w] /\ needSuspend'[w] = needSuspend[w]
      BY <1>2, <2>2 DEF LifeInv, LifeTypes
    <3>5. \A x \in Thread : state[x] = "Waiting" /\ target[x] = w => state'[x] = "Waiting"
      BY <1>1, <1>4, <1>5, <2>2
    <3> QED BY <1>1, <3>1, <3>2, <3>3, <3>4, <3>5, SuspendersKept
  <2> QED BY <2>1, <2>2
<1> QED BY <1>6, <1>8, <1>9, <1>10 DEF LifeInv, RefusalInv

-----------------------------------------------------------------------------
(* The life of threads: steps that refuse a suspension.                      *)

\* Those who were queued for u's suspension stay Waiting, and nothing leads
\* to them any more.
LEMMA RefusedKnown ==
    ASSUME LifeInv, NEW u \in Thread, Refused(u), NEW w \in Thread,
           w \in Listed(links, SuspendQueue[u]),
           \A r \in WaitQueue : w \notin Listed(links', r),
           state'[w] = "Waiting", pc'[w] = pc[w]
    PROVE  RefusalKnown(w)'
<1>1. suspendResult'[w] = -1
  BY DEF Refused
<1>2. pc'[w] = "suspending"
  BY DEF LifeInv, PlaceInv
<1> QED BY <1>1, <1>2 DEF RefusalKnown, Lost

LEMMA CancelStep ==
    ASSUME LifeInv, NEW t \in Thread, NEW u \in Thread, CancelReschedules(t, u)
    PROVE  LifeInv' /\ LosesRefused
<1> DEFINE q == SuspendQueue[u]
<1>1. /\ state[t] = "Running" /\ pc[t] = "guest" /\ Reschedules(u)
      /\ state' = [state EXCEPT ![t] = "Ready"]
      /\ pc' = [pc EXCEPT ![t] = "cancelling"] /\ target' = [target EXCEPT ![t] = u]
      /\ UNCHANGED <<needSuspend, requestFlag, cancelState, detached, ended>>
  BY DEF CancelReschedules, At
<1>2. \/ requestFlag[u] = "Suspend" /\ Refused(u) /\ links' = OSClearQueue(links, q)
      \/ UNCHANGED <<suspendResult, links>>
  BY DEF CancelReschedules
<1>3. /\ fiber \subseteq fiber' /\ fiber' \subseteq Thread
      /\ \A w \in Thread \ {u} : suspendCounter'[w] = suspendCounter[w]
      /\ suspendCounter' \in [Thread -> Nat]
      /\ suspendCounter'[u] = 0 /\ state[u] = "Ready" => u \in fiber'
      /\ suspendCounter[u] = 0 => suspendCounter'[u] = 0
      /\ state[u] = "Ready" => u \in fiber'
  <2>1. CASE Resumes(u)
    <3>1. /\ suspendCounter' = [suspendCounter EXCEPT ![u] = 0]
          /\ fiber' = IF state[u] = "Ready" THEN fiber \cup {u} ELSE fiber
      BY <2>1 DEF CancelReschedules, OSResumeThreadNoLock, LifeInv, LifeTypes
    <3> QED BY <3>1 DEF LifeInv, LifeTypes
  <2>2. CASE ~Resumes(u)
    <3>1. suspendCounter' = suspendCounter /\ fiber' = fiber
      BY <2>2 DEF CancelReschedules
    <3>2. state[u] = "Ready" => u \in fiber
      BY <2>2 DEF Resumes, LifeInv, FiberInv, RunnableHasFiber, Terminated
    <3> QED BY <3>1, <3>2 DEF LifeInv, LifeTypes
  <2> QED BY <2>1, <2>2
<1>4. /\ state' \in [Thread -> States]
      /\ \A w \in Thread : state'[w] = IF w = t THEN "Ready" ELSE state[w]
      /\ \A w \in Thread : pc'[w] = IF w = t THEN "cancelling" ELSE pc[w]
      /\ \A w \in Thread : target'[w] = IF w = t THEN u ELSE target[w]
  BY <1>1 DEF LifeInv, LifeTypes, States
<1>5. q \in WaitQueue /\ \A r \in WaitQueue : t \notin Listed(links, r)
  BY <1>1, OnlyWaitersListed, QueuesOfThreads
<1>6. /\ links' \in LinksType /\ Lists(links', state')
      /\ \A r \in WaitQueue \ {q} : Listed(links', r) = Listed(links, r)
      /\ \/ requestFlag[u] = "Suspend" /\ Refused(u) /\ Listed(links', q) = {}
         \/ suspendResult' = suspendResult /\ Listed(links', q) = Listed(links, q)
  <2> HIDE DEF q
  <2>1. \A w \in Thread : state[w] = "Waiting" => state'[w] = "Waiting"
    BY <1>1, <1>4
  <2>2. CASE UNCHANGED <<suspendResult, links>>
    BY <2>1, <2>2, <1>4, ListsKept
  <2>3. CASE requestFlag[u] = "Suspend" /\ Refused(u) /\ links' = OSClearQueue(links, q)
    <3>1. /\ state \in [Thread -> States] /\ links \in LinksType /\ Lists(links, state)
          /\ state' \in [Thread -> States] /\ links' = OSClearQueue(links, q)
      BY <2>3, <1>4 DEF LifeInv, LifeTypes
    <3>2. /\ links' \in LinksType /\ Lists(links', state')
          /\ \A r \in WaitQueue \ {q} : Listed(links', r) = Listed(links, r)
          /\ Listed(links', q) = {}
      BY <3>1, <2>1, <1>5, ClearLists
    <3> QED BY <2>3, <3>2
  <2> QED BY <1>2, <2>2, <2>3
<1> HIDE DEF q
<1>7. LifeTypes'
  <2>1. suspendResult' \in [Thread -> {0, -1}]
    BY <1>6 DEF Refused, LifeInv, LifeTypes
  <2> QED BY <1>1, <1>3, <1>4, <1>6, <2>1 DEF LifeInv, LifeTypes, LifePlaces, Link
<1>8. FiberInv'
  <2>1. t \in fiber /\ suspendCounter[t] = 0
    BY <1>1 DEF LifeInv, FiberInv, RunningNotSuspended
  <2>2. RunningNotSuspended' /\ RunnableHasFiber'
    BY <1>3, <1>4, <2>1
       DEF LifeInv, FiberInv, RunningNotSuspended, RunnableHasFiber
  <2>3. u \in fiber' \/ state'[u] \in {"None", "Moribund"}
    <3>1. state[u] \in {"Running", "Ready", "Waiting", "None", "Moribund"}
      BY DEF LifeInv, LifeTypes, States
    <3>2. state[u] \in {"Running", "Waiting"} => u \in fiber
      BY DEF LifeInv, FiberInv, RunningNotSuspended
    <3> QED BY <1>3, <1>4, <2>1, <3>1, <3>2
  <2> QED BY <1>1, <1>3, <1>4, <2>1, <2>2, <2>3 DEF LifeInv, FiberInv, Terminated
<1>9. \A r \in WaitQueue : Listed(links', r) \subseteq Listed(links, r)
  BY <1>6
<1>10. PlaceInv'
  BY <1>1, <1>4, <1>9, PlaceKept
<1>11. EndInv'
  BY <1>1, <1>4, <1>9, EndKept
<1>12. ASSUME NEW w \in Thread PROVE SuspendersKnown(w)'
  <2>1. CASE w = u
    BY <2>1, <1>4 DEF SuspendersKnown
  <2>2. CASE w # u
    <3>1. SuspendersKnown(w)
      BY <1>12 DEF LifeInv, RefusalInv
    <3>2. Listed(links', SuspendQueue[w]) = Listed(links, SuspendQueue[w])
      BY <1>6, <2>2, QueuesOfThreads DEF q
    <3>3. state[w] \in {"None", "Moribund"} => state'[w] \in {"None", "Moribund"}
      BY <1>1, <1>4
    <3>4. \A x \in Thread : pc[x] = "cancelling" /\ target[x] = w
                               => pc'[x] = "cancelling" /\ target'[x] = w
      BY <1>1, <1>4
    <3> QED BY <1>1, <1>4, <3>1, <3>2, <3>3, <3>4, SuspendersKept
  <2> QED BY <2>1, <2>2
<1>13. ASSUME NEW w \in Thread PROVE RefusalKnown(w)'
  <2>1. RefusalKnown(w)
    BY <1>13 DEF LifeInv, RefusalInv
  <2>2. CASE Refused(u) /\ Listed(links', q) = {} /\ w \in Listed(links, q)
    <3>1. \A r \in WaitQueue : w \notin Listed(links', r)
      BY <2>2, <1>5, <1>6, OnlyWaitersListed
    <3>2. state'[w] = "Waiting" /\ pc'[w] = pc[w]
      BY <2>2, <1>4, <1>5, OnlyWaitersListed
    <3> QED BY <2>2, <3>1, <3>2, RefusedKnown DEF q
  <2>3. CASE ~(Refused(u) /\ Listed(links', q) = {} /\ w \in Listed(links, q))
    <3>1. \A r \in WaitQueue : w \in Listed(links', r) <=> w \in Listed(links, r)
      BY <2>3, <1>6
    <3>2. suspendResult'[w] = suspendResult[w]
      BY <2>3, <1>6 DEF Refused, q
    <3>3. state'[w] = "Waiting" <=> state[w] = "Waiting"
      BY <1>1, <1>4
    <3>4. state[w] = "Waiting" => pc'[w] = pc[w]
      BY <1>1, <1>4
    <3> QED BY <2>1, <3>1, <3>2, <3>3, <3>4, RefusalKept
  <2> QED BY <2>2, <2>3
<1>14. LosesRefused
  <2>1. ASSUME NEW w \in Thread, state'[w] = "Waiting"
        PROVE  \/ suspendResult'[w] = -1
               \/ \A r \in WaitQueue : w \in Listed(links, r) => w \in Listed(links', r)
    <3>1. CASE Refused(u) /\ w \in Listed(links, q)
      BY <3>1 DEF Refused, q
    <3>2. CASE ~(Refused(u) /\ w \in Listed(links, q))
      BY <3>2, <1>6
    <3> QED BY <3>1, <3>2
  <2> QED BY <1>4, <2>1, LosesNobody
<1> QED BY <1>6, <1>7, <1>8, <1>10, <1>11, <1>12, <1>13, <1>14 DEF LifeInv, RefusalInv

\* OSExitThread, of a thread that returns, is cancelled or cancels itself.
LEMMA ExitStep ==
    ASSUME LifeInv, NEW t \in Thread, state[t] = "Running", OSExitThread(t),
           pc[t] = "guest" \/ target[t] = t,
           suspendCounter' \in [Thread -> Nat], needSuspend' \in [Thread -> Nat],
           requestFlag' \in [Thread -> {"None", "Suspend", "Cancel"}],
           \A w \in Thread \ {t} : /\ suspendCounter'[w] = suspendCounter[w]
                                   /\ needSuspend'[w] = needSuspend[w]
                                   /\ requestFlag'[w] = requestFlag[w],
           UNCHANGED <<cancelState, detached>>
    PROVE  LifeInv' /\ LosesRefused
<1> DEFINE j == JoinQueue[t]
           q == SuspendQueue[t]
           l1 == OSClearQueue(links, j)
<1>1. /\ state' = [Woken(state, Listed(links, j))
                     EXCEPT ![t] = IF t \in detached THEN "None" ELSE "Moribund"]
      /\ links' = OSClearQueue(l1, q)
      /\ Refused(t) /\ fiber' = fiber \ {t} /\ ended' = ended \cup {t}
      /\ pc' = [pc EXCEPT ![t] = "guest"] /\ target' = [target EXCEPT ![t] = NoThread]
  BY DEF OSExitThread
<1>2. /\ state \in [Thread -> States] /\ links \in LinksType /\ Lists(links, state)
      /\ pc \in [Thread -> LifePlaces] /\ target \in [Thread -> Link]
  BY DEF LifeInv, LifeTypes
<1>3. /\ j \in WaitQueue /\ q \in WaitQueue /\ j # q
      /\ \A w \in Thread : /\ JoinQueue[w] \in WaitQueue /\ SuspendQueue[w] \in WaitQueue
                           /\ JoinQueue[w] # q /\ SuspendQueue[w] # j
                           /\ JoinQueue[w] = j => w = t
                           /\ SuspendQueue[w] = q => w = t
  BY QueuesOfThreads
<1>4. \A r \in WaitQueue : \A w \in Listed(links, r) :
         /\ w \in Thread /\ state[w] = "Waiting" /\ w # t
         /\ \A r2 \in WaitQueue : w \in Listed(links, r2) => r2 = r
  BY OnlyWaitersListed
<1>5. /\ state' \in [Thread -> States]
      /\ state'[t] \in {"None", "Moribund"} /\ (state'[t] = "None" => t \in detached)
      /\ \A w \in Thread \ {t} : state'[w] = IF w \in Listed(links, j) THEN "Ready" ELSE state[w]
      /\ \A w \in Thread : pc'[w] = IF w = t THEN "guest" ELSE pc[w]
      /\ \A w \in Thread : target'[w] = IF w = t THEN NoThread ELSE target[w]
  BY <1>1, <1>2 DEF Woken, States
<1> HIDE DEF j, q, l1
<1>6. /\ links' \in LinksType /\ Lists(links', state')
      /\ Listed(links', j) = {} /\ Listed(links', q) = {}
      /\ \A r \in WaitQueue \ {j, q} : Listed(links', r) = Listed(links, r)
  <2>1. \A w \in Thread : state[w] = "Waiting" /\ w \notin Listed(links, j)
                             => state'[w] = "Waiting"
    BY <1>5
  <2>2. l1 = OSClearQueue(links, j)
    BY DEF l1
  <2>3. /\ l1 \in LinksType /\ Lists(l1, state')
        /\ \A r \in WaitQueue \ {j} : Listed(l1, r) = Listed(links, r)
        /\ Listed(l1, j) = {}
    BY <1>2, <1>3, <1>5, <2>1, <2>2, ClearLists
  <2>4. links' = OSClearQueue(l1, q)
    BY <1>1
  <2>5. /\ links' \in LinksType /\ Lists(links', state')
        /\ \A r \in WaitQueue \ {q} : Listed(links', r) = Listed(l1, r)
        /\ Listed(links', q) = {}
    BY <1>3, <1>5, <2>3, <2>4, ClearLists
  <2> QED BY <1>3, <2>3, <2>5
<1>7. LifeTypes'
  <2>1. suspendResult' \in [Thread -> {0, -1}]
    BY <1>1 DEF Refused, LifeInv, LifeTypes
  <2>2. /\ pc' \in [Thread -> LifePlaces] /\ target' \in [Thread -> Link]
        /\ fiber' \subseteq Thread /\ ended' \subseteq Thread
    BY <1>1, <1>2 DEF LifePlaces, Link, LifeInv, LifeTypes
  <2> QED BY <1>5, <1>6, <2>1, <2>2 DEF LifeInv, LifeTypes
<1>8. FiberInv'
  <2>1. \A w \in Listed(links, j) : w \in fiber
    BY <1>3, <1>4 DEF LifeInv, FiberInv
  <2>2. RunningNotSuspended' /\ RunnableHasFiber'
    BY <1>1, <1>5, <2>1 DEF LifeInv, FiberInv, RunningNotSuspended, RunnableHasFiber
  <2>3. ASSUME NEW w \in Thread
        PROVE  /\ state'[w] = "Waiting" => w \in fiber'
               /\ cancelState'[w] => w \in fiber' \/ state'[w] \in {"None", "Moribund"}
    <3>1. CASE w = t
      BY <3>1, <1>5
    <3>2. CASE w # t
      BY <3>2, <1>1, <1>4, <1>3, <1>5, <2>1 DEF LifeInv, FiberInv, Terminated
    <3> QED BY <3>1, <3>2
  <2>4. ASSUME NEW w \in Thread, pc'[w] = "cancelling"
        PROVE  /\ target'[w] \in Thread
               /\ target'[w] \in fiber' \/ state'[target'[w]] \in {"None", "Moribund"}
    <3>1. w # t /\ pc[w] = "cancelling" /\ target'[w] = target[w]
      BY <2>4, <1>5
    <3>2. target[w] \in Thread /\ (target[w] \in fiber \/ Terminated(target[w]))
      BY <3>1 DEF LifeInv, FiberInv
    <3>3. CASE target[w] = t
      BY <3>1, <3>2, <3>3, <1>5
    <3>4. CASE target[w] # t
      BY <3>1, <3>2, <3>4, <1>1, <1>3, <1>4, <1>5 DEF Terminated
    <3> QED BY <3>1, <3>2, <3>3, <3>4
  <2> QED BY <2>2, <2>3, <2>4 DEF FiberInv, Terminated
<1>9. \A r \in WaitQueue : Listed(links', r) \subseteq Listed(links, r)
  BY <1>6
<1>10. PlaceInv'
  BY <1>5, <1>9, PlaceKept
<1>11. EndInv'
  <2>1. EndInv /\ PlaceInv
    BY DEF LifeInv
  <2>2. ASSUME NEW w \in Thread
        PROVE  /\ w \in ended' /\ state'[w] \in {"None", "Moribund"}
                     => Listed(links', JoinQueue[w]) = {}
               /\ state'[w] \in {"None", "Moribund"} => Listed(links', SuspendQueue[w]) = {}
               /\ w \in ended' /\ state'[w] = "None" => w \in detached
    <3>1. CASE w = t
      BY <3>1, <1>5, <1>6 DEF j, q
    <3>2. CASE w # t
      <4>1. state'[w] \in {"None", "Moribund"} => state'[w] = state[w]
        BY <3>2, <1>5
      <4>2. w \in ended' => w \in ended
        BY <3>2, <1>1
      <4>3. /\ Listed(links', JoinQueue[w]) \subseteq Listed(links, JoinQueue[w])
            /\ Listed(links', SuspendQueue[w]) \subseteq Listed(links, SuspendQueue[w])
        BY <1>3, <1>9
      <4> QED BY <2>1, <4>1, <4>2, <4>3 DEF EndInv, JoinSeesExit, Terminated
    <3> QED BY <3>1, <3>2
  <2>3. ASSUME NEW u \in Thread, NEW w \in Thread,
               pc'[w] = "joining", target'[w] = u, state'[w] # "Waiting"
        PROVE  u \in ended'
    <3>1. w # t /\ pc[w] = "joining" /\ target[w] = u
      BY <2>3, <1>5
    <3>2. CASE w \in Listed(links, j)
      BY <3>1, <3>2, <1>1, <2>1 DEF PlaceInv, j
    <3>3. CASE w \notin Listed(links, j)
      BY <3>1, <3>3, <2>3, <1>1, <1>5, <2>1 DEF EndInv, JoinSeesExit
    <3> QED BY <3>2, <3>3
  <2>4. UNCHANGED detached
    OBVIOUS
  <2> QED BY <2>2, <2>3, <2>4 DEF EndInv, JoinSeesExit, Terminated
<1>12. ASSUME NEW w \in Thread PROVE SuspendersKnown(w)'
  <2>1. CASE w = t
    BY <2>1, <1>5 DEF SuspendersKnown, Terminated
  <2>2. CASE w # t
    <3>1. SuspendersKnown(w)
      BY <1>12 DEF LifeInv, RefusalInv
    <3>2. Listed(links', SuspendQueue[w]) = Listed(links, SuspendQueue[w])
      BY <1>3, <1>6, <2>2
    <3>3. state[w] \in {"None", "Moribund"} => state'[w] \in {"None", "Moribund"}
      BY <1>3, <1>4, <1>5, <2>2
    <3>4. \A x \in Thread : pc[x] = "cancelling" /\ target[x] = w
                               => pc'[x] = "cancelling" /\ target'[x] = w
      BY <1>5, <2>2
    <3>5. \A x \in Thread : state[x] = "Waiting" /\ pc[x] = "suspending"
             => state'[x] = "Waiting" /\ pc'[x] = pc[x] /\ target'[x] = target[x]
      <4>1. PlaceInv
        BY DEF LifeInv
      <4>2. \A x \in Listed(links, j) : pc[x] = "joining"
        BY <4>1, <1>3, <1>4 DEF PlaceInv, j
      <4> QED BY <4>2, <1>5
    <3> QED BY <2>2, <3>1, <3>2, <3>3, <3>4, <3>5, SuspendersKept
  <2> QED BY <2>1, <2>2
<1>13. ASSUME NEW w \in Thread PROVE RefusalKnown(w)'
  <2>1. RefusalKnown(w)
    BY <1>13 DEF LifeInv, RefusalInv
  <2>2. CASE w \in Listed(links, q)
    <3>1. \A r \in WaitQueue : w \notin Listed(links', r)
      BY <2>2, <1>3, <1>4, <1>6
    <3>2. state'[w] = "Waiting" /\ pc'[w] = pc[w]
      BY <2>2, <1>3, <1>4, <1>5
    <3> QED BY <1>1, <2>2, <3>1, <3>2, RefusedKnown DEF q
  <2>3. CASE w \in Listed(links, j)
    <3>1. w \notin Listed(links, q)
      BY <2>3, <1>3, <1>4
    <3>2. suspendResult'[w] = suspendResult[w] /\ suspendResult[w] # -1
      BY <3>1, <2>1, <2>3, <1>1, <1>3 DEF Refused, RefusalKnown, Lost, q
    <3>3. state'[w] = "Ready"
      BY <2>3, <1>3, <1>4, <1>5
    <3> QED BY <3>2, <3>3 DEF RefusalKnown, Lost
  <2>4. CASE w \notin Listed(links, q) /\ w \notin Listed(links, j)
    <3>1. \A r \in WaitQueue : w \in Listed(links', r) <=> w \in Listed(links, r)
      BY <2>4, <1>6
    <3>2. suspendResult'[w] = suspendResult[w]
      BY <2>4, <1>1 DEF Refused, q
    <3>3. state'[w] = "Waiting" <=> state[w] = "Waiting"
      BY <2>4, <1>5
    <3>4. state[w] = "Waiting" => pc'[w] = pc[w]
      BY <1>5
    <3> QED BY <2>1, <3>1, <3>2, <3>3, <3>4, RefusalKept
  <2> QED BY <2>2, <2>3, <2>4
<1>14. LosesRefused
  <2>1. ASSUME NEW w \in Thread, state'[w] = "Waiting"
        PROVE  /\ state[w] = "Waiting"
               /\ \/ suspendResult'[w] = -1
                  \/ \A r \in WaitQueue : w \in Listed(links, r) => w \in Listed(links', r)
    <3>1. w # t /\ w \notin Listed(links, j) /\ state[w] = "Waiting"
      BY <2>1, <1>5
    <3>2. CASE w \in Listed(links, q)
      BY <3>1, <3>2, <1>1 DEF Refused, q
    <3>3. CASE w \notin Listed(links, q)
      BY <3>1, <3>3, <1>6
    <3> QED BY <3>1, <3>2, <3>3
  <2> QED BY <2>1, LosesNobody
<1> QED BY <1>6, <1>7, <1>8, <1>10, <1>11, <1>12, <1>13, <1>14 DEF LifeInv, RefusalInv

LEMMA RequestStep ==
    ASSUME LifeInv, NEW t \in Thread,
           CancelEnds(t) \/ \E u \in Thread : OSCancelThread(t, u)
    PROVE  LifeInv' /\ LosesRefused
<1>1. PICK u \in Thread : /\ RequestCancel(t, u) /\ state[t] = "Running"
                          /\ pc[t] = "guest" \/ target[t] = u
                          /\ state[u] = "Ready" => u \in fiber
  <2>1. CASE CancelEnds(t)
    <3>1. At(t, "cancelling") /\ RequestCancel(t, target[t])
      BY <2>1 DEF CancelEnds
    <3>2. target[t] \in Thread /\ (target[t] \in fiber \/ Terminated(target[t]))
      BY <3>1 DEF At, LifeInv, FiberInv
    <3> QED BY <3>1, <3>2 DEF At, Terminated
  <2>2. ASSUME NEW u \in Thread, OSCancelThread(t, u)
        PROVE  /\ RequestCancel(t, u) /\ At(t, "guest")
               /\ state[u] = "Ready" => u \in fiber
    <3>1. RequestCancel(t, u) /\ At(t, "guest") /\ ~Reschedules(u)
      BY <2>2 DEF OSCancelThread
    <3>2. suspendCounter[u] = 0 \/ cancelState[u]
      BY <3>1 DEF Reschedules, Resumes
    <3> QED BY <3>1, <3>2 DEF LifeInv, FiberInv, RunnableHasFiber, Terminated
  <2> QED BY <2>1, <2>2 DEF At
<1>2. CASE t # u
  BY <1>1, <1>2, CancelOther
<1>3. CASE t = u
  <2>1. /\ suspendCounter' = [suspendCounter EXCEPT ![t] = 0]
        /\ needSuspend' = [needSuspend EXCEPT ![t] = 0]
        /\ requestFlag' = [requestFlag EXCEPT ![t] = "Cancel"]
        /\ OSExitThread(t) /\ UNCHANGED <<cancelState, detached>>
    BY <1>1, <1>3 DEF RequestCancel
  <2>2. /\ suspendCounter' \in [Thread -> Nat] /\ needSuspend' \in [Thread -> Nat]
        /\ requestFlag' \in [Thread -> {"None", "Suspend", "Cancel"}]
        /\ \A w \in Thread \ {t} : /\ suspendCounter'[w] = suspendCounter[w]
                                   /\ needSuspend'[w] = needSuspend[w]
                                   /\ requestFlag'[w] = requestFlag[w]
    BY <2>1 DEF LifeInv, LifeTypes
  <2> QED BY <1>1, <1>3, <2>1, <2>2, ExitStep
<1> QED BY <1>2, <1>3

LEMMA EndStep ==
    ASSUME LifeInv, NEW t \in Thread, ThreadExits(t) \/ TestCancel(t)
    PROVE  LifeInv' /\ LosesRefused
<1>1. /\ state[t] = "Running" /\ pc[t] = "guest" /\ OSExitThread(t)
      /\ UNCHANGED <<suspendCounter, needSuspend, requestFlag, cancelState, detached>>
  BY DEF ThreadExits, TestCancel, At
<1>2. /\ suspendCounter' \in [Thread -> Nat] /\ needSuspend' \in [Thread -> Nat]
      /\ requestFlag' \in [Thread -> {"None", "Suspend", "Cancel"}]
  BY <1>1 DEF LifeInv, LifeTypes
<1> QED BY <1>1, <1>2, ExitStep

-----------------------------------------------------------------------------
(* The life of threads: theorems.                                            *)

LEMMA LifeStep ==
    ASSUME LifeInv, Threads
    PROVE  LifeInv' /\ LosesRefused
<1>1. CASE RunNext
  BY <1>1, DispatchStep, ReturnStep, EndStep, ResumeStep DEF RunNext
<1>2. CASE SuspendNext
  BY <1>2, SuspendStep, AttributeStep, ResumeStep, SleepStep DEF SuspendNext
<1>3. CASE CancelNext
  BY <1>3, EndStep, RequestStep, CancelStep DEF CancelNext
<1>4. CASE JoinNext
  BY <1>4, StartStep, SleepStep, AttributeStep DEF JoinNext
<1>5. CASE SleepNext
  BY <1>5, SleepStep, WakeupStep DEF SleepNext
<1> QED BY <1>1, <1>2, <1>3, <1>4, <1>5 DEF Threads

KernelUse == using \in Uses /\ (using \subseteq LifeCalls => LifeInv)

(* The inductive invariant of threads that are created, suspended, resumed,   *)
(* cancelled, joined and put to sleep by each other.                          *)
THEOREM LifeInvariant == Spec => []KernelUse
<1>1. Init => KernelUse
  BY LifeStart DEF Init, KernelUse
<1>2. KernelUse /\ [Next]_kernelVars => KernelUse'
  <2> SUFFICES ASSUME KernelUse, [Next]_kernelVars PROVE KernelUse'
    OBVIOUS
  <2> USE DEF KernelUse
  <2>1. CASE Threads
    BY <2>1, LifeStep DEF Threads
  <2>2. CASE AlarmsAndWaits \/ EventCalls \/ SpinLocks
    <3>1. using' = using /\ ~(using \subseteq LifeCalls)
      BY <2>2, UsesApart DEF AlarmsAndWaits, EventCalls, SpinLocks
    <3> QED BY <3>1
  <2>3. CASE UNCHANGED kernelVars
    <3>1. UNCHANGED <<threadVars, lifeVars, using>>
      BY <2>3 DEF kernelVars
    <3>2. \A u \in Thread : Suspenders(u)' = Suspenders(u)
      BY <3>1 DEF threadVars, lifeVars, Suspenders
    <3>3. LifeInv => LifeInv'
      <4>1. LifeTypes => LifeTypes'
        BY <3>1 DEF threadVars, lifeVars, LifeTypes
      <4>2. FiberInv => FiberInv'
        BY <3>1 DEF threadVars, lifeVars, FiberInv, RunningNotSuspended, RunnableHasFiber,
                    Terminated
      <4>3. (PlaceInv => PlaceInv') /\ (EndInv => EndInv')
        BY <3>1 DEF threadVars, lifeVars, PlaceInv, EndInv, JoinSeesExit, Terminated
      <4>4. RefusalInv => RefusalInv'
        BY <3>1, <3>2 DEF threadVars, lifeVars, RefusalInv, SuspendersKnown, RefusalKnown,
                          Lost, Terminated
      <4>5. Lists(links, state)' = Lists(links, state)
        BY <3>1 DEF threadVars
      <4> QED BY <4>1, <4>2, <4>3, <4>4, <4>5 DEF LifeInv
    <3> QED BY <3>1, <3>3
  <2> QED BY <2>1, <2>2, <2>3 DEF Next
<1> QED BY <1>1, <1>2, PTL DEF Spec

\* Who is queued for the suspension of a thread waits for just that.
LEMMA SuspendersListed ==
    ASSUME LifeInv, NEW u \in Thread
    PROVE  Listed(links, SuspendQueue[u]) \subseteq Suspenders(u)
<1>1. /\ Listed(links, SuspendQueue[u]) \subseteq Thread
      /\ \A t \in Listed(links, SuspendQueue[u]) : state[t] = "Waiting"
  BY OnlyWaitersListed, QueuesOfThreads
<1> QED BY <1>1 DEF LifeInv, PlaceInv, Suspenders

(* OSSuspendThread, OSResumeThread and OSCancelThread count suspensions, for  *)
(* threads of any priorities: who runs is not suspended, who may run has a    *)
(* fiber, and needSuspend lies between the suspenders that are in the queue   *)
(* and all that wait.                                                         *)
THEOREM SuspensionCorrect == Spec => []SuspensionCounted
<1>1. KernelUse => SuspensionCounted
  BY SuspendersListed
     DEF KernelUse, LifeInv, FiberInv, RefusalInv, SuspendersKnown, SuspensionCounted,
         SuspendersCounted
<1> QED BY <1>1, LifeInvariant, PTL

(* OSJoinThread sees an end, whatever the priorities; and no thread is lost   *)
(* but one that was refused a suspension or that OSInsertThreadQueue puts     *)
(* before the head of a queue.                                                *)
THEOREM EndsCorrect == Spec => EndsAreSeen
<1>1. KernelUse => (using \subseteq LifeCalls => JoinSeesExit /\ RefusedAreLost)
  BY DEF KernelUse, LifeInv, EndInv, RefusalInv, RefusalKnown, RefusedAreLost
<1>2. KernelUse /\ [Next]_kernelVars =>
         [using \subseteq LifeCalls => LosesRefused]_kernelVars
  <2> SUFFICES ASSUME KernelUse, Next, using \subseteq LifeCalls PROVE LosesRefused
    OBVIOUS
  <2>1. Threads
    BY UsesApart DEF KernelUse, Next, AlarmsAndWaits, EventCalls, SpinLocks
  <2> QED BY <2>1, LifeStep DEF KernelUse
<1> QED BY <1>1, <1>2, LifeInvariant, PTL DEF Spec, EndsAreSeen


-----------------------------------------------------------------------------
(* Alarms: the invariant. *)

AlarmPlaces == {"guest", "cancelAlarms", "waitAlarm", "sleepSet", "eventSet",
                "sleeping", "eventWait"}

AlarmRecord == [state : {"None", "Set", "Cancelled"}, nextFire : Nat, period : Nat,
                callback : {"none", "game", "sleep", "event"}, queue : Core \cup {Nobody}]

HandlerRecord == [pc : {"idle", "lock", "scan", "callback", "wake", "rest"},
                  alarm : Alarms \cup {Nobody}, next : Alarms \cup {Nobody},
                  at : Nat, soonest : Nat]

AlarmTypes ==
    /\ alarm \in [Alarms -> AlarmRecord] /\ alarmLinks \in RowType(Alarms, Core)
    /\ timer \in [Core -> Nat] /\ interrupt \subseteq Core
    /\ handler \in [Core -> HandlerRecord] /\ core \in [AlarmThread -> Core]
    /\ now \in Nat /\ timeout \in [AlarmThread -> BOOLEAN]
    /\ state \in [Thread -> States] /\ pc \in [Thread -> AlarmPlaces]

\* The alarms that are set on core c.
Armed(c) == {a \in Alarms : alarm[a].state = "Set" /\ alarm[a].queue = c}

\* r says in which order they were set.
Rows(r) == \A c \in Core : Row(alarmLinks, c, Armed(c), r)

Busy(c) == handler[c].pc \notin {"idle", "lock"}

\* Where the interrupt thread goes on in its queue.
Cursor(h) == IF h.pc = "scan" THEN h.alarm ELSE h.next

Covered(c, a) ==
    \/ timer[c] =< alarm[a].nextFire
    \/ c \in interrupt
    \/ Busy(c) /\ handler[c].soonest =< alarm[a].nextFire
    \/ Busy(c) /\ handler[c].pc # "scan" /\ a = handler[c].alarm

\* The interrupt thread of core c is in the core's queue, and everything that
\* it has left behind is counted.
Scans(r, c) ==
    LET h == handler[c] IN
    Busy(c) =>
        /\ gAlarmLock = c
        /\ Cursor(h) \in Armed(c) \cup {Nobody}
        /\ \A a \in Armed(c) : Cursor(h) = Nobody \/ r[a] < r[Cursor(h)] => Covered(c, a)
        /\ h.pc # "scan" =>
              /\ h.alarm \in Alarms /\ h.alarm # h.next
              /\ \/ h.alarm \in Armed(c)
                 \/ h.alarm \in GameAlarm /\ alarm[h.alarm].state = "Cancelled"
                                          /\ alarm[h.alarm].period = 0
        /\ h.pc = "callback" => h.alarm \in AlarmThread \cap Armed(c)
        /\ h.pc \in {"wake", "rest"} /\ h.alarm \in AlarmThread => state[h.alarm] # "Waiting"

Timers == \A c \in Core : handler[c].pc = "idle" => \A a \in Armed(c) : Covered(c, a)

\* The handler of core c has woken thread t.
Waking(c, t) == handler[c].pc \in {"wake", "rest"} /\ handler[c].alarm = t

\* A thread's block is set while it sleeps, and until it has been woken.
Sleeper(t) ==
    /\ alarm[t].state \in {"None", "Set"}
    /\ alarm[t].state = "Set" => \/ alarm[t].callback = "sleep" /\ pc[t] = "sleeping"
                                 \/ alarm[t].callback = "event" /\ pc[t] = "eventWait"
    /\ pc[t] \in {"sleepSet", "eventSet"} => alarm[t].queue = Nobody
    /\ state[t] = "Waiting" => pc[t] \in {"sleeping", "eventWait"} /\ alarm[t].state = "Set"
    /\ pc[t] = "sleeping" /\ alarm[t].state = "Set" =>
          state[t] = "Waiting" \/ \E c \in Core : Waking(c, t)
    /\ pc[t] = "cancelAlarms" => gAlarmLock = t

Placed(a) ==
    /\ alarm[a].state # "None" => alarm[a].queue \in Core
    /\ alarm[a].state = "Set" => alarm[a].nextFire > 0
    /\ IF a \in GameAlarm THEN alarm[a].callback \in {"none", "game"}
       ELSE alarm[a].period = 0

QueueParts(r) ==
    /\ Rows(r) /\ Timers
    /\ \A c \in Core : Scans(r, c)
    /\ \A a \in Alarms : Placed(a)

Ordered == \E r \in [Alarms -> Nat] : QueueParts(r)

AlarmParts(r) == AlarmTypes /\ QueueParts(r) /\ \A t \in AlarmThread : Sleeper(t)

AlarmsInOrder == \E r \in [Alarms -> Nat] : AlarmParts(r)

\* Thread u waits for the event, or has done so until its timeout came.
AwaitsEvent(u) ==
    u \in AlarmThread /\ pc[u] = "eventWait" /\ (timeout[u] \/ state[u] = "Waiting")

Awaiting == [u \in Thread |-> IF AwaitsEvent(u) THEN "Waiting" ELSE "Running"]

\* Whoever is in the event's queue awaits the event.
EventInOrder == links \in LinksType /\ Lists(links, Awaiting)

\* The queues are in order while the game and the timed waits use alarms well.
AlarmInv ==
    /\ BreaksByMisuse /\ mode = "AutoReset"
    /\ Sound => AlarmsInOrder /\ EventInOrder

(* The alarms are the game's and the threads' own; none of them is a core. *)
LEMMA AlarmSets ==
    /\ IsFiniteSet(Alarms) /\ NoThread \notin Alarms /\ Nobody = NoThread
    /\ AlarmThread \subseteq Alarms /\ AlarmThread \subseteq Thread /\ GameAlarm \subseteq Alarms
    /\ AlarmThread \cap GameAlarm = {} /\ Alarms = AlarmThread \cup GameAlarm
    /\ Core \cap AlarmThread = {} /\ Nobody \notin Core /\ "event" \in WaitQueue
    /\ Cardinality(Alarms) \in Nat
<1>1. IsFiniteSet(AlarmThread)
  BY UsesAssumption, FS_Subset
<1>2. IsFiniteSet(Alarms)
  BY <1>1, AlarmAssumption, FS_Union DEF Alarms
<1>3. Cardinality(Alarms) \in Nat
  BY <1>2, FS_CardinalityType
<1> QED BY <1>2, <1>3, UsesAssumption, AlarmAssumption DEF Alarms, Nobody

(* A walk along a core's queue meets what is set on it. *)
LEMMA AlarmListIs ==
    ASSUME AlarmTypes, NEW r \in [Alarms -> Nat], Rows(r), NEW c \in Core
    PROVE  AlarmList(c) = Armed(c)
<1> DEFINE m == Cardinality(Alarms)
           f == CHOOSE g : Walks(alarmLinks, c, m, g)
<1>1. Armed(c) \in SUBSET Alarms
  BY DEF Armed
<1>2. IsFiniteSet(Armed(c)) /\ Cardinality(Armed(c)) =< m /\ m \in Nat
  BY <1>1, AlarmSets, FS_Subset
<1>3. Row(alarmLinks, c, Armed(c), r) /\ alarmLinks \in RowType(Alarms, Core)
  BY DEF Rows, AlarmTypes
<1>4. Walks(alarmLinks, c, m, f) /\ {f[n] : n \in 0 .. m} \ {NoThread} = Armed(c)
  <2>1. NoThread \notin Alarms
    BY AlarmSets
  <2> HIDE DEF m
  <2> QED BY <1>1, <1>2, <1>3, <2>1, RowWalk
<1>5. AlarmList(c) = {f[n] : n \in DOMAIN f} \ {NoThread}
  BY AlarmSets DEF AlarmList, Walks, Nobody
<1>6. DOMAIN f = 0 .. m
  <2> HIDE DEF f, m
  <2> QED BY <1>4 DEF Walks
<1> QED BY <1>4, <1>5, <1>6

(* An alarm that is erased from a queue is set there, if nothing was reused. *)
LEMMA EraseArmed ==
    ASSUME AlarmTypes, NEW r \in [Alarms -> Nat], Rows(r), NEW a \in Alarms,
           alarm[a].queue \in Core, Reuse(a), ~reused'
    PROVE  /\ a \in Armed(alarm[a].queue) /\ CanErase(a)
           /\ Erased(a) \in RowType(Alarms, Core)
           /\ \A d \in Core : Row(Erased(a), d, Armed(d) \ {a}, r)
<1> DEFINE c == alarm[a].queue
<1>1. AlarmList(c) = Armed(c)
  BY AlarmListIs
<1>2. c # Nobody /\ NoThread \notin Alarms
  BY AlarmSets
<1>3. a \in Armed(c)
  BY <1>1, <1>2 DEF Reuse
<1>4. /\ alarmLinks \in RowType(Alarms, Core) /\ \A d \in Core : Armed(d) \in SUBSET Alarms
      /\ \A d \in Core : Row(alarmLinks, d, Armed(d), r)
  BY DEF AlarmTypes, Rows, Armed
<1>5. Erasable(alarmLinks, c, a)
  BY <1>2, <1>3, <1>4, RowErasable
<1>6. CanErase(a)
  BY <1>2, <1>5 DEF CanErase
<1>8. /\ Erased(a) \in RowType(Alarms, Core)
      /\ Row(Erased(a), c, Armed(c) \ {a}, r)
      /\ \A d \in Core \ {c}, F \in SUBSET Alarms :
            F \cap Armed(c) = {} /\ Row(alarmLinks, d, F, r) => Row(Erased(a), d, F, r)
  <2> DEFINE E == Armed(c)
             l2 == Erased(a)
  <2>1. l2 = OSEraseFromQueue(alarmLinks, c, a)
    BY DEF Erased
  <2>2. E \in SUBSET Alarms /\ a \in E /\ Row(alarmLinks, c, E, r)
    BY <1>3, <1>4
  <2> HIDE DEF l2, c, E
  <2>3. c \in Core
    BY DEF c
  <2>4. Removed(Alarms, Core, alarmLinks, c, E, r, a, l2)
    BY <1>2, <1>4, <2>1, <2>2, <2>3, RowErase
  <2>5. /\ l2 \in RowType(Alarms, Core)
        /\ Row(l2, c, E \ {a}, r)
        /\ \A d \in Core \ {c}, F \in SUBSET Alarms :
              F \cap E = {} /\ Row(alarmLinks, d, F, r) => Row(l2, d, F, r)
    BY <2>4 DEF Removed
  <2> QED BY <2>5 DEF l2, E
<1>9. ASSUME NEW d \in Core, d # c PROVE Row(Erased(a), d, Armed(d) \ {a}, r)
  <2>1. Armed(d) \cap Armed(c) = {} /\ Armed(d) \ {a} = Armed(d)
    BY <1>3, <1>9 DEF Armed
  <2> QED BY <1>4, <1>8, <1>9, <2>1
<1> QED BY <1>3, <1>6, <1>8, <1>9

(* The alarm that is set comes last. *)
ArmedLast(r, c, a, fire, every, callback) ==
    /\ broken' = broken
    /\ alarm' \in [Alarms -> AlarmRecord] /\ alarmLinks' \in RowType(Alarms, Core)
    /\ timer' \in [Core -> Nat]
    /\ alarm'[a] = [state |-> "Set", nextFire |-> fire, period |-> every,
                    callback |-> callback, queue |-> c]
    /\ \A x \in Alarms \ {a} : alarm'[x] = alarm[x]
    /\ timer'[c] =< fire /\ \A d \in Core : timer'[d] =< timer[d]
    /\ Armed(c)' = Armed(c) \cup {a}
    /\ \A d \in Core \ {c} : Armed(d)' = Armed(d) \ {a}
    /\ \E r2 \in [Alarms -> Nat] :
          /\ Rows(r2)'
          /\ \A x \in Armed(c) \ {a} : r2[x] < r2[a]
          /\ \A x \in Alarms \ {a} : r2[x] = r[x]

(* Arming an alarm puts it last in the queue of its core, and takes it out of
   the queue that it was in. *)
LEMMA ArmRows ==
    ASSUME AlarmTypes, NEW r \in [Alarms -> Nat], Rows(r), NEW a \in Alarms, Placed(a),
           NEW c \in Core, NEW fire \in Nat \ {0}, NEW every \in Nat,
           NEW callback \in {"none", "game", "sleep", "event"},
           Arm(c, a, fire, every, callback), ~reused'
    PROVE  ArmedLast(r, c, a, fire, every, callback)
<1> DEFINE l == IF alarm[a].queue = Nobody THEN alarmLinks ELSE Erased(a)
           new == [state |-> "Set", nextFire |-> fire, period |-> every,
                   callback |-> callback, queue |-> c]
<1>1. /\ alarm[a].queue \in Core \cup {Nobody} /\ Nobody \notin Core /\ NoThread \notin Alarms
      /\ alarm \in [Alarms -> AlarmRecord]
      /\ alarmLinks \in RowType(Alarms, Core) /\ timer \in [Core -> Nat]
  BY AlarmSets DEF AlarmTypes, AlarmRecord
<1>2. Reuse(a)
  BY DEF Arm
<1>3. /\ l \in RowType(Alarms, Core)
      /\ \A d \in Core : Row(l, d, Armed(d) \ {a}, r)
      /\ ~(alarm[a].queue # Nobody /\ ~CanErase(a))
  <2>1. CASE alarm[a].queue = Nobody
    <3>1. \A d \in Core : Armed(d) \ {a} = Armed(d)
      BY <1>1, <2>1 DEF Armed
    <3> QED BY <1>1, <2>1, <3>1 DEF Rows
  <2>2. CASE alarm[a].queue # Nobody
    BY <1>1, <1>2, <2>2, EraseArmed
  <2> QED BY <2>1, <2>2
<1>4. /\ alarm' = [alarm EXCEPT ![a] = new] /\ alarmLinks' = OSAppendQueue(l, c, a)
      /\ timer' = [timer EXCEPT ![c] = IF fire < timer[c] THEN fire ELSE timer[c]]
      /\ broken' = broken
  BY <1>3 DEF Arm, SetInterruptTimer
<1> HIDE DEF l
<1>5. new \in AlarmRecord
  BY DEF AlarmRecord
<1>6. alarm'[a] = new /\ \A x \in Alarms \ {a} : alarm'[x] = alarm[x]
  BY <1>1, <1>4
<1>7. alarm' \in [Alarms -> AlarmRecord]
  BY <1>1, <1>4, <1>5
<1>8. /\ timer' \in [Core -> Nat] /\ timer'[c] =< fire
      /\ \A d \in Core : timer'[d] =< timer[d]
  BY <1>1, <1>4
<1>9. Armed(c)' = Armed(c) \cup {a} /\ \A d \in Core \ {c} : Armed(d)' = Armed(d) \ {a}
  <2>1. new.state = "Set" /\ new.queue = c
    OBVIOUS
  <2> HIDE DEF new
  <2> QED BY <1>6, <2>1 DEF Armed
<1>10. \A d \in Core : Armed(d) \in SUBSET Alarms
  BY DEF Armed
<1>11. /\ OSAppendQueue(l, c, a) \in RowType(Alarms, Core)
       /\ \E r2 \in [Alarms -> Nat] :
             /\ Row(OSAppendQueue(l, c, a), c, (Armed(c) \ {a}) \cup {a}, r2)
             /\ \A x \in Armed(c) \ {a} : r2[x] < r2[a]
             /\ \A x \in Alarms : x # a => r2[x] = r[x]
       /\ \A d \in Core \ {c}, F \in SUBSET Alarms, r2 \in [Alarms -> Nat] :
             /\ F \cap ((Armed(c) \ {a}) \cup {a}) = {} /\ Row(l, d, F, r)
             /\ \A x \in Alarms : x # a => r2[x] = r[x]
             => Row(OSAppendQueue(l, c, a), d, F, r2)
  <2>1. Armed(c) \ {a} \in SUBSET Alarms /\ a \in Alarms \ (Armed(c) \ {a})
        /\ Row(l, c, Armed(c) \ {a}, r)
    BY <1>3, <1>10
  <2> DEFINE E == Armed(c) \ {a}
  <2>2. E \in SUBSET Alarms /\ a \in Alarms \ E /\ Row(l, c, E, r)
    BY <2>1
  <2> HIDE DEF E, new
  <2>3. /\ OSAppendQueue(l, c, a) \in RowType(Alarms, Core)
        /\ \E r2 \in [Alarms -> Nat] :
             /\ Row(OSAppendQueue(l, c, a), c, E \cup {a}, r2)
             /\ \A x \in E : r2[x] < r2[a]
             /\ \A x \in Alarms : x # a => r2[x] = r[x]
        /\ \A d \in Core \ {c}, F \in SUBSET Alarms, r2 \in [Alarms -> Nat] :
             /\ F \cap (E \cup {a}) = {} /\ Row(l, d, F, r)
             /\ \A x \in Alarms : x # a => r2[x] = r[x]
             => Row(OSAppendQueue(l, c, a), d, F, r2)
    <3>1. Appended(Alarms, Core, l, c, E, r, a, OSAppendQueue(l, c, a))
      BY <1>1, <1>3, <2>2, RowAppend
    <3> QED BY <3>1 DEF Appended
  <2> QED BY <2>3 DEF E
<1>12. PICK r2 \in [Alarms -> Nat] :
             /\ Row(OSAppendQueue(l, c, a), c, (Armed(c) \ {a}) \cup {a}, r2)
             /\ \A x \in Armed(c) \ {a} : r2[x] < r2[a]
             /\ \A x \in Alarms : x # a => r2[x] = r[x]
  BY <1>11
<1>13. Rows(r2)'
  <2>1. ASSUME NEW d \in Core PROVE Row(alarmLinks', d, Armed(d)', r2)
    <3>1. CASE d = c
      <4>1. (Armed(c) \ {a}) \cup {a} = Armed(c) \cup {a}
        OBVIOUS
      <4> QED BY <1>4, <1>9, <1>12, <3>1, <4>1
    <3>2. CASE d # c
      <4>1. (Armed(d) \ {a}) \cap ((Armed(c) \ {a}) \cup {a}) = {} /\ Armed(d) \ {a} \in SUBSET Alarms
        BY <3>2, <1>10 DEF Armed
      <4>2. Row(OSAppendQueue(l, c, a), d, Armed(d) \ {a}, r2)
        BY <1>3, <1>11, <1>12, <3>2, <4>1
      <4> QED BY <1>4, <1>9, <3>2, <4>2
    <3> QED BY <3>1, <3>2
  <2> QED BY <2>1 DEF Rows
<1>14. \E r3 \in [Alarms -> Nat] :
          /\ Rows(r3)' /\ \A x \in Armed(c) \ {a} : r3[x] < r3[a]
          /\ \A x \in Alarms \ {a} : r3[x] = r[x]
  BY <1>12, <1>13
<1> QED BY <1>3, <1>4, <1>6, <1>7, <1>8, <1>9, <1>11, <1>14 DEF ArmedLast

(* The alarm that is cancelled leaves its queue. *)
LEMMA CancelRows ==
    ASSUME AlarmTypes, NEW r \in [Alarms -> Nat], Rows(r), NEW a \in Alarms, Placed(a),
           Cancel(a), ~reused'
    PROVE  /\ UNCHANGED <<timer, broken>>
           /\ \/ UNCHANGED <<alarm, alarmLinks>>
              \/ /\ alarm' \in [Alarms -> AlarmRecord] /\ alarmLinks' \in RowType(Alarms, Core)
                 /\ a \in Armed(alarm[a].queue)
                 /\ alarm'[a] = [alarm[a] EXCEPT !.state = "Cancelled", !.nextFire = 0, !.period = 0]
                 /\ \A x \in Alarms \ {a} : alarm'[x] = alarm[x]
                 /\ \A d \in Core : Armed(d)' = Armed(d) \ {a}
                 /\ Rows(r)'
<1>1. CASE alarm[a].state = "None"
  BY <1>1 DEF Cancel
<1>2. CASE alarm[a].state # "None"
  <2>1. Reuse(a) /\ alarm[a].queue \in Core
    BY <1>2 DEF Cancel, Placed
  <2>2. /\ a \in Armed(alarm[a].queue) /\ CanErase(a)
        /\ Erased(a) \in RowType(Alarms, Core)
        /\ \A d \in Core : Row(Erased(a), d, Armed(d) \ {a}, r)
    BY <2>1, EraseArmed
  <2>3. /\ alarm' = [alarm EXCEPT ![a].state = "Cancelled", ![a].nextFire = 0, ![a].period = 0]
        /\ alarmLinks' = Erased(a) /\ UNCHANGED <<timer, broken>>
    BY <1>2, <2>2 DEF Cancel
  <2> DEFINE new == [alarm[a] EXCEPT !.state = "Cancelled", !.nextFire = 0, !.period = 0]
  <2>4. alarm \in [Alarms -> AlarmRecord] /\ alarm[a] \in AlarmRecord
    BY DEF AlarmTypes
  <2>5. new \in AlarmRecord /\ new.state = "Cancelled"
    BY <2>4 DEF AlarmRecord
  <2>6. alarm' = [alarm EXCEPT ![a] = new]
    BY <2>3, <2>4
  <2> HIDE DEF new
  <2>7. alarm'[a] = new /\ (\A x \in Alarms \ {a} : alarm'[x] = alarm[x]) /\ alarm' \in [Alarms -> AlarmRecord]
    BY <2>4, <2>5, <2>6
  <2>8. \A d \in Core : Armed(d)' = Armed(d) \ {a}
    BY <2>5, <2>7 DEF Armed
  <2>9. Rows(r)'
    BY <2>2, <2>3, <2>8 DEF Rows
  <2> QED BY <2>2, <2>3, <2>7, <2>8, <2>9 DEF new
<1> QED BY <1>1, <1>2

(* Setting and cancelling alarms while no interrupt thread is in a queue. *)
LEMMA ArmIdle ==
    ASSUME AlarmTypes, NEW r \in [Alarms -> Nat], QueueParts(r), NEW a \in Alarms,
           NEW c \in Core, NEW fire \in Nat \ {0}, NEW every \in Nat,
           NEW callback \in {"none", "game", "sleep", "event"},
           Arm(c, a, fire, every, callback), ~reused',
           a \in GameAlarm => callback \in {"none", "game"}, a \notin GameAlarm => every = 0,
           \A d \in Core : ~Busy(d), UNCHANGED <<handler, interrupt>>
    PROVE  Ordered'
<1>0. ArmedLast(r, c, a, fire, every, callback)
  BY ArmRows DEF QueueParts
<1>1. Rows(r) /\ Placed(a)
  BY DEF QueueParts
<1>2. /\ timer' \in [Core -> Nat] /\ timer \in [Core -> Nat]
      /\ alarm'[a] = [state |-> "Set", nextFire |-> fire, period |-> every,
                      callback |-> callback, queue |-> c]
      /\ \A x \in Alarms \ {a} : alarm'[x] = alarm[x]
      /\ timer'[c] =< fire /\ \A d \in Core : timer'[d] =< timer[d]
      /\ Armed(c)' = Armed(c) \cup {a}
      /\ \A d \in Core \ {c} : Armed(d)' = Armed(d) \ {a}
  BY <1>0 DEF AlarmTypes, ArmedLast
<1>3. PICK r2 \in [Alarms -> Nat] : Rows(r2)'
  BY <1>0 DEF ArmedLast
<1>4. \A d \in Core : ~Busy(d)'
  BY DEF Busy
<1>5. ASSUME NEW d \in Core, handler'[d].pc = "idle", NEW x \in Armed(d)'
      PROVE  Covered(d, x)'
  <2>1. CASE x = a
    <3>1. d = c
      BY <1>2, <1>5, <2>1
    <3> QED BY <1>2, <2>1, <3>1 DEF Covered
  <2>2. CASE x # a
    <3>1. x \in Armed(d) /\ x \in Alarms
      BY <1>2, <1>5, <2>2 DEF Armed
    <3>2. timer[d] =< alarm[x].nextFire \/ d \in interrupt
      BY <1>5, <3>1 DEF QueueParts, Timers, Covered
    <3>3. alarm'[x] = alarm[x] /\ timer'[d] =< timer[d] /\ timer'[d] \in Nat /\ timer[d] \in Nat
          /\ alarm[x].nextFire \in Nat
      BY <1>2, <2>2, <3>1 DEF AlarmTypes, AlarmRecord
    <3>4. timer'[d] =< alarm'[x].nextFire \/ d \in interrupt'
      BY <3>2, <3>3
    <3> QED BY <3>4 DEF Covered
  <2> QED BY <2>1, <2>2
<1>6. \A x \in Alarms : Placed(x)'
  BY <1>2 DEF QueueParts, Placed
<1>7. QueueParts(r2)'
  BY <1>3, <1>4, <1>5, <1>6 DEF QueueParts, Scans, Timers
<1> QED BY <1>7 DEF Ordered

(* Cancelling an alarm while no interrupt thread is in a queue. *)
LEMMA CancelIdle ==
    ASSUME AlarmTypes, NEW r \in [Alarms -> Nat], QueueParts(r), NEW a \in Alarms,
           Cancel(a), ~reused',
           \A d \in Core : ~Busy(d), UNCHANGED <<handler, interrupt>>
    PROVE  /\ QueueParts(r)' /\ UNCHANGED <<timer, broken>>
           /\ alarm' \in [Alarms -> AlarmRecord] /\ alarmLinks' \in RowType(Alarms, Core)
           /\ \A x \in Alarms \ {a} : alarm'[x] = alarm[x]
<1>1. Rows(r) /\ Placed(a)
  BY DEF QueueParts
<1>2. UNCHANGED <<timer, broken>>
  BY <1>1, CancelRows
<1>3. \A d \in Core : ~Busy(d)'
  BY DEF Busy
<1>4. CASE UNCHANGED <<alarm, alarmLinks>>
  <2>1. Rows(r)' /\ (\A d \in Core : Armed(d)' = Armed(d)) /\ \A x \in Alarms : Placed(x)'
    BY <1>4 DEF QueueParts, Rows, Armed, Placed
  <2>2. Timers'
    BY <1>2, <1>3, <1>4, <2>1 DEF QueueParts, Timers, Covered
  <2> QED BY <1>2, <1>3, <1>4, <2>1, <2>2 DEF QueueParts, Scans, AlarmTypes
<1>5. CASE ~UNCHANGED <<alarm, alarmLinks>>
  <2>1. /\ alarm' \in [Alarms -> AlarmRecord] /\ alarmLinks' \in RowType(Alarms, Core)
        /\ a \in Armed(alarm[a].queue)
        /\ alarm'[a] = [alarm[a] EXCEPT !.state = "Cancelled", !.nextFire = 0, !.period = 0]
        /\ \A x \in Alarms \ {a} : alarm'[x] = alarm[x]
        /\ \A d \in Core : Armed(d)' = Armed(d) \ {a}
        /\ Rows(r)'
    BY <1>1, <1>5, CancelRows
  <2>2. alarm[a] \in AlarmRecord
    BY DEF AlarmTypes
  <2>3. alarm'[a].state = "Cancelled" /\ alarm'[a].queue = alarm[a].queue
        /\ alarm'[a].callback = alarm[a].callback /\ alarm'[a].period = 0
    BY <2>1, <2>2 DEF AlarmRecord
  <2>4. \A x \in Alarms : Placed(x)'
    <3>1. Placed(a)'
      BY <1>1, <2>1, <2>3 DEF Placed, Armed
    <3>2. \A x \in Alarms \ {a} : Placed(x)'
      BY <2>1 DEF QueueParts, Placed
    <3> QED BY <3>1, <3>2
  <2>5. Timers'
    <3>1. ASSUME NEW d \in Core, handler'[d].pc = "idle", NEW x \in Armed(d)'
          PROVE  Covered(d, x)'
      <4>1. x \in Armed(d) /\ x # a /\ x \in Alarms /\ Covered(d, x)
        BY <2>1, <3>1 DEF QueueParts, Timers, Armed
      <4>2. alarm'[x] = alarm[x]
        BY <2>1, <4>1
      <4> QED BY <1>2, <4>1, <4>2 DEF Covered, Busy
    <3> QED BY <3>1 DEF Timers
  <2> QED BY <1>2, <1>3, <2>1, <2>4, <2>5 DEF QueueParts, Scans
<1> QED BY <1>4, <1>5

(* While a thread or nobody has gAlarmLock, no interrupt thread is in a queue. *)
LEMMA NotBusy ==
    ASSUME NEW r, QueueParts(r), gAlarmLock \notin Core
    PROVE  \A c \in Core : ~Busy(c)
  BY DEF QueueParts, Scans

(* OSSetAlarm, OSSetPeriodicAlarm, OSCancelAlarm and OSCancelAlarms. *)
LEMMA GameCalls ==
    ASSUME NEW r \in [Alarms -> Nat], AlarmParts(r), ~reused', NEW t \in AlarmThread,
           \/ \E a \in GameAlarm : \/ OSSetPeriodicAlarm(t, a, 0) \/ OSSetPeriodicAlarm(t, a, 1)
                                   \/ OSCancelAlarm(t, a)
           \/ CancelTagged(t)
    PROVE  AlarmsInOrder' /\ broken' = broken
<1> USE AlarmSets
<1>1. /\ UNCHANGED <<threadVars, gAlarmLock, schedLock, interrupt, handler, core, now, timeout>>
  BY DEF OSSetPeriodicAlarm, OSCancelAlarm, CancelTagged
<1>2. AlarmTypes /\ QueueParts(r) /\ \A u \in AlarmThread : Sleeper(u)
  BY DEF AlarmParts
<1>3. gAlarmLock \notin Core
  BY <1>2 DEF OSSetPeriodicAlarm, OSCancelAlarm, CancelTagged, At, Sleeper
<1>4. \A c \in Core : ~Busy(c)
  BY <1>2, <1>3, NotBusy
<1>5. ASSUME NEW a \in GameAlarm, \A x \in Alarms \ {a} : alarm'[x] = alarm[x]
      PROVE  \A u \in AlarmThread : Sleeper(u)'
  <2>1. \A u \in AlarmThread : alarm'[u] = alarm[u]
    BY <1>5
  <2> QED BY <1>1, <1>2, <2>1 DEF Sleeper, Waking, threadVars
<1>6. CASE \E a \in GameAlarm : OSSetPeriodicAlarm(t, a, 0) \/ OSSetPeriodicAlarm(t, a, 1)
  <2>1. PICK a \in GameAlarm, every \in {0, 1}, callback \in {"none", "game"} :
           Arm(core[t], a, now + 1, every, callback)
    BY <1>6 DEF OSSetPeriodicAlarm
  <2>2. now + 1 \in Nat \ {0} /\ core[t] \in Core /\ every \in Nat
        /\ callback \in {"none", "game", "sleep", "event"}
    BY <1>2 DEF AlarmTypes
  <2> DEFINE fire == now + 1
  <2>f. fire \in Nat \ {0} /\ Arm(core[t], a, fire, every, callback)
    BY <2>1, <2>2
  <2>c. /\ core[t] \in Core /\ every \in Nat /\ a \in Alarms
        /\ callback \in {"none", "game", "sleep", "event"}
    BY <2>2
  <2>q. AlarmTypes /\ QueueParts(r)
    BY <1>2
  <2> HIDE AlarmSets DEF fire
  <2>3. Ordered'
    <3>1. /\ UNCHANGED <<handler, interrupt>>
          /\ a \in GameAlarm => callback \in {"none", "game"}
          /\ a \notin GameAlarm => every = 0
      BY <1>1
    <3> QED BY <1>4, <2>f, <2>c, <2>q, <3>1, ArmIdle, SMTT(60)
  <2>4. /\ alarm' \in [Alarms -> AlarmRecord] /\ alarmLinks' \in RowType(Alarms, Core)
        /\ timer' \in [Core -> Nat] /\ broken' = broken
        /\ \A x \in Alarms \ {a} : alarm'[x] = alarm[x]
    <3>1. ArmedLast(r, core[t], a, fire, every, callback)
      <4>1. Rows(r) /\ Placed(a)
        BY <2>q, <2>c DEF QueueParts
      <4> QED BY <2>f, <2>c, <2>q, <4>1, ArmRows, SMTT(40)
    <3> QED BY <3>1 DEF ArmedLast
  <2>5. AlarmTypes'
    BY <1>1, <1>2, <2>4 DEF AlarmTypes, threadVars
  <2>6. \A u \in AlarmThread : Sleeper(u)'
    BY <1>5, <2>4
  <2> QED BY <2>3, <2>4, <2>5, <2>6 DEF AlarmParts, AlarmsInOrder, Ordered
<1>7. CASE (\E a \in GameAlarm : OSCancelAlarm(t, a)) \/ CancelTagged(t)
  <2>1. PICK a \in GameAlarm : Cancel(a)
    BY <1>7 DEF OSCancelAlarm, CancelTagged, Tagged
  <2>2. /\ QueueParts(r)' /\ UNCHANGED <<timer, broken>>
        /\ alarm' \in [Alarms -> AlarmRecord] /\ alarmLinks' \in RowType(Alarms, Core)
        /\ \A x \in Alarms \ {a} : alarm'[x] = alarm[x]
    BY <1>1, <1>2, <1>4, <2>1, CancelIdle
  <2>3. AlarmTypes'
    BY <1>1, <1>2, <2>2 DEF AlarmTypes, threadVars
  <2>4. \A u \in AlarmThread : Sleeper(u)'
    BY <1>5, <2>2
  <2> QED BY <2>2, <2>3, <2>4 DEF AlarmParts, AlarmsInOrder
<1> QED BY <1>6, <1>7

(* Steps that leave the alarms alone. *)
LEMMA QueueSame ==
    ASSUME NEW r \in [Alarms -> Nat], QueueParts(r),
           UNCHANGED <<alarm, alarmLinks, timer, interrupt, handler>>,
           \A c \in Core : Busy(c) =>
              /\ gAlarmLock' = gAlarmLock
              /\ \A u \in AlarmThread : state'[u] = "Waiting" => state[u] = "Waiting"
    PROVE  QueueParts(r)'
<1>1. /\ \A c \in Core : Armed(c)' = Armed(c) /\ (Busy(c)' <=> Busy(c))
      /\ \A c \in Core, a \in Alarms : Covered(c, a)' <=> Covered(c, a)
      /\ \A a \in Alarms : Placed(a)' <=> Placed(a)
  BY DEF Armed, Busy, Covered, Placed
<1>2. Rows(r)'
  BY <1>1 DEF QueueParts, Rows
<1>3. \A c \in Core : Armed(c) \subseteq Alarms
  BY DEF Armed
<1>4. Timers'
  BY <1>1, <1>3 DEF QueueParts, Timers
<1>5. ASSUME NEW c \in Core PROVE Scans(r, c)'
  <2>1. CASE ~Busy(c)
    BY <1>1, <2>1 DEF Scans
  <2>2. CASE Busy(c)
    <3>1. /\ gAlarmLock' = gAlarmLock /\ handler' = handler
          /\ \A u \in AlarmThread : state'[u] = "Waiting" => state[u] = "Waiting"
          /\ Scans(r, c)
      BY <2>2 DEF QueueParts
    <3> QED BY <1>1, <1>3, <3>1 DEF Scans
  <2> QED BY <2>1, <2>2
<1> QED BY <1>1, <1>2, <1>4, <1>5 DEF QueueParts

(* OSCancelAlarms takes and releases gAlarmLock; OSWaitAlarm. *)
LEMMA LockingCalls ==
    ASSUME NEW r \in [Alarms -> Nat], AlarmParts(r), NEW t \in AlarmThread,
           \/ OSCancelAlarms(t) \/ AllCancelled(t)
           \/ \E a \in GameAlarm : OSWaitAlarm(t, a)
    PROVE  AlarmsInOrder' /\ broken' = broken
<1> USE AlarmSets
<1>1. /\ UNCHANGED <<state, links, alarm, alarmLinks, timer, interrupt, handler, core,
                     now, timeout, broken>>
      /\ state[t] = "Running" /\ pc[t] \in {"guest", "cancelAlarms"}
      /\ \E p \in {"guest", "cancelAlarms", "waitAlarm"} : pc' = [pc EXCEPT ![t] = p]
  BY DEF OSCancelAlarms, AllCancelled, OSWaitAlarm, CanCall, At, Goto
<1>2. AlarmTypes /\ QueueParts(r) /\ \A u \in AlarmThread : Sleeper(u)
  BY DEF AlarmParts
<1>3. gAlarmLock \notin Core
  BY <1>2 DEF OSCancelAlarms, AllCancelled, OSWaitAlarm, At, Sleeper
<1>4. QueueParts(r)'
  BY <1>1, <1>2, <1>3, NotBusy, QueueSame
<1>5. AlarmTypes'
  BY <1>1, <1>2 DEF AlarmTypes, AlarmPlaces
<1>6. pc'[t] = "cancelAlarms" => gAlarmLock' = t
  BY <1>1, <1>2 DEF OSCancelAlarms, AllCancelled, OSWaitAlarm, Goto, AlarmTypes
<1>7. \A u \in AlarmThread \ {t} : pc[u] # "cancelAlarms"
  BY <1>2 DEF OSCancelAlarms, AllCancelled, OSWaitAlarm, At, Sleeper
<1>8. ASSUME NEW u \in AlarmThread PROVE Sleeper(u)'
  <2>1. CASE u = t
    <3>1. alarm[t].state = "None" /\ pc'[t] \in {"guest", "cancelAlarms", "waitAlarm"}
      BY <1>1, <1>2 DEF Sleeper, AlarmTypes
    <3> QED BY <1>1, <1>6, <2>1, <3>1 DEF Sleeper
  <2>2. CASE u # t
    <3>1. pc'[u] = pc[u] /\ pc[u] # "cancelAlarms"
      BY <1>1, <1>2, <1>7, <2>2 DEF AlarmTypes
    <3> QED BY <1>1, <1>2, <3>1 DEF Sleeper, Waking
  <2> QED BY <2>1, <2>2
<1> QED BY <1>1, <1>4, <1>5, <1>8 DEF AlarmParts, AlarmsInOrder

(* A timed wait begins: the block is not in a queue. *)
LEMMA TimedWaitBegins ==
    ASSUME NEW r \in [Alarms -> Nat], AlarmParts(r), NEW t \in AlarmThread,
           NEW p \in {"sleepSet", "eventSet"}, TimedWait(t, p)
    PROVE  AlarmsInOrder' /\ broken' = broken
<1> USE AlarmSets
<1>1. /\ UNCHANGED <<state, links, gAlarmLock, timer, interrupt, handler, core, now, broken>>
      /\ state[t] = "Running" /\ pc[t] = "guest" /\ pc' = [pc EXCEPT ![t] = p]
      /\ alarm' = [alarm EXCEPT ![t] = CreatedAlarm]
      /\ alarmLinks' = [alarmLinks EXCEPT !.next[t] = Nobody, !.prev[t] = Nobody]
      /\ timeout' = [timeout EXCEPT ![t] = FALSE]
  BY DEF TimedWait, CanCall, At, Goto, AllocateBlock
<1>2. AlarmTypes /\ QueueParts(r) /\ \A u \in AlarmThread : Sleeper(u)
  BY DEF AlarmParts
<1>3. alarm[t].state = "None"
  BY <1>1, <1>2 DEF Sleeper
<1>4. /\ alarm \in [Alarms -> AlarmRecord] /\ CreatedAlarm \in AlarmRecord
      /\ CreatedAlarm.state = "None" /\ CreatedAlarm.queue = Nobody
      /\ CreatedAlarm.period = 0
  BY <1>2 DEF AlarmTypes, CreatedAlarm, AlarmRecord
<1>5. /\ alarm'[t] = CreatedAlarm /\ \A x \in Alarms \ {t} : alarm'[x] = alarm[x]
      /\ alarm' \in [Alarms -> AlarmRecord]
  BY <1>1, <1>4
<1>6. \A c \in Core : Armed(c)' = Armed(c) /\ t \notin Armed(c)
  BY <1>3, <1>4, <1>5 DEF Armed
<1>7. /\ alarmLinks' \in RowType(Alarms, Core)
      /\ alarmLinks'.head = alarmLinks.head /\ alarmLinks'.tail = alarmLinks.tail
      /\ \A x \in Alarms \ {t} : /\ alarmLinks'.next[x] = alarmLinks.next[x]
                                 /\ alarmLinks'.prev[x] = alarmLinks.prev[x]
  <2>1. alarmLinks \in RowType(Alarms, Core)
    BY <1>2 DEF AlarmTypes
  <2> DEFINE l2 == [alarmLinks EXCEPT !.next[t] = Nobody, !.prev[t] = Nobody]
  <2>2. /\ l2.head = alarmLinks.head /\ l2.tail = alarmLinks.tail
        /\ l2.next = [alarmLinks.next EXCEPT ![t] = Nobody]
        /\ l2.prev = [alarmLinks.prev EXCEPT ![t] = Nobody]
        /\ l2 = [head |-> l2.head, tail |-> l2.tail, next |-> l2.next, prev |-> l2.prev]
    <3> DEFINE nn == [alarmLinks.next EXCEPT ![t] = Nobody]
               pp == [alarmLinks.prev EXCEPT ![t] = Nobody]
    <3>1. alarmLinks = [head |-> alarmLinks.head, tail |-> alarmLinks.tail,
                        next |-> alarmLinks.next, prev |-> alarmLinks.prev]
      BY <2>1 DEF RowType
    <3>2. l2 = [[alarmLinks EXCEPT !.next = nn] EXCEPT !.prev = pp]
      BY <3>1
    <3> HIDE DEF nn, pp, l2
    <3>3. l2 = [head |-> alarmLinks.head, tail |-> alarmLinks.tail, next |-> nn, prev |-> pp]
      BY <3>1, <3>2
    <3> QED BY <3>3 DEF nn, pp
  <2> HIDE DEF l2
  <2>3. /\ l2.head \in [Core -> Alarms \cup {NoThread}] /\ l2.tail \in [Core -> Alarms \cup {NoThread}]
        /\ l2.next \in [Alarms -> Alarms \cup {NoThread}]
        /\ l2.prev \in [Alarms -> Alarms \cup {NoThread}]
    BY <2>1, <2>2 DEF RowType
  <2>4. l2 \in RowType(Alarms, Core)
    BY <2>2, <2>3 DEF RowType
  <2>5. \A x \in Alarms \ {t} : l2.next[x] = alarmLinks.next[x] /\ l2.prev[x] = alarmLinks.prev[x]
    BY <2>1, <2>2 DEF RowType
  <2>6. alarmLinks' = l2
    BY <1>1 DEF l2
  <2> QED BY <2>2, <2>4, <2>5, <2>6
<1>8. Rows(r)'
  <2>1. ASSUME NEW c \in Core PROVE Row(alarmLinks', c, Armed(c), r)
    <3>1. Row(alarmLinks, c, Armed(c), r) /\ Armed(c) \subseteq Alarms \ {t}
      BY <1>2, <1>6 DEF QueueParts, Rows, Armed
    <3> QED BY <1>7, <3>1 DEF Row
  <2> QED BY <1>6, <2>1 DEF Rows
<1>9. \A c \in Core, a \in Alarms \ {t} : Covered(c, a)' <=> Covered(c, a)
  BY <1>1, <1>5 DEF Covered, Busy
<1>10. Timers'
  <2>1. \A c \in Core : Armed(c) \subseteq Alarms \ {t}
    BY <1>6 DEF Armed
  <2> QED BY <1>1, <1>2, <1>6, <1>9, <2>1 DEF QueueParts, Timers
<1>11. ASSUME NEW c \in Core PROVE Scans(r, c)'
  <2>1. Scans(r, c) /\ Armed(c) \subseteq Alarms \ {t} /\ (Busy(c)' <=> Busy(c))
    BY <1>1, <1>2, <1>6 DEF QueueParts, Armed, Busy
  <2>2. \A a \in GameAlarm : alarm'[a] = alarm[a]
    BY <1>5
  <2> QED BY <1>1, <1>6, <1>9, <2>1, <2>2 DEF Scans
<1>12. \A a \in Alarms : Placed(a)'
  BY <1>2, <1>4, <1>5 DEF QueueParts, Placed
<1>13. ASSUME NEW u \in AlarmThread PROVE Sleeper(u)'
  <2>1. CASE u = t
    <3>1. pc'[t] = p
      BY <1>1, <1>2 DEF AlarmTypes
    <3> QED BY <1>1, <1>4, <1>5, <2>1, <3>1 DEF Sleeper
  <2>2. CASE u # t
    <3>1. pc'[u] = pc[u] /\ alarm'[u] = alarm[u]
      BY <1>1, <1>2, <1>5, <2>2 DEF AlarmTypes
    <3> QED BY <1>1, <1>2, <3>1 DEF Sleeper, Waking
  <2> QED BY <2>1, <2>2
<1>14. AlarmTypes'
  BY <1>1, <1>2, <1>5, <1>7 DEF AlarmTypes, AlarmPlaces
<1> QED BY <1>1, <1>8, <1>10, <1>11, <1>12, <1>13, <1>14 DEF AlarmParts, QueueParts, AlarmsInOrder

(* The timed wait sets its alarm and sleeps, ... *)
LEMMA TimedWaitSleeps ==
    ASSUME NEW r \in [Alarms -> Nat], AlarmParts(r), ~reused', NEW t \in AlarmThread,
           OSSleepTicks(t) \/ OSWaitEventWithTimeout(t)
    PROVE  AlarmsInOrder' /\ broken' = broken
<1> USE AlarmSets
<1>1. PICK callback \in {"sleep", "event"}, p \in {"sleeping", "eventWait"} :
         /\ Arm(core[t], t, now + 1, 0, callback)
         /\ pc[t] \in {"sleepSet", "eventSet"} /\ pc' = [pc EXCEPT ![t] = p]
         /\ callback = "sleep" <=> p = "sleeping"
  BY DEF OSSleepTicks, OSWaitEventWithTimeout, SleepTimed, At, Goto
<1>2. /\ state' = [state EXCEPT ![t] = "Waiting"]
      /\ UNCHANGED <<gAlarmLock, interrupt, handler, core, now, timeout>>
      /\ gAlarmLock = Nobody
  BY DEF OSSleepTicks, OSWaitEventWithTimeout, SleepTimed
<1>3. AlarmTypes /\ QueueParts(r) /\ \A u \in AlarmThread : Sleeper(u)
  BY DEF AlarmParts
<1>4. \A c \in Core : ~Busy(c)
  BY <1>2, <1>3, NotBusy
<1> DEFINE fire == now + 1
           every == 0
<1>5. /\ fire \in Nat \ {0} /\ core[t] \in Core /\ Arm(core[t], t, fire, every, callback)
      /\ every \in Nat
      /\ callback \in {"none", "game", "sleep", "event"} /\ t \in Alarms /\ t \notin GameAlarm
  BY <1>1, <1>3 DEF AlarmTypes
<1> HIDE DEF fire, every
<1>6. Ordered'
  <2>1. /\ UNCHANGED <<handler, interrupt>>
        /\ t \in GameAlarm => callback \in {"none", "game"}
        /\ t \notin GameAlarm => every = 0
    BY <1>2, <1>5 DEF every
  <2> QED BY <1>3, <1>4, <1>5, <2>1, ArmIdle
<1>7. ArmedLast(r, core[t], t, fire, every, callback)
  <2>1. Rows(r) /\ Placed(t)
    BY <1>3, <1>5 DEF QueueParts
  <2> QED BY <1>3, <1>5, <2>1, ArmRows, SMTT(40)
<1>8. /\ alarm' \in [Alarms -> AlarmRecord] /\ alarmLinks' \in RowType(Alarms, Core)
      /\ timer' \in [Core -> Nat] /\ broken' = broken
      /\ alarm'[t].state = "Set" /\ alarm'[t].callback = callback
      /\ \A x \in Alarms \ {t} : alarm'[x] = alarm[x]
  BY <1>7 DEF ArmedLast
<1>9. AlarmTypes'
  BY <1>1, <1>2, <1>3, <1>8 DEF AlarmTypes, AlarmPlaces, States
<1>10. ASSUME NEW u \in AlarmThread PROVE Sleeper(u)'
  <2>1. CASE u = t
    <3>1. pc'[t] = p /\ state'[t] = "Waiting"
      BY <1>1, <1>2, <1>3 DEF AlarmTypes
    <3> QED BY <1>1, <1>8, <2>1, <3>1 DEF Sleeper
  <2>2. CASE u # t
    <3>1. pc'[u] = pc[u] /\ alarm'[u] = alarm[u] /\ state'[u] = state[u]
      BY <1>1, <1>2, <1>3, <1>8, <2>2 DEF AlarmTypes
    <3> QED BY <1>2, <1>3, <3>1 DEF Sleeper, Waking
  <2> QED BY <2>1, <2>2
<1> QED BY <1>6, <1>8, <1>9, <1>10 DEF AlarmParts, AlarmsInOrder, Ordered

(* ... and ends, when its alarm is no longer set. *)
LEMMA TimedWaitEnds ==
    ASSUME NEW r \in [Alarms -> Nat], AlarmParts(r), ~abandoned', NEW t \in AlarmThread,
           SleepEnds(t) \/ EventWaitEnds(t)
    PROVE  AlarmsInOrder'
<1> USE AlarmSets
<1>1. /\ UNCHANGED <<state, gAlarmLock, alarm, alarmLinks, timer, interrupt, handler, core, now, timeout>>
      /\ pc' = [pc EXCEPT ![t] = "guest"] /\ state[t] = "Running"
      /\ abandoned' = (abandoned \/ alarm[t].state = "Set")
  BY DEF SleepEnds, EventWaitEnds, FreeBlock, Goto, At
<1>2. AlarmTypes /\ QueueParts(r) /\ \A u \in AlarmThread : Sleeper(u)
  BY DEF AlarmParts
<1>3. alarm[t].state # "Set"
  BY <1>1
<1>4. QueueParts(r)'
  BY <1>1, <1>2, QueueSame
<1>5. AlarmTypes'
  BY <1>1, <1>2 DEF AlarmTypes, AlarmPlaces
<1>6. ASSUME NEW u \in AlarmThread PROVE Sleeper(u)'
  <2>1. CASE u = t
    <3>1. pc'[t] = "guest"
      BY <1>1, <1>2 DEF AlarmTypes
    <3> QED BY <1>1, <1>2, <1>3, <2>1, <3>1 DEF Sleeper
  <2>2. CASE u # t
    <3>1. pc'[u] = pc[u]
      BY <1>1, <1>2, <2>2 DEF AlarmTypes
    <3> QED BY <1>1, <1>2, <3>1 DEF Sleeper, Waking
  <2> QED BY <2>1, <2>2
<1> QED BY <1>4, <1>5, <1>6 DEF AlarmParts, AlarmsInOrder

(* The clock, the timer and the scheduler. *)
LEMMA ClockSteps ==
    ASSUME NEW r \in [Alarms -> Nat], AlarmParts(r),
           \/ Tick
           \/ \E c \in Core : \/ TimerFires(c)
                              \/ \E t \in AlarmThread : DispatchOn(t, c)
    PROVE  AlarmsInOrder' /\ broken' = broken
<1> USE AlarmSets
<1>1. AlarmTypes /\ QueueParts(r) /\ \A u \in AlarmThread : Sleeper(u)
  BY DEF AlarmParts
<1>2. CASE Tick
  <2>1. /\ UNCHANGED <<state, pc, gAlarmLock, alarm, alarmLinks, timer, interrupt, handler, core, timeout, broken>>
        /\ now' = now + 1
    BY <1>2 DEF Tick, threadVars
  <2>2. QueueParts(r)'
    BY <1>1, <2>1, QueueSame
  <2>3. AlarmTypes'
    BY <1>1, <2>1 DEF AlarmTypes
  <2>4. \A u \in AlarmThread : Sleeper(u)'
    BY <1>1, <2>1 DEF Sleeper, Waking
  <2> QED BY <2>1, <2>2, <2>3, <2>4 DEF AlarmParts, AlarmsInOrder
<1>3. CASE \E c \in Core, t \in AlarmThread : DispatchOn(t, c)
  <2>1. PICK c \in Core, t \in AlarmThread :
           /\ UNCHANGED <<pc, gAlarmLock, alarm, alarmLinks, timer, interrupt, handler, now, timeout, broken>>
           /\ state[t] = "Ready" /\ state' = [state EXCEPT ![t] = "Running"]
           /\ core' = [core EXCEPT ![t] = c]
    BY <1>3 DEF DispatchOn, Dispatch
  <2>2. \A u \in AlarmThread : (state'[u] = "Waiting" <=> state[u] = "Waiting")
    BY <1>1, <2>1 DEF AlarmTypes
  <2>3. QueueParts(r)'
    BY <1>1, <2>1, <2>2, QueueSame
  <2>4. AlarmTypes'
    BY <1>1, <2>1 DEF AlarmTypes, States
  <2>5. \A u \in AlarmThread : Sleeper(u)'
    BY <1>1, <2>1, <2>2 DEF Sleeper, Waking
  <2> QED BY <2>1, <2>3, <2>4, <2>5 DEF AlarmParts, AlarmsInOrder
<1>4. CASE \E c \in Core : TimerFires(c)
  <2>1. PICK c \in Core :
           /\ UNCHANGED <<state, pc, gAlarmLock, alarm, alarmLinks, handler, core, now, timeout, broken>>
           /\ interrupt' = interrupt \cup {c} /\ timer' = [timer EXCEPT ![c] = Never]
    BY <1>4 DEF TimerFires, threadVars
  <2>2. Never \in Nat
    BY AlarmAssumption DEF Never
  <2>3. AlarmTypes'
    BY <1>1, <2>1, <2>2 DEF AlarmTypes
  <2>4. \A u \in AlarmThread : Sleeper(u)'
    BY <1>1, <2>1 DEF Sleeper, Waking
  <2>5. /\ \A d \in Core : Armed(d)' = Armed(d) /\ (Busy(d)' <=> Busy(d))
        /\ \A a \in Alarms : Placed(a)' <=> Placed(a)
    BY <2>1 DEF Armed, Busy, Placed
  <2>6. \A d \in Core, a \in Alarms : Covered(d, a) => Covered(d, a)'
    <3>1. \A d \in Core \ {c} : timer'[d] = timer[d] /\ (d \in interrupt' <=> d \in interrupt)
      BY <1>1, <2>1 DEF AlarmTypes
    <3>2. c \in interrupt'
      BY <2>1
    <3> QED BY <2>1, <2>5, <3>1, <3>2 DEF Covered
  <2>7. \A d \in Core : Armed(d) \subseteq Alarms
    BY DEF Armed
  <2>8. Rows(r)' /\ Timers' /\ \A a \in Alarms : Placed(a)'
    BY <1>1, <2>1, <2>5, <2>6, <2>7 DEF QueueParts, Rows, Timers
  <2>9. ASSUME NEW d \in Core PROVE Scans(r, d)'
    <3>1. Scans(r, d)
      BY <1>1 DEF QueueParts
    <3> QED BY <2>1, <2>5, <2>6, <2>7, <3>1 DEF Scans
  <2> QED BY <2>1, <2>3, <2>4, <2>8, <2>9 DEF AlarmParts, AlarmsInOrder, QueueParts
<1> QED BY <1>2, <1>3, <1>4

(* What a walk along a row has passed when it goes on. *)
LEMMA RowStep ==
    ASSUME NEW X, NoThread \notin X, NEW l, NEW q, NEW E \in SUBSET X,
           NEW r \in [X -> Nat], Row(l, q, E, r), NEW a \in E, NEW b, b = l.next[a]
    PROVE  /\ b \in E \cup {NoThread} /\ b # a
           /\ \A x \in E : b = NoThread \/ r[x] < r[b] => x = a \/ r[x] < r[a]
<1>1. Follows(E, r, a, b) /\ a # NoThread /\ \A x, y \in E : r[x] = r[y] => x = y
  BY DEF Row
<1>2. \A x \in E : r[x] \in Nat
  OBVIOUS
<1>3. b \in E \cup {NoThread} /\ b # a
  BY <1>1, <1>2 DEF Follows
<1>4. ASSUME NEW x \in E, b = NoThread \/ r[x] < r[b] PROVE x = a \/ r[x] < r[a]
  <2>1. r[x] =< r[a]
    BY <1>1, <1>2, <1>4 DEF Follows
  <2>2. r[x] = r[a] => x = a
    BY <1>1
  <2> QED BY <1>2, <2>1, <2>2
<1> QED BY <1>3, <1>4

(* The interrupt thread of core c takes a step that leaves the alarms alone. *)
LEMMA HandlerMoves ==
    ASSUME NEW r \in [Alarms -> Nat], QueueParts(r), NEW c \in Core, NEW h \in HandlerRecord,
           handler \in [Core -> HandlerRecord], handler' = [handler EXCEPT ![c] = h],
           UNCHANGED <<alarm, alarmLinks>>,
           \A u \in AlarmThread : state'[u] = "Waiting" => state[u] = "Waiting",
           \A d \in Core \ {c} : /\ Busy(d) => gAlarmLock' = gAlarmLock
                                 /\ timer'[d] = timer[d] /\ (d \in interrupt' <=> d \in interrupt),
           h.pc = "idle" => \A a \in Armed(c) : Covered(c, a)',
           Scans(r, c)'
    PROVE  QueueParts(r)'
<1>1. /\ \A d \in Core : Armed(d)' = Armed(d) /\ Armed(d) \subseteq Alarms
      /\ \A a \in Alarms : Placed(a)' <=> Placed(a)
  BY DEF Armed, Placed
<1>2. handler'[c] = h /\ \A d \in Core \ {c} : handler'[d] = handler[d]
  OBVIOUS
<1>3. \A d \in Core \ {c}, a \in Alarms : Covered(d, a)' <=> Covered(d, a)
  BY <1>2 DEF Covered, Busy
<1>4. Rows(r)'
  BY <1>1 DEF QueueParts, Rows
<1>5. Timers'
  <2>1. ASSUME NEW d \in Core, handler'[d].pc = "idle", NEW a \in Armed(d)'
        PROVE  Covered(d, a)'
    <3>1. CASE d = c
      BY <1>1, <1>2, <2>1, <3>1
    <3>2. CASE d # c
      <4>1. a \in Armed(d) /\ a \in Alarms /\ handler[d].pc = "idle"
        BY <1>1, <1>2, <2>1, <3>2
      <4>2. Covered(d, a)
        BY <4>1 DEF QueueParts, Timers
      <4> QED BY <1>3, <3>2, <4>1, <4>2
    <3> QED BY <3>1, <3>2
  <2> QED BY <2>1 DEF Timers
<1>6. ASSUME NEW d \in Core, d # c PROVE Scans(r, d)'
  <2>1. handler'[d] = handler[d] /\ (Busy(d)' <=> Busy(d)) /\ (Busy(d) => gAlarmLock' = gAlarmLock)
    BY <1>2, <1>6 DEF Busy
  <2>2. Scans(r, d)
    BY DEF QueueParts
  <2> QED BY <1>1, <1>3, <1>6, <2>1, <2>2 DEF Scans
<1> QED BY <1>1, <1>4, <1>5, <1>6 DEF QueueParts

(* What such a step does not change in AlarmTypes and Sleeper. *)
LEMMA HandlerSleepers ==
    ASSUME NEW r \in [Alarms -> Nat], AlarmParts(r), NEW c \in Core, NEW h \in HandlerRecord,
           handler' = [handler EXCEPT ![c] = h],
           \A t \in AlarmThread : Waking(c, t) => h.pc = "rest" /\ h.alarm = t,
           \A t \in AlarmThread : gAlarmLock = t => gAlarmLock' = t,
           UNCHANGED <<alarm, alarmLinks, state, pc, core, now, timeout>>,
           timer' \in [Core -> Nat], interrupt' \subseteq Core, QueueParts(r)'
    PROVE  AlarmsInOrder'
<1>1. AlarmTypes /\ \A t \in AlarmThread : Sleeper(t)
  BY DEF AlarmParts
<1>2. AlarmTypes'
  BY <1>1 DEF AlarmTypes
<1>3. \A d \in Core, t \in AlarmThread : Waking(d, t) => Waking(d, t)'
  BY <1>1 DEF AlarmTypes, Waking
<1>4. ASSUME NEW t \in AlarmThread PROVE Sleeper(t)'
  <2>1. Sleeper(t)
    BY <1>1
  <2>2. (\E d \in Core : Waking(d, t)) => \E d \in Core : Waking(d, t)'
    BY <1>3
  <2>3. gAlarmLock = t => gAlarmLock' = t
    OBVIOUS
  <2> QED BY <2>1, <2>2, <2>3 DEF Sleeper
<1> QED BY <1>2, <1>4 DEF AlarmParts, AlarmsInOrder

(* Handlers whose fields are updated. *)
LEMMA HandlerStarts ==
    ASSUME NEW h \in HandlerRecord, NEW p, NEW a, NEW n, NEW s
    PROVE  [h EXCEPT !.pc = p, !.at = n, !.soonest = s, !.alarm = a] =
              [pc |-> p, alarm |-> a, next |-> h.next, at |-> n, soonest |-> s]
<1>1. h = [pc |-> h.pc, alarm |-> h.alarm, next |-> h.next, at |-> h.at, soonest |-> h.soonest]
  BY DEF HandlerRecord
<1> DEFINE h1 == [h EXCEPT !.pc = p]
<1>2. h1 = [pc |-> p, alarm |-> h.alarm, next |-> h.next, at |-> h.at, soonest |-> h.soonest]
  BY <1>1
<1> DEFINE h2 == [h1 EXCEPT !.at = n]
<1>3. h2 = [pc |-> p, alarm |-> h.alarm, next |-> h.next, at |-> n, soonest |-> h.soonest]
  <2> HIDE DEF h1
  <2> QED BY <1>2
<1> DEFINE h3 == [h2 EXCEPT !.soonest = s]
<1>4. h3 = [pc |-> p, alarm |-> h.alarm, next |-> h.next, at |-> n, soonest |-> s]
  <2> HIDE DEF h2
  <2> QED BY <1>3
<1>5. [h3 EXCEPT !.alarm = a] = [pc |-> p, alarm |-> a, next |-> h.next, at |-> n, soonest |-> s]
  <2> HIDE DEF h3
  <2> QED BY <1>4
<1>6. [h EXCEPT !.pc = p, !.at = n, !.soonest = s, !.alarm = a] = [h3 EXCEPT !.alarm = a]
  OBVIOUS
<1> HIDE DEF h3
<1> QED BY <1>5, <1>6

(* What an interrupt thread knows when it has passed an alarm, ... *)
LEMMA HandlerGoesOn ==
    ASSUME NEW h \in HandlerRecord, NEW p, NEW a, NEW s
    PROVE  [h EXCEPT !.pc = p, !.alarm = a, !.soonest = s] =
              [pc |-> p, alarm |-> a, next |-> h.next, at |-> h.at, soonest |-> s]
<1>1. h = [pc |-> h.pc, alarm |-> h.alarm, next |-> h.next, at |-> h.at, soonest |-> h.soonest]
  BY DEF HandlerRecord
<1> DEFINE h1 == [h EXCEPT !.pc = p]
<1>2. h1 = [pc |-> p, alarm |-> h.alarm, next |-> h.next, at |-> h.at, soonest |-> h.soonest]
  BY <1>1
<1> DEFINE h4 == [h1 EXCEPT !.alarm = a]
<1>3. h4 = [pc |-> p, alarm |-> a, next |-> h.next, at |-> h.at, soonest |-> h.soonest]
  <2> HIDE DEF h1
  <2> QED BY <1>2
<1>4. [h4 EXCEPT !.soonest = s] = [pc |-> p, alarm |-> a, next |-> h.next, at |-> h.at, soonest |-> s]
  <2> HIDE DEF h4
  <2> QED BY <1>3
<1>5. [h EXCEPT !.pc = p, !.alarm = a, !.soonest = s] = [h4 EXCEPT !.soonest = s]
  OBVIOUS
<1> HIDE DEF h4
<1> QED BY <1>4, <1>5

(* ... and when it stops at one. *)
LEMMA HandlerTriggers ==
    ASSUME NEW h \in HandlerRecord, NEW p, NEW k
    PROVE  [h EXCEPT !.next = k, !.pc = p] =
              [pc |-> p, alarm |-> h.alarm, next |-> k, at |-> h.at, soonest |-> h.soonest]
<1>1. h = [pc |-> h.pc, alarm |-> h.alarm, next |-> h.next, at |-> h.at, soonest |-> h.soonest]
  BY DEF HandlerRecord
<1> DEFINE h5 == [h EXCEPT !.next = k]
<1>2. h5 = [pc |-> h.pc, alarm |-> h.alarm, next |-> k, at |-> h.at, soonest |-> h.soonest]
  BY <1>1
<1>3. [h5 EXCEPT !.pc = p] = [pc |-> p, alarm |-> h.alarm, next |-> k, at |-> h.at, soonest |-> h.soonest]
  <2> HIDE DEF h5
  <2> QED BY <1>2
<1>4. [h EXCEPT !.next = k, !.pc = p] = [h5 EXCEPT !.pc = p]
  OBVIOUS
<1> HIDE DEF h5
<1> QED BY <1>3, <1>4

(* The loop of OSCheckAlarms counts an alarm and goes on. *)
LEMMA HandlerCounts ==
    ASSUME NEW h \in HandlerRecord, NEW a \in AlarmRecord, NEW b \in Alarms \cup {Nobody}
    PROVE  /\ Counted(h, a, b) \in HandlerRecord
           /\ Counted(h, a, b).pc = "scan" /\ Counted(h, a, b).alarm = b
           /\ Counted(h, a, b).soonest =< h.soonest
           /\ a.state = "Set" /\ a.nextFire # 0 => Counted(h, a, b).soonest =< a.nextFire
<1> DEFINE s == IF a.state = "Set" /\ a.nextFire # 0 /\ a.nextFire < h.soonest
                THEN a.nextFire ELSE h.soonest
           g == Counted(h, a, b)
<1>1. /\ h.next \in Alarms \cup {Nobody} /\ h.at \in Nat /\ h.soonest \in Nat
      /\ a.nextFire \in Nat
  BY DEF HandlerRecord, AlarmRecord
<1>2. g = [h EXCEPT !.pc = "scan", !.alarm = b, !.soonest = s]
  BY Zenon DEF Counted
<1>3. g = [pc |-> "scan", alarm |-> b, next |-> h.next, at |-> h.at, soonest |-> s]
  <2> HIDE DEF s, g
  <2> QED BY <1>2, HandlerGoesOn
<1>4. /\ s \in Nat /\ s =< h.soonest
      /\ a.state = "Set" /\ a.nextFire # 0 => s =< a.nextFire
  BY <1>1
<1> HIDE DEF s, g
<1>5. /\ g \in HandlerRecord /\ g.pc = "scan" /\ g.alarm = b /\ g.soonest = s
  BY <1>1, <1>3, <1>4 DEF HandlerRecord
<1> QED BY <1>4, <1>5 DEF g

(* Interrupts are taken, and OSCheckAlarms begins, goes on and ends. *)
LEMMA TakeInterruptKeeps ==
    ASSUME NEW r \in [Alarms -> Nat], AlarmParts(r), NEW c \in Core, TakeInterrupt(c)
    PROVE  AlarmsInOrder' /\ broken' = broken
<1> USE AlarmSets
<1> DEFINE h == [handler[c] EXCEPT !.pc = "lock"]
<1>1. /\ UNCHANGED <<alarm, alarmLinks, state, pc, core, now, timeout, timer, gAlarmLock, broken>>
      /\ handler' = [handler EXCEPT ![c] = h] /\ interrupt' = interrupt \ {c}
      /\ handler[c].pc = "idle"
  BY DEF TakeInterrupt, Handle
<1>2. AlarmTypes /\ QueueParts(r)
  BY DEF AlarmParts
<1>3. handler \in [Core -> HandlerRecord] /\ timer \in [Core -> Nat] /\ interrupt \subseteq Core
  BY <1>2 DEF AlarmTypes
<1>4. h \in HandlerRecord /\ h.pc = "lock"
  BY <1>3 DEF HandlerRecord
<1> HIDE DEF h
<1>5. Scans(r, c)'
  BY <1>1, <1>3, <1>4 DEF Scans, Busy
<1>6. QueueParts(r)'
  BY <1>1, <1>2, <1>3, <1>4, <1>5, HandlerMoves
<1>7. \A t \in AlarmThread : ~Waking(c, t)
  BY <1>1 DEF Waking
<1>8. timer' \in [Core -> Nat] /\ interrupt' \subseteq Core
  BY <1>1, <1>3
<1>9. AlarmsInOrder'
  BY <1>1, <1>4, <1>6, <1>7, <1>8, HandlerSleepers
<1> QED BY <1>1, <1>9

(* The interrupt thread begins at the head of its core's queue: nothing is
   behind it. *)
LEMMA CheckAlarmsKeeps ==
    ASSUME NEW r \in [Alarms -> Nat], AlarmParts(r), NEW c \in Core, CheckAlarms(c)
    PROVE  AlarmsInOrder' /\ broken' = broken
<1> USE AlarmSets
<1> DEFINE h == [handler[c] EXCEPT !.pc = "scan", !.at = now, !.soonest = Never,
                                   !.alarm = alarmLinks.head[c]]
           a == alarmLinks.head[c]
<1>1. /\ UNCHANGED <<alarm, alarmLinks, state, pc, core, now, timeout, timer, interrupt, broken>>
      /\ handler' = [handler EXCEPT ![c] = h] /\ gAlarmLock = Nobody /\ gAlarmLock' = c
      /\ handler[c].pc = "lock"
  BY DEF CheckAlarms, Handle
<1>2. AlarmTypes /\ QueueParts(r)
  BY DEF AlarmParts
<1>3. /\ handler \in [Core -> HandlerRecord] /\ timer \in [Core -> Nat] /\ interrupt \subseteq Core
      /\ now \in Nat /\ Never \in Nat
  BY <1>2, AlarmAssumption DEF AlarmTypes, Never
<1>4. IF Armed(c) = {} THEN a = Nobody ELSE a \in Armed(c) /\ \A x \in Armed(c) : r[a] =< r[x]
  BY <1>2 DEF QueueParts, Rows, Row
<1>5. Armed(c) \subseteq Alarms
  BY DEF Armed
<1>6. a \in Alarms \cup {Nobody}
  BY <1>4, <1>5
<1>7. h \in HandlerRecord /\ h.pc = "scan" /\ h.alarm = a
  <2>1. handler[c] \in HandlerRecord
    BY <1>3
  <2>2. h = [pc |-> "scan", alarm |-> a, next |-> handler[c].next, at |-> now, soonest |-> Never]
    <3> DEFINE k == handler[c]
               n == Never
    <3>1. k \in HandlerRecord
      BY <2>1
    <3>2. h = [k EXCEPT !.pc = "scan", !.at = now, !.soonest = n, !.alarm = a]
      OBVIOUS
    <3> HIDE DEF k, h, a, n
    <3>3. h = [pc |-> "scan", alarm |-> a, next |-> k.next, at |-> now, soonest |-> n]
      BY <3>1, <3>2, HandlerStarts, ZenonT(60)
    <3> QED BY <3>3 DEF k, n
  <2>3. handler[c].next \in Alarms \cup {Nobody}
    BY <2>1 DEF HandlerRecord
  <2> HIDE DEF h, a
  <2> QED BY <1>3, <1>6, <2>2, <2>3 DEF HandlerRecord
<1> HIDE DEF h
<1>8. Scans(r, c)'
  <2>1. handler'[c] = h /\ Armed(c)' = Armed(c)
    BY <1>1, <1>3 DEF Armed
  <2>2. a = Nobody => Armed(c) = {}
    BY <1>4, <1>5
  <2>3. \A x \in Armed(c) : ~(r[x] < r[a])
    BY <1>4, <1>5
  <2> HIDE DEF a
  <2>4. a \in Armed(c) \cup {Nobody}
    BY <1>4 DEF a
  <2> QED BY <1>1, <1>7, <2>1, <2>2, <2>3, <2>4 DEF Scans, Cursor
<1>9. \A d \in Core : ~Busy(d)
  BY <1>1, <1>2, NotBusy
<1>10. QueueParts(r)'
  BY <1>1, <1>2, <1>3, <1>7, <1>8, <1>9, HandlerMoves
<1>11. \A t \in AlarmThread : ~Waking(c, t)
  BY <1>1 DEF Waking
<1>12. timer' \in [Core -> Nat] /\ interrupt' \subseteq Core
  BY <1>1, <1>3
<1>13. \A t \in AlarmThread : gAlarmLock = t => gAlarmLock' = t
  BY <1>1
<1>14. AlarmsInOrder'
  BY <1>1, <1>7, <1>10, <1>11, <1>12, <1>13, HandlerSleepers
<1> QED BY <1>1, <1>14

(* It counts the alarm that it passes in the soonest time. *)
LEMMA PassAlarmKeeps ==
    ASSUME NEW r \in [Alarms -> Nat], AlarmParts(r), NEW c \in Core, PassAlarm(c)
    PROVE  AlarmsInOrder' /\ broken' = broken
<1> USE AlarmSets
<1> DEFINE a == handler[c].alarm
           b == alarmLinks.next[a]
           h == Counted(handler[c], alarm[a], b)
<1>1. /\ UNCHANGED <<alarm, alarmLinks, state, pc, core, now, timeout, timer, interrupt, gAlarmLock, broken>>
      /\ handler' = [handler EXCEPT ![c] = h]
      /\ handler[c].pc = "scan" /\ a # Nobody
  BY DEF PassAlarm, Handle
<1>2. AlarmTypes /\ QueueParts(r)
  BY DEF AlarmParts
<1>3. /\ handler \in [Core -> HandlerRecord] /\ timer \in [Core -> Nat] /\ interrupt \subseteq Core
      /\ alarm \in [Alarms -> AlarmRecord]
  BY <1>2 DEF AlarmTypes
<1>4. Busy(c) /\ Scans(r, c)
  BY <1>1, <1>2 DEF Busy, QueueParts
<1>5. a \in Armed(c) /\ Armed(c) \subseteq Alarms /\ a \in Alarms
  BY <1>1, <1>4 DEF Scans, Cursor, Armed
<1>6. Row(alarmLinks, c, Armed(c), r)
  BY <1>2 DEF QueueParts, Rows
<1>7. /\ b \in Armed(c) \cup {Nobody} /\ b # a
      /\ \A x \in Armed(c) : b = Nobody \/ r[x] < r[b] => x = a \/ r[x] < r[a]
  <2> DEFINE E == Armed(c)
  <2> HIDE DEF E, a, b
  <2>1. E \in SUBSET Alarms /\ a \in E /\ Row(alarmLinks, c, E, r) /\ b = alarmLinks.next[a]
    BY <1>5, <1>6 DEF E, b
  <2>2. /\ b \in E \cup {NoThread} /\ b # a
        /\ \A x \in E : b = NoThread \/ r[x] < r[b] => x = a \/ r[x] < r[a]
    BY <2>1, RowStep
  <2> QED BY <2>2 DEF E
<1>8. alarm[a].state = "Set" /\ alarm[a].nextFire \in Nat /\ alarm[a].nextFire > 0
  BY <1>2, <1>3, <1>5 DEF Armed, AlarmRecord, QueueParts, Placed
<1>9. /\ h \in HandlerRecord /\ h.pc = "scan" /\ h.alarm = b
      /\ h.soonest =< handler[c].soonest /\ h.soonest =< alarm[a].nextFire
  <2> DEFINE k == handler[c]
             d == alarm[a]
  <2>1. k \in HandlerRecord /\ d \in AlarmRecord /\ b \in Alarms \cup {Nobody}
    BY <1>3, <1>5, <1>7
  <2>2. d.state = "Set" /\ d.nextFire # 0
    BY <1>8
  <2>3. h = Counted(k, d, b)
    OBVIOUS
  <2> HIDE DEF h, k, d, b
  <2>4. /\ h \in HandlerRecord /\ h.pc = "scan" /\ h.alarm = b
        /\ h.soonest =< k.soonest /\ h.soonest =< d.nextFire
    BY <2>1, <2>2, <2>3, HandlerCounts
  <2> QED BY <2>4 DEF k, d
<1> HIDE DEF h
<1>10. handler'[c] = h /\ Armed(c)' = Armed(c) /\ Busy(c)'
  BY <1>1, <1>3, <1>9 DEF Armed, Busy
<1>11. ASSUME NEW x \in Armed(c), b = Nobody \/ r[x] < r[b] PROVE Covered(c, x)'
  <2>1. CASE x = a
    BY <1>1, <1>9, <1>10, <2>1 DEF Covered
  <2>2. CASE x # a
    <3>1. Covered(c, x)
      BY <1>1, <1>4, <1>7, <1>11, <2>2 DEF Scans, Cursor
    <3>2. handler[c].soonest \in Nat /\ h.soonest \in Nat /\ alarm[x].nextFire \in Nat
      BY <1>3, <1>5, <1>9 DEF HandlerRecord, AlarmRecord
    <3>3. handler[c].soonest =< alarm[x].nextFire => h.soonest =< alarm[x].nextFire
      BY <1>9, <3>2
    <3> QED BY <1>1, <1>10, <3>1, <3>3 DEF Covered
  <2> QED BY <2>1, <2>2
<1>12. Scans(r, c)'
  <2> HIDE DEF a, b
  <2> QED BY <1>1, <1>4, <1>7, <1>9, <1>10, <1>11 DEF Scans, Cursor
<1>13. QueueParts(r)'
  BY <1>1, <1>2, <1>3, <1>9, <1>12, HandlerMoves
<1>14. \A t \in AlarmThread : ~Waking(c, t)
  BY <1>1 DEF Waking
<1>15. timer' \in [Core -> Nat] /\ interrupt' \subseteq Core
  BY <1>1, <1>3
<1>16. AlarmsInOrder'
  BY <1>1, <1>9, <1>13, <1>14, <1>15, HandlerSleepers
<1> QED BY <1>1, <1>16

(* At the end of the queue the timer is set to the soonest time of all. *)
LEMMA FinishInterruptKeeps ==
    ASSUME NEW r \in [Alarms -> Nat], AlarmParts(r), NEW c \in Core, FinishInterrupt(c)
    PROVE  AlarmsInOrder' /\ broken' = broken
<1> USE AlarmSets
<1> DEFINE s == handler[c].soonest
           h == IdleHandler
<1>1. /\ UNCHANGED <<alarm, alarmLinks, state, pc, core, now, timeout, interrupt, broken>>
      /\ handler' = [handler EXCEPT ![c] = h] /\ gAlarmLock' = Nobody
      /\ timer' = [timer EXCEPT ![c] = IF s < timer[c] THEN s ELSE timer[c]]
      /\ handler[c].pc = "scan" /\ handler[c].alarm = Nobody
  BY DEF FinishInterrupt, Handle, SetInterruptTimer
<1>2. AlarmTypes /\ QueueParts(r)
  BY DEF AlarmParts
<1>3. /\ handler \in [Core -> HandlerRecord] /\ timer \in [Core -> Nat] /\ interrupt \subseteq Core
      /\ alarm \in [Alarms -> AlarmRecord] /\ s \in Nat
  BY <1>2 DEF AlarmTypes, HandlerRecord
<1>4. Busy(c) /\ Scans(r, c) /\ gAlarmLock = c
  BY <1>1, <1>2 DEF Busy, QueueParts, Scans
<1>5. \A d \in Core \ {c} : ~Busy(d)
  BY <1>2, <1>4 DEF QueueParts, Scans
<1>6. h \in HandlerRecord /\ h.pc = "idle"
  <2>1. Never \in Nat
    BY AlarmAssumption DEF Never
  <2> QED BY <2>1 DEF IdleHandler, HandlerRecord
<1> HIDE DEF h
<1>7. /\ timer'[c] =< s /\ timer'[c] =< timer[c] /\ timer' \in [Core -> Nat]
      /\ \A d \in Core \ {c} : timer'[d] = timer[d]
  <2> HIDE DEF s
  <2> QED BY <1>1, <1>3
<1>8. ASSUME NEW a \in Armed(c) PROVE Covered(c, a)'
  <2>1. Covered(c, a)
    BY <1>1, <1>4 DEF Scans, Cursor
  <2>2. a \in Alarms /\ alarm[a].nextFire \in Nat /\ timer[c] \in Nat /\ timer'[c] \in Nat
    BY <1>3, <1>7 DEF Armed, AlarmRecord
  <2>3. timer[c] =< alarm[a].nextFire \/ c \in interrupt \/ s =< alarm[a].nextFire
    BY <1>1, <2>1 DEF Covered
  <2>4. timer'[c] =< alarm[a].nextFire \/ c \in interrupt
    <3> HIDE DEF s
    <3> QED BY <1>3, <1>7, <2>2, <2>3
  <2> QED BY <1>1, <2>4 DEF Covered
<1>9. Scans(r, c)'
  BY <1>1, <1>3, <1>6 DEF Scans, Busy
<1>10. QueueParts(r)'
  BY <1>1, <1>2, <1>3, <1>5, <1>6, <1>7, <1>8, <1>9, HandlerMoves
<1>11. \A t \in AlarmThread : ~Waking(c, t)
  BY <1>1 DEF Waking
<1>12. interrupt' \subseteq Core
  BY <1>1, <1>3
<1>13. \A t \in AlarmThread : gAlarmLock = t => gAlarmLock' = t
  BY <1>4
<1>14. AlarmsInOrder'
  BY <1>1, <1>6, <1>7, <1>10, <1>11, <1>12, <1>13, HandlerSleepers
<1> QED BY <1>1, <1>14

(* Waking who waits for the alarm leaves the queues as they are. *)
LEMMA WakeWaitersKeeps ==
    ASSUME NEW r \in [Alarms -> Nat], AlarmParts(r), NEW c \in Core, WakeWaiters(c)
    PROVE  AlarmsInOrder' /\ broken' = broken
<1> USE AlarmSets
<1> DEFINE h == [handler[c] EXCEPT !.pc = "rest"]
<1>1. /\ UNCHANGED <<alarm, alarmLinks, state, pc, core, now, timeout, timer, interrupt, gAlarmLock, broken>>
      /\ handler' = [handler EXCEPT ![c] = h] /\ handler[c].pc = "wake"
  BY DEF WakeWaiters, Handle
<1>2. AlarmTypes /\ QueueParts(r)
  BY DEF AlarmParts
<1>3. handler \in [Core -> HandlerRecord] /\ timer \in [Core -> Nat] /\ interrupt \subseteq Core
  BY <1>2 DEF AlarmTypes
<1>4. /\ h \in HandlerRecord /\ h.pc = "rest" /\ h.alarm = handler[c].alarm
      /\ h.next = handler[c].next /\ h.soonest = handler[c].soonest
  BY <1>3 DEF HandlerRecord
<1> HIDE DEF h
<1>5. Scans(r, c)'
  <2>1. Busy(c) /\ Busy(c)' /\ handler'[c] = h
    BY <1>1, <1>3, <1>4 DEF Busy
  <2>2. Armed(c)' = Armed(c) /\ \A a \in Armed(c) : Covered(c, a)' <=> Covered(c, a)
    BY <1>1, <1>4, <2>1 DEF Armed, Covered
  <2>3. Scans(r, c)
    BY <1>2 DEF QueueParts
  <2> QED BY <1>1, <1>4, <2>1, <2>2, <2>3 DEF Scans, Cursor
<1>6. QueueParts(r)'
  BY <1>1, <1>2, <1>3, <1>4, <1>5, HandlerMoves
<1>7. \A t \in AlarmThread : Waking(c, t) => h.pc = "rest" /\ h.alarm = t
  BY <1>4 DEF Waking
<1>8. timer' \in [Core -> Nat] /\ interrupt' \subseteq Core
  BY <1>1, <1>3
<1>9. AlarmsInOrder'
  BY <1>1, <1>4, <1>6, <1>7, <1>8, HandlerSleepers
<1> QED BY <1>1, <1>9

(* The interrupt thread of core c takes a step that changes alarm a at most. *)
LEMMA HandlerActs ==
    ASSUME AlarmTypes, NEW r, QueueParts(r), NEW r2, Rows(r2)',
           NEW c \in Core, Busy(c), Busy(c)', NEW a \in Alarms,
           timer' \in [Core -> Nat], \A d \in Core : timer'[d] =< timer[d],
           interrupt' = interrupt, \A d \in Core \ {c} : handler'[d] = handler[d],
           \A x \in Alarms \ {a} : alarm'[x] = alarm[x],
           \A d \in Core \ {c} : Armed(d)' \subseteq Armed(d) \ {a},
           Placed(a)', Scans(r2, c)'
    PROVE  QueueParts(r2)'
<1> USE AlarmSets
<1>1. gAlarmLock = c
  BY DEF QueueParts, Scans
<1>2. \A d \in Core \ {c} : ~Busy(d) /\ ~Busy(d)'
  BY <1>1 DEF QueueParts, Scans, Busy
<1>3. Timers'
  <2>1. ASSUME NEW d \in Core, handler'[d].pc = "idle", NEW x \in Armed(d)'
        PROVE  Covered(d, x)'
    <3>1. d # c
      BY <2>1 DEF Busy
    <3>2. x \in Armed(d) /\ x \in Alarms \ {a} /\ handler[d].pc = "idle"
      BY <2>1, <3>1 DEF Armed
    <3>3. timer[d] =< alarm[x].nextFire \/ d \in interrupt
      BY <1>2, <3>1, <3>2 DEF QueueParts, Timers, Covered
    <3>4. /\ timer'[d] =< timer[d] /\ timer'[d] \in Nat /\ timer[d] \in Nat
          /\ alarm[x].nextFire \in Nat /\ alarm'[x] = alarm[x]
      BY <3>2 DEF AlarmTypes, AlarmRecord
    <3>5. timer'[d] =< alarm'[x].nextFire \/ d \in interrupt'
      BY <3>3, <3>4
    <3> QED BY <3>5 DEF Covered
  <2> QED BY <2>1 DEF Timers
<1>4. \A d \in Core \ {c} : Scans(r2, d)'
  BY <1>2 DEF Scans
<1>5. \A x \in Alarms : Placed(x)'
  BY DEF QueueParts, Placed
<1> QED BY <1>3, <1>4, <1>5 DEF QueueParts

(* What an alarm that is not touched keeps. *)
LEMMA CoveredStill ==
    ASSUME AlarmTypes, NEW c \in Core, NEW x \in Alarms, Covered(c, x), Busy(c), Busy(c)',
           timer' \in [Core -> Nat], timer'[c] =< timer[c], interrupt' = interrupt,
           handler' \in [Core -> HandlerRecord], handler'[c].soonest =< handler[c].soonest,
           alarm'[x] = alarm[x], handler[c].pc = "scan" \/ x # handler[c].alarm
    PROVE  Covered(c, x)'
<1>1. /\ timer[c] \in Nat /\ timer'[c] \in Nat /\ alarm[x].nextFire \in Nat
      /\ handler[c].soonest \in Nat /\ handler'[c].soonest \in Nat
  BY DEF AlarmTypes, HandlerRecord, AlarmRecord
<1>2. \/ timer[c] =< alarm[x].nextFire \/ c \in interrupt
      \/ handler[c].soonest =< alarm[x].nextFire
  BY DEF Covered
<1>3. \/ timer'[c] =< alarm'[x].nextFire \/ c \in interrupt'
      \/ handler'[c].soonest =< alarm'[x].nextFire
  BY <1>1, <1>2
<1> QED BY <1>3 DEF Covered

(* SleepAlarmHandler and EventAlarmHandler find a thread that runs only when *)
(* its wait with timeout was signalled.                                      *)
TimeoutComes(t) ==
    /\ t \in AlarmThread
    /\ timeout' \in [AlarmThread -> BOOLEAN]
    /\ pc[t] = "eventWait" => timeout'[t]
    /\ \A u \in AlarmThread \ {t} : timeout'[u] = timeout[u]
    /\ state[t] = "Running" => timeout'[t] /\ broken' = "woken"
    /\ state[t] # "Running" => /\ AlarmsInOrder' /\ broken' = broken
                               /\ state' = [state EXCEPT ![t] = "Ready"]

(* The timed waits' callbacks wake only a thread that sleeps, until a timeout
   has come. *)
LEMMA AlarmHandlerKeeps ==
    ASSUME NEW r \in [Alarms -> Nat], AlarmParts(r), NEW c \in Core, AlarmHandler(c)
    PROVE  TimeoutComes(handler[c].alarm)
<1> USE AlarmSets
<1> DEFINE t == handler[c].alarm
           h == [handler[c] EXCEPT !.pc = "wake"]
<1>1. /\ UNCHANGED <<alarm, alarmLinks, pc, core, now, timer, interrupt, gAlarmLock>>
      /\ handler' = [handler EXCEPT ![c] = h] /\ handler[c].pc = "callback"
      /\ timeout' = [timeout EXCEPT ![t] = alarm[t].callback = "event" \/ timeout[t]]
      /\ state[t] = "Running" => broken' = "woken"
      /\ state[t] # "Running" => broken' = broken /\ state' = [state EXCEPT ![t] = "Ready"]
  BY DEF AlarmHandler, Handle
<1>2. AlarmTypes /\ QueueParts(r) /\ \A u \in AlarmThread : Sleeper(u)
  BY DEF AlarmParts
<1>3. /\ handler \in [Core -> HandlerRecord] /\ timer \in [Core -> Nat] /\ interrupt \subseteq Core
      /\ state \in [Thread -> States] /\ timeout \in [AlarmThread -> BOOLEAN]
  BY <1>2 DEF AlarmTypes
<1>4. Busy(c) /\ Scans(r, c) /\ gAlarmLock = c
  BY <1>1, <1>2 DEF Busy, QueueParts, Scans
<1>5. t \in AlarmThread /\ t \in Armed(c) /\ alarm[t].state = "Set"
  BY <1>1, <1>4 DEF Scans, Armed
<1>6. \/ alarm[t].callback = "sleep" /\ pc[t] = "sleeping"
      \/ alarm[t].callback = "event" /\ pc[t] = "eventWait"
  BY <1>2, <1>5 DEF Sleeper
<1>7. \A d \in Core \ {c} : ~Busy(d)
  BY <1>2, <1>4 DEF QueueParts, Scans
<1>8. \A d \in Core : ~Waking(d, t)
  BY <1>1, <1>7 DEF Busy, Waking
<1>9. pc[t] = "sleeping" => state[t] = "Waiting"
  <2>1. Sleeper(t)
    BY <1>2, <1>5
  <2> QED BY <1>5, <1>8, <2>1 DEF Sleeper
<1>10. /\ timeout' \in [AlarmThread -> BOOLEAN]
       /\ pc[t] = "eventWait" => timeout'[t]
       /\ \A u \in AlarmThread \ {t} : timeout'[u] = timeout[u]
  <2> DEFINE k == alarm[t].callback = "event" \/ timeout[t]
  <2>1. k \in BOOLEAN
    OBVIOUS
  <2>2. pc[t] = "eventWait" => k
    BY <1>6
  <2>3. timeout' = [timeout EXCEPT ![t] = k]
    BY <1>1
  <2> HIDE DEF k, t
  <2>4. timeout' \in [AlarmThread -> BOOLEAN]
    BY <1>3, <2>1, <2>3
  <2>5. timeout'[t] = k /\ \A u \in AlarmThread \ {t} : timeout'[u] = timeout[u]
    BY <1>3, <1>5, <2>3
  <2> QED BY <2>2, <2>4, <2>5
<1>11. h \in HandlerRecord /\ h.pc = "wake" /\ h.alarm = t /\ h.next = handler[c].next
       /\ h.soonest = handler[c].soonest
  BY <1>3 DEF HandlerRecord
<1> HIDE DEF h
<1>12. ASSUME state[t] # "Running" PROVE AlarmsInOrder'
  <2>1. state' = [state EXCEPT ![t] = "Ready"]
    BY <1>1, <1>12
  <2>2. state'[t] = "Ready" /\ \A u \in AlarmThread \ {t} : state'[u] = state[u]
    <3> HIDE DEF t
    <3> QED BY <1>3, <1>5, <2>1
  <2>3. handler'[c] = h /\ Busy(c)' /\ \A d \in Core \ {c} : handler'[d] = handler[d]
    BY <1>1, <1>3, <1>11 DEF Busy
  <2>4. Scans(r, c)'
    <3>1. Armed(c)' = Armed(c) /\ \A a \in Armed(c) : Covered(c, a)' <=> Covered(c, a)
      BY <1>1, <1>4, <1>11, <2>3 DEF Armed, Covered
    <3> HIDE DEF t
    <3> QED BY <1>1, <1>4, <1>11, <2>2, <2>3, <3>1 DEF Scans, Cursor, t
  <2>5. QueueParts(r)'
    <3>1. \A u \in AlarmThread : state'[u] = "Waiting" => state[u] = "Waiting"
      BY <2>2
    <3> HIDE DEF t
    <3> QED BY <1>1, <1>2, <1>3, <1>11, <2>4, <3>1, HandlerMoves
  <2>6. AlarmTypes'
    <3>1. state' \in [Thread -> States]
      BY <1>3, <2>1 DEF States
    <3>2. handler' \in [Core -> HandlerRecord]
      BY <1>1, <1>3, <1>11
    <3> QED BY <1>1, <1>2, <1>10, <3>1, <3>2 DEF AlarmTypes
  <2>7. ASSUME NEW u \in AlarmThread PROVE Sleeper(u)'
    <3>1. Sleeper(u)
      BY <1>2
    <3>2. CASE u = t
      <4>1. Waking(c, u)'
        BY <1>11, <2>3, <3>2 DEF Waking
      <4> HIDE DEF t
      <4> QED BY <1>1, <2>2, <3>1, <3>2, <4>1 DEF Sleeper
    <3>3. CASE u # t
      <4>1. \A d \in Core : Waking(d, u) => Waking(d, u)'
        BY <1>1, <2>3 DEF Waking
      <4> HIDE DEF t
      <4> QED BY <1>1, <2>2, <3>1, <3>3, <4>1 DEF Sleeper
    <3> QED BY <3>2, <3>3
  <2> QED BY <2>5, <2>6, <2>7 DEF AlarmParts, AlarmsInOrder
<1>13. state[t] = "Running" => pc[t] = "eventWait"
  BY <1>6, <1>9
<1> HIDE DEF t
<1>14. TimeoutComes(t)
  <2>1. state[t] = "Running" => timeout'[t] /\ broken' = "woken"
    BY <1>1, <1>10, <1>13, Zenon
  <2>2. state[t] # "Running" => /\ AlarmsInOrder' /\ broken' = broken
                                /\ state' = [state EXCEPT ![t] = "Ready"]
    BY <1>1, <1>12
  <2>3. /\ t \in AlarmThread /\ timeout' \in [AlarmThread -> BOOLEAN]
        /\ \A u \in AlarmThread \ {t} : timeout'[u] = timeout[u]
    BY <1>5, <1>10
  <2>4. pc[t] = "eventWait" => timeout'[t]
    BY <1>10, Zenon
  <2> QED BY <2>1, <2>2, <2>3, <2>4, Zenon DEF TimeoutComes
<1> QED BY <1>14 DEF t

(* An alarm that is due: the thread has remembered what comes next, and nothing
   takes that off while it holds the lock. *)
LEMMA TriggerAlarmKeeps ==
    ASSUME NEW r \in [Alarms -> Nat], AlarmParts(r), NEW c \in Core, TriggerAlarm(c), ~reused'
    PROVE  AlarmsInOrder' /\ broken' = broken
<1> USE AlarmSets
<1>0. PICK k, a, b, fire, every, game :
         /\ k = handler[c] /\ a = k.alarm /\ b = alarmLinks.next[a]
         /\ fire = now + 1 /\ every = 0 /\ game = "game"
  OBVIOUS
<1> DEFINE p == IF alarm[a].callback \in {"sleep", "event"} /\ alarm[a].state # "Cancelled"
                THEN "callback" ELSE "wake"
           h == [k EXCEPT !.next = b, !.pc = p]
<1>1. /\ UNCHANGED <<state, pc, core, now, timeout, interrupt, gAlarmLock>>
      /\ handler' = [handler EXCEPT ![c] = h]
      /\ k.pc = "scan" /\ a # Nobody
      /\ \/ UNCHANGED <<alarm, alarmLinks, timer, broken, reused>>
         \/ alarm[a].callback = "game" /\ Arm(c, a, fire, every, game)
         \/ alarm[a].callback = "game" /\ Cancel(a)
  BY <1>0 DEF TriggerAlarm, Handle
<1>2. AlarmTypes /\ QueueParts(r) /\ \A u \in AlarmThread : Sleeper(u)
  BY DEF AlarmParts
<1>3. /\ handler \in [Core -> HandlerRecord] /\ timer \in [Core -> Nat] /\ interrupt \subseteq Core
      /\ alarm \in [Alarms -> AlarmRecord] /\ now \in Nat /\ k \in HandlerRecord
  BY <1>0, <1>2 DEF AlarmTypes
<1>4. Busy(c) /\ Scans(r, c) /\ gAlarmLock = c
  BY <1>0, <1>1, <1>2 DEF Busy, QueueParts, Scans
<1>5. a \in Armed(c) /\ Armed(c) \subseteq Alarms /\ a \in Alarms
  BY <1>0, <1>1, <1>4 DEF Scans, Cursor, Armed
<1>6. /\ Rows(r) /\ Row(alarmLinks, c, Armed(c), r) /\ Placed(a)
      /\ alarm[a].state = "Set" /\ alarm[a].queue = c
  BY <1>2, <1>5 DEF QueueParts, Rows, Armed
<1>7. /\ b \in Armed(c) \cup {Nobody} /\ b # a
      /\ \A x \in Armed(c) : b = Nobody \/ r[x] < r[b] => x = a \/ r[x] < r[a]
  <2> DEFINE E == Armed(c)
  <2> HIDE DEF E
  <2>1. E \in SUBSET Alarms /\ a \in E /\ Row(alarmLinks, c, E, r) /\ b = alarmLinks.next[a]
    BY <1>0, <1>5, <1>6 DEF E
  <2>2. /\ b \in E \cup {NoThread} /\ b # a
        /\ \A x \in E : b = NoThread \/ r[x] < r[b] => x = a \/ r[x] < r[a]
    BY <2>1, RowStep
  <2> QED BY <2>2 DEF E
<1>8. a \in AlarmThread => alarm[a].callback \in {"sleep", "event"}
  <2>1. ASSUME a \in AlarmThread PROVE alarm[a].callback \in {"sleep", "event"}
    <3>1. Sleeper(a)
      BY <1>2, <2>1
    <3> QED BY <1>6, <3>1 DEF Sleeper
  <2> QED BY <2>1
<1>9. a \in GameAlarm => alarm[a].callback \in {"none", "game"}
  BY <1>6 DEF Placed
<1>10. p \in {"callback", "wake"}
  OBVIOUS
<1>11. p = "wake" => a \in GameAlarm
  BY <1>5, <1>6, <1>8
<1>12. p = "callback" => a \in AlarmThread
  BY <1>5, <1>9
<1>13. /\ h \in HandlerRecord /\ h.pc = p /\ h.next = b /\ h.alarm = a
       /\ h.soonest = k.soonest
  <2>1. /\ a \in Alarms /\ b \in Alarms \cup {Nobody} /\ k.at \in Nat /\ k.soonest \in Nat
        /\ p \in {"callback", "wake"}
    BY <1>3, <1>5, <1>7, <1>10 DEF HandlerRecord
  <2>2. h = [pc |-> p, alarm |-> a, next |-> b, at |-> k.at, soonest |-> k.soonest]
    <3> HIDE DEF p
    <3>1. h = [k EXCEPT !.next = b, !.pc = p]
      OBVIOUS
    <3> HIDE DEF h
    <3>2. k \in HandlerRecord
      BY <1>3
    <3>3. h = [pc |-> p, alarm |-> k.alarm, next |-> b, at |-> k.at, soonest |-> k.soonest]
      BY <3>1, <3>2, HandlerTriggers
    <3> QED BY <1>0, <3>3
  <2> HIDE DEF h, p
  <2> QED BY <2>1, <2>2 DEF HandlerRecord
<1> HIDE DEF h, p
<1>14. handler'[c] = h /\ Busy(c)' /\ \A d \in Core \ {c} : handler'[d] = handler[d]
  BY <1>1, <1>3, <1>10, <1>13 DEF Busy
<1>15. handler' \in [Core -> HandlerRecord]
  BY <1>1, <1>3, <1>13
<1>16. \A x \in Armed(c) \ {a} : b = Nobody \/ r[x] < r[b] => Covered(c, x)
  BY <1>0, <1>1, <1>4, <1>7 DEF Scans, Cursor
<1>17. ASSUME \A u \in AlarmThread : alarm'[u] = alarm[u], NEW u \in AlarmThread
       PROVE  Sleeper(u)'
  <2>1. Sleeper(u) /\ alarm'[u] = alarm[u]
    BY <1>2, <1>17
  <2>2. \A d \in Core : Waking(d, u) => Waking(d, u)'
    BY <1>0, <1>1, <1>14 DEF Waking
  <2> QED BY <1>1, <2>1, <2>2 DEF Sleeper
<1>18. ASSUME NEW r2 \in [Alarms -> Nat], QueueParts(r2)',
              alarm' \in [Alarms -> AlarmRecord], alarmLinks' \in RowType(Alarms, Core),
              timer' \in [Core -> Nat], \A u \in AlarmThread : alarm'[u] = alarm[u]
       PROVE  AlarmsInOrder'
  <2>1. AlarmTypes'
    BY <1>1, <1>2, <1>15, <1>18 DEF AlarmTypes
  <2> QED BY <1>17, <1>18, <2>1 DEF AlarmParts, AlarmsInOrder
<1>20. ASSUME timer' \in [Core -> Nat], timer'[c] =< timer[c],
              NEW x \in Armed(c), x # a, alarm'[x] = alarm[x], b = Nobody \/ r[x] < r[b]
       PROVE  Covered(c, x)'
  <2>1. Covered(c, x) /\ x \in Alarms
    BY <1>5, <1>16, <1>20
  <2>2. handler'[c].soonest =< handler[c].soonest
    BY <1>0, <1>3, <1>13, <1>14 DEF HandlerRecord
  <2>3. interrupt' = interrupt
    BY <1>1
  <2> QED BY <1>0, <1>1, <1>2, <1>4, <1>14, <1>15, <1>20, <2>1, <2>2, <2>3, CoveredStill
<1>21. \A x \in Alarms : x = a => Covered(c, x)'
  BY <1>10, <1>13, <1>14 DEF Covered
<1>22. /\ a # b /\ a \in Alarms /\ p \in {"callback", "wake"} /\ gAlarmLock' = c
       /\ state' = state /\ handler'[c] = h
  BY <1>1, <1>4, <1>5, <1>7, <1>10, <1>14
<1>23. \A d \in Core \ {c} : Armed(d) \ {a} = Armed(d)
  BY <1>5 DEF Armed
<1>24. CASE UNCHANGED <<alarm, alarmLinks, timer, broken>>
  <2>1. /\ \A d \in Core : Armed(d)' = Armed(d)
        /\ timer' \in [Core -> Nat] /\ \A d \in Core : timer'[d] =< timer[d]
    BY <1>3, <1>24 DEF Armed
  <2>2. Scans(r, c)'
    <3>1. \A x \in Armed(c) : b = Nobody \/ r[x] < r[b] => Covered(c, x)'
      BY <1>5, <1>20, <1>21, <1>24, <2>1
    <3> QED BY <1>5, <1>7, <1>11, <1>12, <1>13, <1>14, <1>22, <2>1, <3>1, <1>24 DEF Scans, Cursor
  <2>3. Rows(r)' /\ Placed(a)'
    BY <1>6, <1>24, <2>1 DEF Rows, Placed
  <2>4. /\ \A x \in Alarms \ {a} : alarm'[x] = alarm[x]
        /\ \A d \in Core \ {c} : Armed(d)' \subseteq Armed(d) \ {a}
    BY <1>23, <1>24, <2>1
  <2>5. QueueParts(r)'
    BY <1>1, <1>2, <1>4, <1>14, <1>22, <2>1, <2>2, <2>3, <2>4, HandlerActs
  <2> QED BY <1>2, <1>3, <1>18, <1>24, <2>1, <2>5 DEF AlarmTypes
<1>25. CASE alarm[a].callback = "game" /\ Arm(c, a, fire, every, game)
  <2>1. a \in GameAlarm
    BY <1>5, <1>8, <1>25
  <2>2. /\ fire \in Nat \ {0} /\ every \in Nat
        /\ game \in {"none", "game", "sleep", "event"} /\ game \in {"none", "game"}
    BY <1>0, <1>3
  <2>3. ArmedLast(r, c, a, fire, every, game)
    <3>1. /\ AlarmTypes /\ Rows(r) /\ Placed(a) /\ a \in Alarms
          /\ Arm(c, a, fire, every, game)
      BY <1>2, <1>5, <1>6, <1>25
    <3>2. fire \in Nat \ {0} /\ every \in Nat /\ game \in {"none", "game", "sleep", "event"}
      BY <2>2
    <3> QED BY <3>1, <3>2, ArmRows
  <2>4. /\ broken' = broken
        /\ alarm' \in [Alarms -> AlarmRecord] /\ alarmLinks' \in RowType(Alarms, Core)
        /\ timer' \in [Core -> Nat] /\ \A d \in Core : timer'[d] =< timer[d]
        /\ alarm'[a] = [state |-> "Set", nextFire |-> fire, period |-> every,
                        callback |-> game, queue |-> c]
        /\ \A x \in Alarms \ {a} : alarm'[x] = alarm[x]
        /\ Armed(c)' = Armed(c) \cup {a}
        /\ \A d \in Core \ {c} : Armed(d)' = Armed(d) \ {a}
    BY <2>3 DEF ArmedLast
  <2>5. PICK r2 \in [Alarms -> Nat] :
           /\ Rows(r2)'
           /\ \A x \in Armed(c) \ {a} : r2[x] < r2[a]
           /\ \A x \in Alarms \ {a} : r2[x] = r[x]
    BY <2>3 DEF ArmedLast
  <2>6. Placed(a)'
    BY <1>0, <2>1, <2>2, <2>4 DEF Placed
  <2>7. Armed(c)' = Armed(c)
    BY <1>5, <2>4
  <2>8. \A x \in Armed(c) : b = Nobody \/ r2[x] < r2[b] => Covered(c, x)'
    <3>1. ASSUME NEW x \in Armed(c), x # a, b = Nobody \/ r2[x] < r2[b] PROVE Covered(c, x)'
      <4>1. b = Nobody \/ r[x] < r[b]
        BY <1>5, <1>7, <2>5, <3>1
      <4> QED BY <1>5, <1>20, <2>4, <3>1, <4>1
    <3> QED BY <1>5, <1>21, <3>1
  <2>9. Scans(r2, c)'
    BY <1>5, <1>7, <1>12, <1>13, <1>22, <2>1, <2>7, <2>8, AlarmSets DEF Scans, Cursor
  <2>10. \A d \in Core \ {c} : Armed(d)' \subseteq Armed(d) \ {a}
    BY <2>4
  <2>11. QueueParts(r2)'
    BY <1>1, <1>2, <1>4, <1>14, <1>22, <2>4, <2>5, <2>6, <2>9, <2>10, HandlerActs
  <2> QED BY <1>18, <2>1, <2>4, <2>11
<1>26. CASE alarm[a].callback = "game" /\ Cancel(a)
  <2>1. a \in GameAlarm
    BY <1>5, <1>8, <1>26
  <2>2. /\ UNCHANGED <<timer, broken>>
        /\ \/ UNCHANGED <<alarm, alarmLinks>>
           \/ /\ alarm' \in [Alarms -> AlarmRecord] /\ alarmLinks' \in RowType(Alarms, Core)
              /\ a \in Armed(alarm[a].queue)
              /\ alarm'[a] = [alarm[a] EXCEPT !.state = "Cancelled", !.nextFire = 0, !.period = 0]
              /\ \A x \in Alarms \ {a} : alarm'[x] = alarm[x]
              /\ \A d \in Core : Armed(d)' = Armed(d) \ {a}
              /\ Rows(r)'
    BY <1>2, <1>5, <1>6, <1>26, CancelRows
  <2>3. CASE UNCHANGED <<alarm, alarmLinks>>
    BY <1>24, <2>2, <2>3
  <2>4. CASE ~UNCHANGED <<alarm, alarmLinks>>
    <3>1. /\ alarm' \in [Alarms -> AlarmRecord] /\ alarmLinks' \in RowType(Alarms, Core)
          /\ \A x \in Alarms \ {a} : alarm'[x] = alarm[x]
          /\ \A d \in Core : Armed(d)' = Armed(d) \ {a}
          /\ Rows(r)'
      BY <2>2, <2>4
    <3>2. /\ alarm'[a].state = "Cancelled" /\ alarm'[a].period = 0
          /\ alarm'[a].queue = c /\ alarm'[a].callback = "game"
      BY <1>3, <1>5, <1>6, <1>26, <2>2, <2>4 DEF AlarmRecord
    <3>3. Placed(a)'
      BY <2>1, <3>2 DEF Placed
    <3>4. timer' \in [Core -> Nat] /\ \A d \in Core : timer'[d] =< timer[d]
      BY <1>3, <2>2
    <3>5. \A x \in Armed(c)' : b = Nobody \/ r[x] < r[b] => Covered(c, x)'
      BY <1>5, <1>20, <3>1, <3>4
    <3>6. Scans(r, c)'
      BY <1>7, <1>12, <1>13, <1>22, <2>1, <3>1, <3>2, <3>5, AlarmSets DEF Scans, Cursor
    <3>7. \A d \in Core \ {c} : Armed(d)' \subseteq Armed(d) \ {a}
      BY <3>1
    <3>8. QueueParts(r)'
      BY <1>1, <1>2, <1>4, <1>14, <1>22, <3>1, <3>3, <3>4, <3>6, <3>7, HandlerActs
    <3> QED BY <1>18, <2>1, <2>2, <3>1, <3>4, <3>8
  <2> QED BY <2>3, <2>4
<1> QED BY <1>1, <1>24, <1>25, <1>26

(* A periodic alarm is set again behind the thread, for a time that it counts. *)
LEMMA AlarmTriggeredKeeps ==
    ASSUME NEW r \in [Alarms -> Nat], AlarmParts(r), NEW c \in Core, AlarmTriggered(c), ~reused'
    PROVE  AlarmsInOrder' /\ broken' = broken
<1> USE AlarmSets
<1>0. PICK k, a, b, done :
         /\ k = handler[c] /\ a = k.alarm /\ b = k.next
         /\ done = IF alarm[a].period > 0
                   THEN [alarm[a] EXCEPT !.nextFire = now + alarm[a].period, !.state = "Set"]
                   ELSE [alarm[a] EXCEPT !.nextFire = 0, !.state = "None"]
  OBVIOUS
<1> DEFINE h == Counted(k, done, b)
<1>1. /\ UNCHANGED <<state, pc, core, now, timeout, interrupt, gAlarmLock>>
      /\ handler' = [handler EXCEPT ![c] = h]
      /\ k.pc = "rest"
      /\ IF alarm[a].period > 0
         THEN alarm' = [alarm EXCEPT ![a] = done]
              /\ UNCHANGED <<alarmLinks, timer, broken, reused>>
         ELSE /\ Reuse(a)
              /\ IF ~CanErase(a) THEN NullDereferenced
                 ELSE /\ alarm' = [alarm EXCEPT ![a] = done]
                      /\ alarmLinks' = Erased(a)
                      /\ UNCHANGED <<timer, broken>>
  BY <1>0 DEF AlarmTriggered, Handle
<1>2. AlarmTypes /\ QueueParts(r) /\ \A u \in AlarmThread : Sleeper(u)
  BY DEF AlarmParts
<1>3. /\ handler \in [Core -> HandlerRecord] /\ timer \in [Core -> Nat] /\ interrupt \subseteq Core
      /\ alarm \in [Alarms -> AlarmRecord] /\ now \in Nat /\ k \in HandlerRecord
  BY <1>0, <1>2 DEF AlarmTypes
<1>4. Busy(c) /\ Scans(r, c) /\ gAlarmLock = c
  BY <1>0, <1>1, <1>2 DEF Busy, QueueParts, Scans
<1>5. /\ a \in Alarms /\ a # b /\ b \in Armed(c) \cup {Nobody} /\ Armed(c) \subseteq Alarms
      /\ \/ a \in Armed(c)
         \/ alarm[a].state = "Cancelled" /\ alarm[a].period = 0
      /\ a \in AlarmThread => state[a] # "Waiting"
  BY <1>0, <1>1, <1>4 DEF Scans, Cursor, Armed
<1>6. Rows(r) /\ Placed(a)
  BY <1>2, <1>5 DEF QueueParts
<1>7. alarm[a] \in AlarmRecord /\ alarm[a].period \in Nat /\ b \in Alarms \cup {Nobody}
  BY <1>3, <1>5 DEF AlarmRecord
<1>8. /\ done \in AlarmRecord /\ done.queue = alarm[a].queue /\ done.callback = alarm[a].callback
      /\ done.period = alarm[a].period
      /\ alarm[a].period > 0 => done.state = "Set" /\ done.nextFire > 0
      /\ ~(alarm[a].period > 0) => done.state = "None"
  <2>1. PICK d, n : d = alarm[a] /\ n = now + d.period
    OBVIOUS
  <2>2. d \in AlarmRecord /\ n \in Nat /\ (d.period > 0 => n > 0)
    BY <1>3, <1>7, <2>1
  <2>3. CASE d.period > 0
    <3>1. done = [d EXCEPT !.nextFire = n, !.state = "Set"]
      BY <1>0, <2>1, <2>3
    <3>2. /\ done \in AlarmRecord /\ done.queue = d.queue /\ done.callback = d.callback
          /\ done.period = d.period /\ done.state = "Set" /\ done.nextFire = n
      BY <2>2, <3>1 DEF AlarmRecord
    <3> QED BY <2>1, <2>2, <2>3, <3>2
  <2>4. CASE ~(d.period > 0)
    <3>1. done = [d EXCEPT !.nextFire = 0, !.state = "None"]
      BY <1>0, <2>1, <2>4
    <3>2. /\ done \in AlarmRecord /\ done.queue = d.queue /\ done.callback = d.callback
          /\ done.period = d.period /\ done.state = "None"
      BY <2>2, <3>1 DEF AlarmRecord
    <3> QED BY <2>1, <2>2, <2>4, <3>2
  <2> QED BY <2>3, <2>4
<1>9. /\ h \in HandlerRecord /\ h.pc = "scan" /\ h.alarm = b /\ h.soonest =< k.soonest
      /\ done.state = "Set" /\ done.nextFire # 0 => h.soonest =< done.nextFire
  <2>1. h = Counted(k, done, b) /\ k \in HandlerRecord /\ done \in AlarmRecord
        /\ b \in Alarms \cup {Nobody}
    BY <1>3, <1>7, <1>8
  <2> HIDE DEF h
  <2> QED BY <2>1, HandlerCounts
<1> HIDE DEF h
<1>10. handler'[c] = h /\ Busy(c)' /\ \A d \in Core \ {c} : handler'[d] = handler[d]
  BY <1>1, <1>3, <1>9 DEF Busy
<1>11. handler' \in [Core -> HandlerRecord]
  BY <1>1, <1>3, <1>9
<1>12. ASSUME timer' \in [Core -> Nat], timer'[c] =< timer[c],
              NEW x \in Armed(c), x # a, alarm'[x] = alarm[x], b = Nobody \/ r[x] < r[b]
       PROVE  Covered(c, x)'
  <2>1. Covered(c, x) /\ x \in Alarms
    BY <1>0, <1>1, <1>4, <1>5, <1>12 DEF Scans, Cursor
  <2>2. handler'[c].soonest =< handler[c].soonest /\ interrupt' = interrupt
    BY <1>0, <1>1, <1>9, <1>10
  <2> QED BY <1>0, <1>2, <1>4, <1>10, <1>11, <1>12, <2>1, <2>2, CoveredStill
<1>13. alarm' = [alarm EXCEPT ![a] = done] =>
          /\ alarm'[a] = done /\ \A x \in Alarms \ {a} : alarm'[x] = alarm[x]
          /\ alarm' \in [Alarms -> AlarmRecord]
  BY <1>3, <1>5, <1>8
<1>14. ASSUME QueueParts(r)', alarm' = [alarm EXCEPT ![a] = done],
              alarmLinks' \in RowType(Alarms, Core), timer' \in [Core -> Nat],
              a \in GameAlarm \/ (done.state = "None" /\ alarm[a].state = "Set")
       PROVE  AlarmsInOrder'
  <2>1. AlarmTypes'
    BY <1>1, <1>2, <1>11, <1>13, <1>14 DEF AlarmTypes
  <2>2. ASSUME NEW u \in AlarmThread PROVE Sleeper(u)'
    <3>1. Sleeper(u)
      BY <1>2
    <3>2. CASE u = a
      BY <1>1, <1>5, <1>8, <1>13, <1>14, <3>1, <3>2 DEF Sleeper
    <3>3. CASE u # a
      <4>1. alarm'[u] = alarm[u]
        BY <1>13, <1>14, <3>3
      <4>2. \A d \in Core : Waking(d, u) => Waking(d, u)'
        BY <1>0, <1>10, <3>3 DEF Waking
      <4> QED BY <1>1, <3>1, <4>1, <4>2 DEF Sleeper
    <3> QED BY <3>2, <3>3
  <2> QED BY <1>14, <2>1, <2>2 DEF AlarmParts, AlarmsInOrder
<1>15. CASE alarm[a].period > 0
  <2>1. alarm' = [alarm EXCEPT ![a] = done] /\ UNCHANGED <<alarmLinks, timer, broken>>
    BY <1>1, <1>15
  <2>2. a \in Armed(c) /\ a \in GameAlarm
    BY <1>5, <1>6, <1>7, <1>15 DEF Placed
  <2>3. \A d \in Core : Armed(d)' = Armed(d)
    BY <1>8, <1>13, <1>15, <2>1, <2>2 DEF Armed
  <2>4. Rows(r)' /\ Placed(a)'
    <3>1. Rows(r)'
      BY <1>6, <2>1, <2>3 DEF Rows
    <3>2. alarm'[a] = done
      BY <1>13, <2>1
    <3>3. Placed(a)'
      BY <1>6, <1>8, <1>15, <2>2, <3>2 DEF Placed, Armed
    <3> QED BY <3>1, <3>3
  <2>5. timer' \in [Core -> Nat] /\ \A d \in Core : timer'[d] =< timer[d]
    BY <1>3, <2>1
  <2>6. Covered(c, a)'
    BY <1>8, <1>9, <1>10, <1>13, <1>15, <2>1 DEF Covered
  <2>7. \A x \in Armed(c) : b = Nobody \/ r[x] < r[b] => Covered(c, x)'
    BY <1>5, <1>12, <1>13, <2>1, <2>5, <2>6
  <2>8. Scans(r, c)'
    BY <1>1, <1>4, <1>5, <1>9, <1>10, <2>3, <2>7 DEF Scans, Cursor
  <2>9. \A d \in Core \ {c} : Armed(d)' \subseteq Armed(d) \ {a}
    BY <2>2, <2>3 DEF Armed
  <2>10. QueueParts(r)'
    BY <1>1, <1>2, <1>4, <1>5, <1>10, <1>13, <2>1, <2>4, <2>5, <2>8, <2>9, HandlerActs
  <2>11. alarmLinks' \in RowType(Alarms, Core)
    BY <1>2, <2>1 DEF AlarmTypes
  <2>12. /\ alarm' = [alarm EXCEPT ![a] = done] /\ timer' \in [Core -> Nat]
         /\ a \in GameAlarm \/ (done.state = "None" /\ alarm[a].state = "Set")
    BY <2>1, <2>2, <2>5
  <2>13. AlarmsInOrder'
    BY <1>14, <2>10, <2>11, <2>12
  <2> QED BY <2>1, <2>13
<1>16. CASE ~(alarm[a].period > 0)
  <2>1. Reuse(a) /\ alarm[a].queue \in Core
    BY <1>1, <1>5, <1>6, <1>16 DEF Placed, Armed
  <2>2. /\ a \in Armed(alarm[a].queue) /\ CanErase(a)
        /\ Erased(a) \in RowType(Alarms, Core)
        /\ \A d \in Core : Row(Erased(a), d, Armed(d) \ {a}, r)
    BY <1>2, <1>5, <1>6, <2>1, EraseArmed
  <2>3. /\ alarm' = [alarm EXCEPT ![a] = done] /\ alarmLinks' = Erased(a)
        /\ UNCHANGED <<timer, broken>>
    BY <1>1, <1>16, <2>2
  <2>4. \A d \in Core : Armed(d)' = Armed(d) \ {a}
    BY <1>8, <1>13, <1>16, <2>3 DEF Armed
  <2>5. Rows(r)' /\ Placed(a)'
    BY <1>6, <1>8, <1>13, <1>16, <2>1, <2>2, <2>3, <2>4 DEF Rows, Placed
  <2>6. timer' \in [Core -> Nat] /\ \A d \in Core : timer'[d] =< timer[d]
    BY <1>3, <2>3
  <2>7. \A x \in Armed(c)' : b = Nobody \/ r[x] < r[b] => Covered(c, x)'
    BY <1>5, <1>12, <1>13, <2>3, <2>4, <2>6
  <2>8. Scans(r, c)'
    BY <1>1, <1>4, <1>5, <1>9, <1>10, <2>4, <2>7 DEF Scans, Cursor
  <2>9. \A d \in Core \ {c} : Armed(d)' \subseteq Armed(d) \ {a}
    BY <2>4
  <2>10. QueueParts(r)'
    BY <1>1, <1>2, <1>4, <1>5, <1>10, <1>13, <2>3, <2>5, <2>6, <2>8, <2>9, HandlerActs
  <2>11. alarm[a].state = "Set"
    BY <2>2 DEF Armed
  <2> QED BY <1>8, <1>14, <1>16, <2>2, <2>3, <2>6, <2>10, <2>11
<1> QED BY <1>15, <1>16

(* Awaiting is a state of every thread, and says who awaits the event. *)
LEMMA AwaitingStates ==
    /\ Awaiting \in [Thread -> States]
    /\ \A u \in Thread : Awaiting[u] = "Waiting" <=> AwaitsEvent(u)
    /\ \A u : AwaitsEvent(u) => u \in Thread
BY AlarmSets DEF Awaiting, AwaitsEvent, States

(* OSSignalEvent wakes who is first in the event's queue. *)
LEMMA EventCallKeeps ==
    ASSUME NEW r \in [Alarms -> Nat], AlarmParts(r), NEW t, EventCall(t), mode = "AutoReset",
           EventInOrder
    PROVE  AlarmsInOrder' /\ broken' = broken
<1> USE AlarmSets
<1>1. /\ UNCHANGED <<alarm, alarmLinks, gAlarmLock, timer, interrupt, handler, core, now, timeout, broken>>
      /\ t \in AlarmThread /\ state[t] = "Running" /\ pc[t] = "guest"
  BY DEF EventCall, alarmVars, CanCall, At
<1>2. AlarmTypes /\ QueueParts(r) /\ \A u \in AlarmThread : Sleeper(u)
  BY DEF AlarmParts
<1>3. /\ pc' = pc /\ state' \in [Thread -> States]
      /\ \A u \in AlarmThread : state'[u] # state[u] =>
            state'[u] = "Ready" /\ pc[u] \in {"guest", "eventWait"}
  <2>1. CASE UNCHANGED threadVars
    BY <1>2, <2>1 DEF threadVars, AlarmTypes
  <2>2. CASE OSSignalEvent(t)
    <3>1. PICK h : /\ h = links.head["event"] /\ h # NoThread /\ pc' = pc
                   /\ links' = OSPopFrontFromQueue(links, "event")
                   /\ state' \in Rescheduled(Woken(state, {h}), t)
      BY <2>2 DEF OSSignalEvent
    <3>2. links \in LinksType /\ Lists(links, Awaiting) /\ Awaiting \in [Thread -> States]
      BY AwaitingStates DEF EventInOrder
    <3>3. h \in Thread /\ pc[h] = "eventWait"
      <4>1. h \in Listed(links, "event")
        BY <3>1, <3>2, HeadListed
      <4>2. h \in Thread /\ Awaiting[h] = "Waiting"
        BY <3>2, <4>1, ListedWait
      <4> QED BY <4>2 DEF Awaiting, AwaitsEvent
    <3>4. state \in [Thread -> States]
      BY <1>2 DEF AlarmTypes
    <3>5. Woken(state, {h}) \in [Thread -> States] /\ "Ready" \in States
          /\ \A u \in Thread : Woken(state, {h})[u] = IF u = h THEN "Ready" ELSE state[u]
      BY <3>4 DEF Woken, States
    <3>6. \/ state' = Woken(state, {h})
          \/ state' = [Woken(state, {h}) EXCEPT ![t] = "Ready"]
      BY <3>1 DEF Rescheduled
    <3> DEFINE w == Woken(state, {h})
    <3> HIDE DEF w
    <3>7. /\ state' \in [Thread -> States]
          /\ \A u \in Thread : state'[u] = w[u] \/ (u = t /\ state'[u] = "Ready")
      BY <3>5, <3>6, SMTT(40) DEF w
    <3>8. \A u \in Thread : u # h => w[u] = state[u]
      BY <3>5 DEF w
    <3>9. \A u \in Thread : u = h => w[u] = "Ready"
      BY <3>5 DEF w
    <3> QED BY <1>1, <3>1, <3>3, <3>7, <3>8, <3>9
  <2> QED BY <2>1, <2>2 DEF EventCall, WaitReturns, SignalUnawaited
<1>4. \A u \in AlarmThread : state'[u] = "Waiting" => state[u] = "Waiting"
  BY <1>3
<1>5. QueueParts(r)'
  BY <1>1, <1>2, <1>4, QueueSame
<1>6. AlarmTypes'
  BY <1>1, <1>2, <1>3 DEF AlarmTypes
<1>7. ASSUME NEW u \in AlarmThread PROVE Sleeper(u)'
  <2>1. Sleeper(u) /\ (\A d \in Core : Waking(d, u)' <=> Waking(d, u))
    BY <1>1, <1>2 DEF Waking
  <2> QED BY <1>1, <1>3, <1>4, <2>1 DEF Sleeper
<1> QED BY <1>1, <1>5, <1>6, <1>7 DEF AlarmParts, AlarmsInOrder

(* The event's queue stays. *)
LEMMA EventSame ==
    ASSUME EventInOrder, links' = links, \A u : AwaitsEvent(u) => AwaitsEvent(u)'
    PROVE  EventInOrder'
<1>1. PICK s2 : s2 = Awaiting'
  OBVIOUS
<1>2. s2 \in [Thread -> States] /\ \A u \in Thread : s2[u] = "Waiting" <=> AwaitsEvent(u)'
  BY <1>1 DEF Awaiting, States
<1>3. PICK s : s = Awaiting
  OBVIOUS
<1>4. s \in [Thread -> States] /\ \A u \in Thread : s[u] = "Waiting" <=> AwaitsEvent(u)
  BY <1>3, AwaitingStates
<1>5. links \in LinksType /\ Lists(links, s)
  BY <1>3 DEF EventInOrder
<1>6. \A u \in Thread : s[u] = "Waiting" => s2[u] = "Waiting"
  BY <1>2, <1>4
<1>7. Lists(links, s2)
  BY <1>2, <1>4, <1>5, <1>6, ListsStay
<1> QED BY <1>1, <1>5, <1>7 DEF EventInOrder

(* Alarms and interrupts leave the event alone; the scheduler does not run *)
(* who waits.                                                              *)
LEMMA EventUntouched ==
    ASSUME AlarmTypes, EventInOrder,
           \/ UNCHANGED <<threadVars, timeout>>
           \/ \E c \in Core, t \in AlarmThread : DispatchOn(t, c)
           \/ \E t \in AlarmThread :
                 /\ TimeoutComes(t) /\ UNCHANGED <<pc, links>>
                 /\ state' = [state EXCEPT ![t] = "Ready"]
    PROVE  EventInOrder'
<1>2. state \in [Thread -> States] /\ AlarmThread \subseteq Thread
  BY AlarmSets DEF AlarmTypes
<1>3. CASE UNCHANGED <<threadVars, timeout>>
  BY <1>3, EventSame DEF threadVars, AwaitsEvent
<1>4. CASE \E c \in Core, t \in AlarmThread : DispatchOn(t, c)
  <2>1. PICK t \in AlarmThread :
           /\ UNCHANGED <<pc, links, timeout>> /\ state[t] = "Ready"
           /\ state' = [state EXCEPT ![t] = "Running"]
    BY <1>4 DEF DispatchOn, Dispatch
  <2>2. \A u \in AlarmThread : state[u] = "Waiting" => state'[u] = "Waiting"
    BY <1>2, <2>1
  <2> QED BY <2>1, <2>2, EventSame DEF AwaitsEvent
<1>5. CASE \E t \in AlarmThread :
              /\ TimeoutComes(t) /\ UNCHANGED <<pc, links>>
              /\ state' = [state EXCEPT ![t] = "Ready"]
  <2>1. PICK t \in AlarmThread :
           /\ TimeoutComes(t) /\ UNCHANGED <<pc, links>>
           /\ state' = [state EXCEPT ![t] = "Ready"]
    BY <1>5
  <2>2. /\ pc[t] = "eventWait" => timeout'[t]
        /\ \A u \in AlarmThread \ {t} : timeout'[u] = timeout[u]
    BY <2>1 DEF TimeoutComes
  <2>3. \A u \in AlarmThread \ {t} : state'[u] = state[u]
    BY <1>2, <2>1
  <2>4. \A u : AwaitsEvent(u) => AwaitsEvent(u)'
    BY <2>1, <2>2, <2>3 DEF AwaitsEvent
  <2> QED BY <2>1, <2>4, EventSame
<1> QED BY <1>3, <1>4, <1>5

(* Neither do calls that do not wait for it. *)
LEMMA OtherWaits ==
    ASSUME AlarmTypes, EventInOrder, NEW t \in AlarmThread,
           \/ OSCancelAlarms(t) \/ AllCancelled(t)
           \/ \E a \in GameAlarm : OSWaitAlarm(t, a)
           \/ \E p \in {"sleepSet", "eventSet"} : TimedWait(t, p)
           \/ OSSleepTicks(t) \/ SleepEnds(t)
    PROVE  EventInOrder'
<1>2. /\ state \in [Thread -> States] /\ AlarmThread \subseteq Thread
      /\ pc \in [Thread -> AlarmPlaces] /\ timeout \in [AlarmThread -> BOOLEAN]
  BY AlarmSets DEF AlarmTypes
<1>3. /\ links' = links /\ pc[t] # "eventWait"
      /\ \E p \in AlarmPlaces \ {"eventWait"} : pc' = [pc EXCEPT ![t] = p]
      /\ state' = state \/ state' = [state EXCEPT ![t] = "Waiting"]
      /\ timeout' = timeout \/ timeout' = [timeout EXCEPT ![t] = FALSE]
  <2>1. CASE \/ OSCancelAlarms(t) \/ AllCancelled(t)
             \/ \E a \in GameAlarm : OSWaitAlarm(t, a)
    BY <2>1 DEF OSCancelAlarms, AllCancelled, OSWaitAlarm, CanCall, At, Goto, AlarmPlaces
  <2>2. CASE \E p \in {"sleepSet", "eventSet"} : TimedWait(t, p)
    BY <2>2 DEF TimedWait, CanCall, At, Goto, AllocateBlock, AlarmPlaces
  <2>3. CASE OSSleepTicks(t) \/ SleepEnds(t)
    BY <2>3 DEF OSSleepTicks, SleepTimed, SleepEnds, FreeBlock, At, Goto, AlarmPlaces
  <2> QED BY <2>1, <2>2, <2>3
<1>4. \A u \in AlarmThread : u # t =>
         pc'[u] = pc[u] /\ state'[u] = state[u] /\ timeout'[u] = timeout[u]
  BY <1>2, <1>3
<1>5. \A u : AwaitsEvent(u) => AwaitsEvent(u)'
  BY <1>3, <1>4 DEF AwaitsEvent
<1> QED BY <1>3, <1>5, EventSame

(* OSWaitEventWithTimeout puts its thread into the queue. *)
LEMMA EventWaitBegins ==
    ASSUME AlarmTypes, EventInOrder, NEW t \in AlarmThread, OSWaitEventWithTimeout(t)
    PROVE  EventInOrder'
<1> USE AlarmSets
<1>1. PICK s : s = Awaiting
  OBVIOUS
<1>2. /\ s \in [Thread -> States] /\ \A u \in Thread : s[u] = "Waiting" <=> AwaitsEvent(u)
      /\ links \in LinksType /\ Lists(links, s)
      /\ state \in [Thread -> States] /\ pc \in [Thread -> AlarmPlaces]
  BY <1>1, AwaitingStates DEF EventInOrder, AlarmTypes
<1>3. /\ pc[t] = "eventSet" /\ pc' = [pc EXCEPT ![t] = "eventWait"]
      /\ state' = [state EXCEPT ![t] = "Waiting"] /\ timeout' = timeout
      /\ links' = OSInsertThreadQueue(links, "event", t)
  BY DEF OSWaitEventWithTimeout, SleepTimed, At, Goto
<1>4. /\ \A u \in AlarmThread : u # t => pc'[u] = pc[u] /\ state'[u] = state[u]
      /\ pc'[t] = "eventWait" /\ state'[t] = "Waiting"
  BY <1>2, <1>3
<1>5. AwaitsEvent(t)' /\ (\A u : AwaitsEvent(u) => AwaitsEvent(u)') /\ ~AwaitsEvent(t)
  BY <1>3, <1>4 DEF AwaitsEvent
<1>6. PICK s2, l2 : s2 = Awaiting' /\ l2 = links'
  OBVIOUS
<1>7. s2 \in [Thread -> States] /\ \A u \in Thread : s2[u] = "Waiting" <=> AwaitsEvent(u)'
  BY <1>6 DEF Awaiting, States
<1>8. /\ t \in Thread /\ s[t] # "Waiting" /\ s2[t] = "Waiting"
      /\ \A u \in Thread : s[u] = "Waiting" => s2[u] = "Waiting"
  BY <1>2, <1>5, <1>7
<1>9. l2 \in LinksType /\ Lists(l2, s2)
  <2>1. l2 = OSInsertThreadQueue(links, "event", t)
    BY <1>3, <1>6
  <2> HIDE DEF EventInOrder
  <2> QED BY <1>2, <1>7, <1>8, <2>1, SleepLists
<1> QED BY <1>6, <1>9 DEF EventInOrder

(* A wait that timed out takes its thread out of the queue, which it is in. *)
LEMMA EventWaitOver ==
    ASSUME AlarmTypes, EventInOrder, NEW t \in AlarmThread, EventWaitEnds(t), ~reused'
    PROVE  broken' = broken /\ EventInOrder'
<1> USE AlarmSets
<1>1. PICK s : s = Awaiting
  OBVIOUS
<1>2. /\ s \in [Thread -> States] /\ \A u \in Thread : s[u] = "Waiting" <=> AwaitsEvent(u)
      /\ links \in LinksType /\ Lists(links, s) /\ pc \in [Thread -> AlarmPlaces]
  BY <1>1, AwaitingStates DEF EventInOrder, AlarmTypes
<1>3. /\ pc[t] = "eventWait" /\ state[t] = "Running" /\ pc' = [pc EXCEPT ![t] = "guest"]
      /\ UNCHANGED <<state, timeout>>
      /\ reused' = (reused \/ (timeout[t] /\ t \notin Listed(links, "event")))
  BY DEF EventWaitEnds, FreeBlock, At, Goto
<1>4. \A u \in AlarmThread : u # t => pc'[u] = pc[u]
  BY <1>2, <1>3
<1>5. \A u : AwaitsEvent(u) /\ u # t => AwaitsEvent(u)'
  BY <1>3, <1>4 DEF AwaitsEvent
<1>6. CASE ~timeout[t]
  <2>1. links' = links /\ broken' = broken
    BY <1>6 DEF EventWaitEnds
  <2>2. ~AwaitsEvent(t)
    BY <1>3, <1>6 DEF AwaitsEvent
  <2> QED BY <1>5, <2>1, <2>2, EventSame
<1>7. CASE timeout[t]
  <2>1. t \in Listed(links, "event")
    BY <1>3, <1>7
  <2>2. PICK s2, l2 : s2 = Awaiting' /\ l2 = OSEraseFromQueue(links, "event", t)
    OBVIOUS
  <2>3. s2 \in [Thread -> States] /\ \A u \in Thread : s2[u] = "Waiting" <=> AwaitsEvent(u)'
    BY <2>2 DEF Awaiting, States
  <2>4. \A u \in Thread : s[u] = "Waiting" /\ u # t => s2[u] = "Waiting"
    BY <1>2, <1>5, <2>3
  <2>5. Erasable(links, "event", t) /\ l2 \in LinksType /\ Lists(l2, s2)
    BY <1>2, <2>1, <2>2, <2>3, <2>4, EraseLists
  <2>6. links' = l2 /\ broken' = broken
    BY <1>7, <2>2, <2>5 DEF EventWaitEnds
  <2> QED BY <2>2, <2>5, <2>6 DEF EventInOrder
<1> QED BY <1>6, <1>7

(* OSSignalEvent takes who is first out of the queue. *)
LEMMA EventSignalled ==
    ASSUME AlarmTypes, EventInOrder, NEW t, EventCall(t), mode = "AutoReset"
    PROVE  EventInOrder'
<1> USE AlarmSets
<1>1. timeout' = timeout /\ t \in AlarmThread /\ pc[t] = "guest"
  BY DEF EventCall, alarmVars, CanCall, At
<1>2. CASE UNCHANGED threadVars
  BY <1>1, <1>2, EventUntouched
<1>3. CASE OSSignalEvent(t)
  <2>1. PICK h : /\ h = links.head["event"] /\ h # NoThread /\ pc' = pc
                 /\ links' = OSPopFrontFromQueue(links, "event")
                 /\ state' \in Rescheduled(Woken(state, {h}), t)
    BY <1>3 DEF OSSignalEvent
  <2>2. PICK s : s = Awaiting
    OBVIOUS
  <2>3. /\ s \in [Thread -> States] /\ \A u \in Thread : s[u] = "Waiting" <=> AwaitsEvent(u)
        /\ links \in LinksType /\ Lists(links, s) /\ state \in [Thread -> States]
    BY <2>2, AwaitingStates DEF EventInOrder, AlarmTypes
  <2>4. \A u \in Thread \ {h, t} : state'[u] = state[u]
    <3>1. Woken(state, {h}) \in [Thread -> States]
          /\ \A u \in Thread : Woken(state, {h})[u] = IF u = h THEN "Ready" ELSE state[u]
      BY <2>3 DEF Woken, States
    <3> DEFINE w == Woken(state, {h})
    <3>2. state' = w \/ state' = [w EXCEPT ![t] = "Ready"]
      BY <2>1 DEF Rescheduled
    <3>3. w \in [Thread -> States] /\ \A u \in Thread \ {h} : w[u] = state[u]
      BY <3>1
    <3> HIDE DEF w
    <3> QED BY <3>2, <3>3
  <2>5. \A u : AwaitsEvent(u) /\ u # h => AwaitsEvent(u)'
    BY <1>1, <2>1, <2>4 DEF AwaitsEvent
  <2>6. PICK s2, l2 : s2 = Awaiting' /\ l2 = links'
    OBVIOUS
  <2>7. s2 \in [Thread -> States] /\ \A u \in Thread : s2[u] = "Waiting" <=> AwaitsEvent(u)'
    BY <2>6 DEF Awaiting, States
  <2>8. \A u \in Thread : s[u] = "Waiting" /\ u # links.head["event"] => s2[u] = "Waiting"
    BY <2>1, <2>3, <2>5, <2>7
  <2>9. l2 \in LinksType /\ Lists(l2, s2)
    BY <2>1, <2>3, <2>6, <2>7, <2>8, PopLists
  <2> QED BY <2>6, <2>9 DEF EventInOrder
<1> QED BY <1>2, <1>3 DEF EventCall, WaitReturns, SignalUnawaited

(* A step of an alarm or of a wait comes before anything breaks, and what is *)
(* reused or abandoned stays so.                                             *)
Unbroken == /\ broken = "no" /\ mode' = mode
            /\ ~reused' => ~reused
            /\ ~abandoned' => ~abandoned

(* Null is only dereferenced after a misuse. *)
LEMMA ArmUnbroken ==
    ASSUME NEW c, NEW a, NEW fire, NEW every, NEW callback,
           Arm(c, a, fire, every, callback) \/ Cancel(a), ~reused'
    PROVE  ~reused
  BY DEF Arm, Cancel, Reuse

(* The threads' calls ... *)
LEMMA CallsUnbroken ==
    ASSUME AlarmSetNext \/ AlarmCancelNext \/ AlarmWaitNext \/ SleepTicksNext \/ EventTimeoutNext,
           UNCHANGED eventVars
    PROVE  Unbroken
<1>1. mode' = mode
  BY DEF eventVars
<1>2. CASE AlarmSetNext
  <2>1. PICK t \in AlarmThread, a \in GameAlarm, every \in {0, 1} : OSSetPeriodicAlarm(t, a, every)
    BY <1>2 DEF AlarmSetNext
  <2>2. broken = "no" /\ abandoned' = abandoned
    BY <2>1 DEF OSSetPeriodicAlarm, CanCall
  <2>3. ~reused' => ~reused
    BY <2>1, ArmUnbroken DEF OSSetPeriodicAlarm
  <2> QED BY <1>1, <2>2, <2>3 DEF Unbroken
<1>3. CASE AlarmCancelNext
  <2>1. CASE \E t \in AlarmThread : OSCancelAlarms(t) \/ AllCancelled(t)
    BY <1>1, <2>1 DEF OSCancelAlarms, AllCancelled, CanCall, Unbroken
  <2>2. CASE \E t \in AlarmThread : CancelTagged(t) \/ \E a \in GameAlarm : OSCancelAlarm(t, a)
    <3>1. broken = "no" /\ abandoned' = abandoned
      BY <2>2 DEF CancelTagged, OSCancelAlarm, CanCall
    <3>2. \E a : Cancel(a)
      BY <2>2 DEF CancelTagged, OSCancelAlarm
    <3>3. ~reused' => ~reused
      BY <3>2, ArmUnbroken
    <3> QED BY <1>1, <3>1, <3>3 DEF Unbroken
  <2> QED BY <1>3, <2>1, <2>2 DEF AlarmCancelNext
<1>4. CASE AlarmWaitNext
  BY <1>1, <1>4 DEF AlarmWaitNext, OSWaitAlarm, CanCall, Unbroken
<1>5. ASSUME NEW t \in AlarmThread, NEW p, TimedWait(t, p) PROVE Unbroken
  BY <1>1, <1>5 DEF TimedWait, CanCall, Unbroken
<1>6. ASSUME NEW t \in AlarmThread, OSSleepTicks(t) \/ OSWaitEventWithTimeout(t) PROVE Unbroken
  <2>1. broken = "no" /\ abandoned' = abandoned
    BY <1>6 DEF OSSleepTicks, OSWaitEventWithTimeout, SleepTimed
  <2>2. \E callback : Arm(core[t], t, now + 1, 0, callback)
    BY <1>6 DEF OSSleepTicks, OSWaitEventWithTimeout, SleepTimed
  <2>3. ~reused' => ~reused
    BY <2>2, ArmUnbroken
  <2> QED BY <1>1, <2>1, <2>3 DEF Unbroken
<1>7. ASSUME NEW t \in AlarmThread, SleepEnds(t) \/ EventWaitEnds(t) PROVE Unbroken
  <2>1. broken = "no"
    BY <1>7 DEF SleepEnds, EventWaitEnds, FreeBlock
  <2>4. ~reused' => ~reused
    <3>1. reused' = reused \/ reused' = (reused \/ (timeout[t] /\ t \notin Listed(links, "event")))
      BY <1>7 DEF SleepEnds, EventWaitEnds
    <3> QED BY <3>1, Zenon
  <2>2. abandoned' = (abandoned \/ alarm[t].state = "Set")
    BY <1>7 DEF SleepEnds, EventWaitEnds, FreeBlock
  <2>3. ~abandoned' => ~abandoned
    BY <2>2
  <2> QED BY <1>1, <2>1, <2>3, <2>4 DEF Unbroken
<1>8. CASE SleepTicksNext
  BY <1>5, <1>6, <1>7, <1>8 DEF SleepTicksNext
<1>9. CASE EventTimeoutNext
  BY <1>5, <1>6, <1>7, <1>9 DEF EventTimeoutNext
<1> QED BY <1>2, <1>3, <1>4, <1>8, <1>9

(* ... and the interrupt threads stop when the kernel is broken. *)
LEMMA InterruptUnbroken ==
    ASSUME InterruptNext, UNCHANGED eventVars
    PROVE  Unbroken
<1>1. mode' = mode
  BY DEF eventVars
<1>2. CASE Tick \/ \E c \in Core : TimerFires(c) \/ \E t \in AlarmThread : DispatchOn(t, c)
  BY <1>1, <1>2 DEF Tick, TimerFires, DispatchOn, Unbroken
<1>3. ASSUME NEW c, NEW h, Handle(c, h) PROVE broken = "no" /\ abandoned' = abandoned
  BY <1>3 DEF Handle
<1>4. CASE \E c \in Core : \/ TakeInterrupt(c) \/ CheckAlarms(c) \/ PassAlarm(c)
                           \/ AlarmHandler(c) \/ WakeWaiters(c) \/ FinishInterrupt(c)
  <2>1. reused' = reused
    BY <1>4 DEF TakeInterrupt, CheckAlarms, PassAlarm, AlarmHandler, WakeWaiters, FinishInterrupt
  <2>2. \E c, h : Handle(c, h)
    BY <1>4 DEF TakeInterrupt, CheckAlarms, PassAlarm, AlarmHandler, WakeWaiters, FinishInterrupt
  <2> QED BY <1>1, <1>3, <2>1, <2>2 DEF Unbroken
<1>5. CASE \E c \in Core : TriggerAlarm(c) \/ AlarmTriggered(c)
  <2>1. \E c, h : Handle(c, h)
    BY <1>5 DEF TriggerAlarm, AlarmTriggered
  <2>2. CASE \E c \in Core : TriggerAlarm(c)
    <3>1. \/ reused' = reused
          \/ \E c, a, fire : Arm(c, a, fire, 0, "game") \/ Cancel(a)
      BY <2>2 DEF TriggerAlarm
    <3>2. ~reused' => ~reused
      BY <3>1, ArmUnbroken
    <3> QED BY <1>1, <1>3, <2>1, <3>2 DEF Unbroken
  <2>3. CASE \E c \in Core : AlarmTriggered(c)
    <3>1. reused' = reused \/ \E a : Reuse(a)
      BY <2>3 DEF AlarmTriggered
    <3>2. ~reused' => ~reused
      BY <3>1 DEF Reuse
    <3> QED BY <1>1, <1>3, <2>1, <3>2 DEF Unbroken
  <2> QED BY <1>5, <2>2, <2>3
<1> QED BY <1>2, <1>4, <1>5 DEF InterruptNext

(* What a step of an alarm or of a wait leads to, unless it is misuse. *)
StepsWell == \/ broken' = broken /\ AlarmsInOrder' /\ EventInOrder'
             \/ \E t \in AlarmThread : timeout'[t] /\ broken' # "no"

(* The steps of the threads that use alarms, ... *)
LEMMA AlarmCallsStep ==
    ASSUME NEW r \in [Alarms -> Nat], AlarmParts(r), EventInOrder, ~reused', ~abandoned',
           AlarmSetNext \/ AlarmCancelNext \/ AlarmWaitNext
    PROVE  StepsWell
<1>1. AlarmTypes
  BY DEF AlarmParts
<1>2. ASSUME NEW t \in AlarmThread,
             \/ \E a \in GameAlarm : \/ OSSetPeriodicAlarm(t, a, 0) \/ OSSetPeriodicAlarm(t, a, 1)
                                     \/ OSCancelAlarm(t, a)
             \/ CancelTagged(t)
      PROVE  StepsWell
  <2>1. AlarmsInOrder' /\ broken' = broken
    BY <1>2, GameCalls
  <2>2. UNCHANGED <<threadVars, timeout>>
    BY <1>2 DEF OSSetPeriodicAlarm, OSCancelAlarm, CancelTagged
  <2> QED BY <1>1, <2>1, <2>2, EventUntouched DEF StepsWell
<1>3. ASSUME NEW t \in AlarmThread,
             \/ OSCancelAlarms(t) \/ AllCancelled(t)
             \/ \E a \in GameAlarm : OSWaitAlarm(t, a)
      PROVE  StepsWell
  <2>1. AlarmsInOrder' /\ broken' = broken
    BY <1>3, LockingCalls
  <2>2. EventInOrder'
    BY <1>1, <1>3, OtherWaits
  <2> QED BY <2>1, <2>2 DEF StepsWell
<1>4. CASE AlarmSetNext
  BY <1>2, <1>4 DEF AlarmSetNext
<1>5. CASE AlarmCancelNext
  BY <1>2, <1>3, <1>5 DEF AlarmCancelNext
<1>6. CASE AlarmWaitNext
  BY <1>3, <1>6 DEF AlarmWaitNext
<1> QED BY <1>4, <1>5, <1>6

(* ... of those that wait for a time, ... *)
LEMMA TimedWaitsStep ==
    ASSUME NEW r \in [Alarms -> Nat], AlarmParts(r), EventInOrder,
           ~reused', ~abandoned', SleepTicksNext \/ EventTimeoutNext
    PROVE  StepsWell
<1>1. AlarmTypes
  BY DEF AlarmParts
<1>2. ASSUME NEW t \in AlarmThread, NEW p \in {"sleepSet", "eventSet"}, TimedWait(t, p)
      PROVE  StepsWell
  <2>1. AlarmsInOrder' /\ broken' = broken
    BY <1>2, TimedWaitBegins
  <2>2. EventInOrder'
    BY <1>1, <1>2, OtherWaits
  <2> QED BY <2>1, <2>2 DEF StepsWell
<1>3. ASSUME NEW t \in AlarmThread, OSSleepTicks(t) \/ OSWaitEventWithTimeout(t)
      PROVE  StepsWell
  <2>1. AlarmsInOrder' /\ broken' = broken
    BY <1>3, TimedWaitSleeps
  <2>2. EventInOrder'
    BY <1>1, <1>3, OtherWaits, EventWaitBegins
  <2> QED BY <2>1, <2>2 DEF StepsWell
<1>4. ASSUME NEW t \in AlarmThread, SleepEnds(t) PROVE StepsWell
  <2>1. AlarmsInOrder' /\ broken' = broken
    BY <1>4, TimedWaitEnds DEF SleepEnds
  <2>2. EventInOrder'
    BY <1>1, <1>4, OtherWaits
  <2> QED BY <2>1, <2>2 DEF StepsWell
<1>5. ASSUME NEW t \in AlarmThread, EventWaitEnds(t) PROVE StepsWell
  <2>1. AlarmsInOrder'
    BY <1>5, TimedWaitEnds
  <2>2. broken' = broken /\ EventInOrder'
    BY <1>1, <1>5, EventWaitOver
  <2> QED BY <2>1, <2>2 DEF StepsWell
<1>6. CASE SleepTicksNext
  BY <1>2, <1>3, <1>4, <1>6 DEF SleepTicksNext
<1>7. CASE EventTimeoutNext
  BY <1>2, <1>3, <1>5, <1>7 DEF EventTimeoutNext
<1> QED BY <1>6, <1>7

(* ... of the interrupt threads, ... *)
LEMMA InterruptStep ==
    ASSUME NEW r \in [Alarms -> Nat], AlarmParts(r), EventInOrder, ~reused', ~abandoned',
           InterruptNext
    PROVE  StepsWell
<1>1. AlarmTypes
  BY DEF AlarmParts
<1>2. CASE Tick \/ \E c \in Core : TimerFires(c) \/ \E t \in AlarmThread : DispatchOn(t, c)
  <2>1. AlarmsInOrder' /\ broken' = broken
    BY <1>2, ClockSteps
  <2>2. \/ UNCHANGED <<threadVars, timeout>>
        \/ \E c \in Core, t \in AlarmThread : DispatchOn(t, c)
    BY <1>2 DEF Tick, TimerFires
  <2>3. EventInOrder'
    BY <1>1, <2>2, EventUntouched
  <2> QED BY <2>1, <2>3 DEF StepsWell
<1>3. ASSUME NEW c \in Core,
             \/ TakeInterrupt(c) \/ CheckAlarms(c) \/ PassAlarm(c) \/ TriggerAlarm(c)
             \/ WakeWaiters(c) \/ AlarmTriggered(c) \/ FinishInterrupt(c)
      PROVE  StepsWell
  <2>1. AlarmsInOrder' /\ broken' = broken
    BY <1>3, TakeInterruptKeeps, CheckAlarmsKeeps, PassAlarmKeeps, TriggerAlarmKeeps,
       WakeWaitersKeeps, AlarmTriggeredKeeps, FinishInterruptKeeps
  <2>2. UNCHANGED <<threadVars, timeout>>
    BY <1>3 DEF TakeInterrupt, CheckAlarms, PassAlarm, TriggerAlarm, WakeWaiters,
                AlarmTriggered, FinishInterrupt, Handle, threadVars
  <2>3. EventInOrder'
    BY <1>1, <2>2, EventUntouched
  <2> QED BY <2>1, <2>3 DEF StepsWell
<1>4. ASSUME NEW c \in Core, AlarmHandler(c) PROVE StepsWell
  <2>1. PICK t : t = handler[c].alarm
    OBVIOUS
  <2>2. TimeoutComes(t)
    BY <1>4, <2>1, AlarmHandlerKeeps
  <2>3. UNCHANGED <<pc, links>> /\ t \in AlarmThread
    BY <1>4, <2>2 DEF AlarmHandler, Handle, TimeoutComes
  <2>4. CASE state[t] = "Running"
    <3>1. timeout'[t] /\ broken' = "woken"
      BY <2>2, <2>4, Zenon DEF TimeoutComes
    <3>2. broken' # "no"
      BY <3>1
    <3> QED BY <2>3, <3>1, <3>2, Zenon DEF StepsWell
  <2>5. CASE state[t] # "Running"
    <3>1. AlarmsInOrder' /\ broken' = broken /\ state' = [state EXCEPT ![t] = "Ready"]
      BY <2>2, <2>5 DEF TimeoutComes
    <3>2. EventInOrder'
      BY <1>1, <2>2, <2>3, <3>1, EventUntouched
    <3> QED BY <3>1, <3>2 DEF StepsWell
  <2> QED BY <2>4, <2>5
<1> QED BY <1>2, <1>3, <1>4 DEF InterruptNext

(* ... and any step. *)
LEMMA AlarmStep ==
    ASSUME AlarmInv, using \subseteq AlarmCalls, AlarmsAndWaits \/ EventCalls
    PROVE  AlarmInv'
<1>1. Unbroken
  <2>1. CASE AlarmsAndWaits
    BY <2>1, CallsUnbroken, InterruptUnbroken DEF AlarmsAndWaits
  <2>2. CASE EventCalls
    <3>1. PICK t : EventCall(t)
      BY <2>2 DEF EventCalls
    <3>2. UNCHANGED <<reused, abandoned>> /\ broken = "no" /\ mode' = mode
      BY <3>1 DEF EventCall, CanCall, alarmVars, WaitReturns, SignalUnawaited, OSSignalEvent
    <3> QED BY <3>2 DEF Unbroken
  <2> QED BY <2>1, <2>2
<1>2. CASE reused' \/ abandoned'
  BY <1>1, <1>2 DEF AlarmInv, Unbroken, BreaksByMisuse, Sound
<1>3. CASE ~reused' /\ ~abandoned'
  <2>1. Sound
    BY <1>1, <1>3 DEF Unbroken, Sound
  <2>2. PICK r \in [Alarms -> Nat] : AlarmParts(r)
    BY <2>1 DEF AlarmInv, AlarmsInOrder
  <2>3. EventInOrder /\ mode = "AutoReset"
    BY <2>1 DEF AlarmInv
  <2>4. StepsWell
    <3>1. CASE AlarmsAndWaits
      <4>1. \/ InterruptNext \/ AlarmSetNext \/ AlarmCancelNext \/ AlarmWaitNext
            \/ SleepTicksNext \/ EventTimeoutNext
        BY <3>1 DEF AlarmsAndWaits
      <4> QED BY <1>3, <2>2, <2>3, <4>1, AlarmCallsStep, TimedWaitsStep, InterruptStep
    <3>2. CASE EventCalls
      <4>1. PICK t : EventCall(t)
        BY <3>2 DEF EventCalls
      <4>2. AlarmsInOrder' /\ broken' = broken
        BY <2>2, <2>3, <4>1, EventCallKeeps
      <4>3. EventInOrder'
        BY <2>2, <2>3, <4>1, EventSignalled DEF AlarmParts
      <4> QED BY <4>2, <4>3 DEF StepsWell
    <3> QED BY <3>1, <3>2
  <2>5. CASE broken' = broken /\ AlarmsInOrder' /\ EventInOrder'
    BY <1>1, <2>3, <2>5 DEF AlarmInv, Unbroken, BreaksByMisuse
  <2>6. CASE \E t \in AlarmThread : timeout'[t] /\ broken' # "no"
    BY <1>1, <2>3, <2>6 DEF AlarmInv, Unbroken, BreaksByMisuse, Sound
  <2> QED BY <2>4, <2>5, <2>6 DEF StepsWell
<1> QED BY <1>2, <1>3

(* Steps that are not of the alarms change nothing here. *)
LEMMA AlarmRests ==
    ASSUME AlarmInv, UNCHANGED kernelVars
    PROVE  AlarmInv'
<1>1. UNCHANGED <<threadVars, state, pc, links, mode>> /\ UNCHANGED alarmVars
  BY DEF kernelVars, threadVars, eventVars
<1>2. UNCHANGED <<alarm, alarmLinks, gAlarmLock, timer, interrupt, handler, core, now,
                  timeout, broken, reused, abandoned>>
  BY <1>1 DEF alarmVars
<1>3. ASSUME Sound' PROVE AlarmsInOrder' /\ EventInOrder'
  <2>1. Sound /\ AlarmsInOrder /\ EventInOrder
    BY <1>2, <1>3 DEF Sound, AlarmInv
  <2>2. PICK r \in [Alarms -> Nat] : AlarmParts(r)
    BY <2>1 DEF AlarmsInOrder
  <2>3. AlarmTypes /\ QueueParts(r) /\ \A t \in AlarmThread : Sleeper(t)
    BY <2>2 DEF AlarmParts
  <2>4. QueueParts(r)'
    BY <1>1, <1>2, <2>3, QueueSame
  <2>5. AlarmTypes'
    BY <1>1, <1>2, <2>3 DEF AlarmTypes
  <2>6. \A t \in AlarmThread : Sleeper(t)'
    BY <1>1, <1>2, <2>3 DEF Sleeper, Waking
  <2>7. EventInOrder'
    BY <1>1, <1>2, <2>1, <2>3, EventUntouched
  <2> QED BY <2>4, <2>5, <2>6, <2>7 DEF AlarmParts, AlarmsInOrder
<1>4. BreaksByMisuse' /\ mode' = "AutoReset"
  BY <1>1, <1>2 DEF AlarmInv, BreaksByMisuse
<1> QED BY <1>3, <1>4 DEF AlarmInv

(* At the start no alarm has been set and nobody waits. *)
LEMMA AlarmStart ==
    ASSUME Init, using \subseteq AlarmCalls
    PROVE  AlarmInv
<1> USE AlarmSets
<1>1. ~(using \subseteq LifeCalls)
  BY UsesApart DEF Init
<1>2. /\ pc = [t \in Thread |-> "guest"] /\ links = EmptyLinks
      /\ state = [t \in Thread |-> IF t \in AlarmThread THEN "Running" ELSE "None"]
      /\ AlarmInit /\ mode = "AutoReset"
  BY <1>1 DEF Init
<1>3. /\ alarm = [a \in Alarms |-> CreatedAlarm] /\ timer = [c \in Core |-> Never]
      /\ interrupt = {} /\ handler = [c \in Core |-> IdleHandler] /\ core = HomeCore
      /\ now = 0 /\ timeout = [t \in AlarmThread |-> FALSE]
      /\ alarmLinks = [head |-> [c \in Core |-> Nobody], tail |-> [c \in Core |-> Nobody],
                       next |-> [a \in Alarms |-> Nobody], prev |-> [a \in Alarms |-> Nobody]]
      /\ broken = "no"
  BY <1>2 DEF AlarmInit
<1>4. Never \in Nat
  BY AlarmAssumption DEF Never
<1>5. /\ CreatedAlarm \in AlarmRecord /\ CreatedAlarm.state = "None"
      /\ CreatedAlarm.queue = Nobody /\ CreatedAlarm.period = 0
      /\ CreatedAlarm.callback = "none"
  BY DEF CreatedAlarm, AlarmRecord
<1>6. IdleHandler \in HandlerRecord /\ IdleHandler.pc = "idle"
  BY <1>4 DEF IdleHandler, HandlerRecord
<1>7. alarmLinks \in RowType(Alarms, Core)
  BY <1>3 DEF RowType
<1>8. AlarmTypes
  <2>1. alarm \in [Alarms -> AlarmRecord] /\ handler \in [Core -> HandlerRecord]
    BY <1>3, <1>5, <1>6
  <2>2. timer \in [Core -> Nat] /\ timeout \in [AlarmThread -> BOOLEAN] /\ now \in Nat
    BY <1>3, <1>4
  <2>3. core \in [AlarmThread -> Core]
    BY <1>3, AlarmAssumption
  <2>4. state \in [Thread -> States] /\ pc \in [Thread -> AlarmPlaces]
    BY <1>2 DEF States, AlarmPlaces
  <2> QED BY <1>3, <1>7, <2>1, <2>2, <2>3, <2>4 DEF AlarmTypes
<1>9. PICK r \in [Alarms -> Nat] : r = [a \in Alarms |-> 0]
  OBVIOUS
<1>10. \A c \in Core : Armed(c) = {} /\ handler[c].pc = "idle"
  BY <1>3, <1>5, <1>6 DEF Armed
<1>11. QueueParts(r)
  <2>1. \A c \in Core : alarmLinks.head[c] = NoThread /\ alarmLinks.tail[c] = NoThread
    BY <1>3
  <2>2. Rows(r)
    BY <1>10, <2>1 DEF Rows, Row
  <2>3. \A a \in Alarms : Placed(a)
    BY <1>3, <1>5 DEF Placed
  <2> QED BY <1>10, <2>2, <2>3 DEF QueueParts, Timers, Scans, Busy
<1>12. \A t \in AlarmThread : Sleeper(t)
  <2>1. \A t \in AlarmThread : alarm[t] = CreatedAlarm /\ pc[t] = "guest" /\ state[t] = "Running"
    BY <1>2, <1>3
  <2> QED BY <1>5, <2>1 DEF Sleeper
<1>13. AlarmsInOrder
  BY <1>8, <1>11, <1>12 DEF AlarmParts, AlarmsInOrder
<1>14. EventInOrder
  BY <1>2, EmptyLists, AwaitingStates DEF EventInOrder
<1> QED BY <1>2, <1>3, <1>13, <1>14 DEF AlarmInv, BreaksByMisuse

(* What the alarms' rows say of the queues, the timers and who sleeps. *)
LEMMA AlarmsAreFound ==
    ASSUME NEW r \in [Alarms -> Nat], AlarmParts(r)
    PROVE  /\ QueuesHoldSetAlarms /\ TimerCoversAlarms /\ SleepersHaveAlarms
<1> USE AlarmSets
<1>1. AlarmTypes /\ Rows(r) /\ QueueParts(r) /\ \A t \in AlarmThread : Sleeper(t)
  BY DEF AlarmParts, QueueParts
<1>2. \A c \in Core : AlarmList(c) = Armed(c)
  BY <1>1, AlarmListIs
<1>3. QueuesHoldSetAlarms
  <2>1. ASSUME NEW c \in Core
        PROVE  /\ alarmLinks.tail[c] \in Armed(c) \cup {Nobody}
               /\ alarmLinks.tail[c] # Nobody => alarmLinks.next[alarmLinks.tail[c]] = Nobody
    <3>1. Row(alarmLinks, c, Armed(c), r) /\ Armed(c) \subseteq Alarms
      BY <1>1 DEF Rows, Armed
    <3>2. PICK x, y : x = alarmLinks.tail[c] /\ y = alarmLinks.next[x]
      OBVIOUS
    <3>3. x \in Armed(c) \cup {Nobody} /\ (x # Nobody => \A z \in Armed(c) : r[z] =< r[x])
      BY <3>1, <3>2 DEF Row
    <3>4. ASSUME x # Nobody PROVE y = Nobody
      <4>1. x \in Armed(c) /\ Follows(Armed(c), r, x, y)
        BY <3>1, <3>2, <3>3, <3>4 DEF Row
      <4>2. y # Nobody => y \in Armed(c) /\ r[x] < r[y]
        BY <4>1 DEF Follows
      <4>3. \A z \in Armed(c) : r[z] \in Nat /\ r[z] =< r[x]
        BY <3>1, <3>3, <3>4
      <4> QED BY <4>1, <4>2, <4>3
    <3> QED BY <3>2, <3>3, <3>4
  <2> QED BY <1>2, <2>1 DEF QueuesHoldSetAlarms, Armed
<1>4. TimerCoversAlarms
  <2>1. ASSUME NEW c \in Core, handler[c].pc = "idle", NEW a \in Armed(c)
        PROVE  c \in interrupt \/ timer[c] =< alarm[a].nextFire
    BY <1>1, <2>1 DEF QueueParts, Timers, Covered, Busy
  <2> QED BY <1>2, <2>1 DEF TimerCoversAlarms
<1>5. SleepersHaveAlarms
  <2>1. ASSUME NEW t \in AlarmThread, state[t] = "Waiting"
        PROVE  alarm[t].state = "Set" /\ t \in AlarmList(alarm[t].queue)
    <3>1. alarm[t].state = "Set"
      BY <1>1, <2>1 DEF Sleeper
    <3>2. alarm[t].queue \in Core
      BY <1>1, <3>1 DEF QueueParts, Placed
    <3>3. t \in Armed(alarm[t].queue)
      BY <3>1 DEF Armed
    <3> QED BY <1>2, <3>1, <3>2, <3>3
  <2> QED BY <2>1 DEF SleepersHaveAlarms
<1> QED BY <1>3, <1>4, <1>5

(* OSSetAlarm, OSCancelAlarm, the timed waits and OSCheckAlarms, on any       *)
(* number of cores: until the game or an ended wait misuses an alarm, what is *)
(* set is in its core's queue, the core's timer or its interrupt will find it *)
(* in time, and who sleeps for a time has an alarm that will.  The kernel     *)
(* dereferences null, or wakes a thread that runs, only after a misuse or a   *)
(* timeout.                                                                   *)
THEOREM AlarmsCorrect == Spec => []AlarmsComeTrue
<1> DEFINE Inv == using \in Uses /\ (using \subseteq AlarmCalls => AlarmInv)
<1>1. Init => Inv
  BY AlarmStart DEF Init
<1>2. Inv /\ [Next]_kernelVars => Inv'
  <2> SUFFICES ASSUME Inv, [Next]_kernelVars PROVE Inv'
    OBVIOUS
  <2>1. CASE UNCHANGED kernelVars
    <3>1. using' = using
      BY <2>1 DEF kernelVars
    <3> QED BY <2>1, <3>1, AlarmRests
  <2>2. CASE Threads
    <3>1. using' = using /\ ~(using \subseteq AlarmCalls)
      BY <2>2, UsesApart DEF Threads
    <3> QED BY <3>1
  <2>3. CASE AlarmsAndWaits \/ EventCalls
    <3>1. using' = using
      BY <2>3 DEF AlarmsAndWaits, EventCalls
    <3>2. using \subseteq AlarmCalls => AlarmInv'
      BY <2>3, AlarmStep
    <3> QED BY <3>1, <3>2
  <2>4. CASE SpinLocks
    <3>1. using' = using /\ ~(using \subseteq AlarmCalls)
      BY <2>4 DEF SpinLocks, AlarmCalls
    <3> QED BY <3>1
  <2> QED BY <2>1, <2>2, <2>3, <2>4 DEF Next
<1>3. Inv => AlarmsComeTrue
  <2> SUFFICES ASSUME AlarmInv PROVE /\ QueuesHoldSetAlarms /\ TimerCoversAlarms
                                     /\ SleepersHaveAlarms /\ BreaksByMisuse
    BY DEF AlarmsComeTrue
  <2>1. BreaksByMisuse
    BY DEF AlarmInv
  <2>2. CASE Sound
    <3>1. PICK r \in [Alarms -> Nat] : AlarmParts(r)
      BY <2>2 DEF AlarmInv, AlarmsInOrder
    <3> QED BY <2>1, <3>1, AlarmsAreFound
  <2>3. CASE ~Sound
    BY <2>1, <2>3 DEF QueuesHoldSetAlarms, TimerCoversAlarms, SleepersHaveAlarms
  <2> QED BY <2>2, <2>3
<1> QED BY <1>1, <1>2, <1>3, PTL DEF Spec
=============================================================================
