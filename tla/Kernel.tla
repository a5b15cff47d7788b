------------------------------- MODULE Kernel -------------------------------
(* Threads that are created, suspended, cancelled and joined; alarms and    *)
(* timed waits; and the spin lock under the alarms: each in turn, with the  *)
(* wait queues of ThreadQueue under the first two.                          *)
EXTENDS ThreadLife, Alarm, SpinLock

CONSTANT Uses  \* the sets of calls that games use together (a bound)

VARIABLE using \* the calls that this one uses

LifeCalls == {"suspend", "cancel", "join", "sleep"}
AlarmCalls == {"alarm", "alarm cancel", "alarm wait", "sleep ticks", "event"}

ASSUME UsesAssumption ==
    /\ \A u \in Uses : u # {} /\ (u \subseteq LifeCalls \/ u \subseteq AlarmCalls
                                                   \/ u = {"spin lock"})
    /\ WaitQueue = LifeQueue \cup {"event"}
    /\ AlarmThread \subseteq Thread /\ GameAlarm \cap Thread = {}

kernelVars == <<threadVars, lifeVars, eventVars, alarmVars, spinVars, using>>

Init ==
    /\ using \in Uses
    /\ pc = [t \in Thread |-> "guest"] /\ links = EmptyLinks
    /\ state = IF using \subseteq LifeCalls THEN Created
               ELSE [t \in Thread |-> IF t \in AlarmThread THEN "Running" ELSE "None"]
    /\ LifeInit /\ EventInit /\ AlarmInit /\ SpinInit
    \* Module Sync has events of both modes, and every call on them.
    /\ mode = "AutoReset" /\ ~value

Threads ==
    /\ using \subseteq LifeCalls
    /\ \/ RunNext
       \/ "suspend" \in using /\ SuspendNext
       \/ "cancel" \in using /\ CancelNext
       \/ "join" \in using /\ JoinNext
       \/ "sleep" \in using /\ SleepNext
    /\ UNCHANGED <<eventVars, alarmVars, spinVars, using>>

AlarmsAndWaits ==
    /\ using \subseteq AlarmCalls
    /\ \/ InterruptNext
       \/ "alarm" \in using /\ AlarmSetNext
       \/ "alarm cancel" \in using /\ AlarmCancelNext
       \/ "alarm wait" \in using /\ AlarmWaitNext
       \/ "sleep ticks" \in using /\ SleepTicksNext
       \/ "event" \in using /\ EventTimeoutNext
    /\ UNCHANGED <<lifeVars, eventVars, spinVars, using>>

EventCalls ==
    /\ "event" \in using
    /\ \E t \in Thread : EventCall(t)
    /\ UNCHANGED <<lifeVars, spinVars, using>>

SpinLocks ==
    /\ "spin lock" \in using
    /\ SpinNext
    /\ UNCHANGED <<threadVars, lifeVars, eventVars, alarmVars, using>>

Next == Threads \/ AlarmsAndWaits \/ EventCalls \/ SpinLocks

Spec == Init /\ [][Next]_kernelVars

-----------------------------------------------------------------------------
(* Properties *)

\* Suspension is counted: a thread that runs is not suspended, one that could
\* run has a fiber that is queued, and a thread counts the suspenders that wait
\* for it, unless it is about to be cancelled.
SuspensionCounted ==
    using \subseteq LifeCalls =>
        /\ RunningNotSuspended
        /\ RunnableHasFiber
        /\ SuspendersCounted

\* The end of a thread is seen: nobody is left to join a thread that has ended,
\* nor to suspend it, but for those who were refused and those whom
\* OSInsertThreadQueue had put before the head of a queue.
EndsAreSeen ==
    /\ [](using \subseteq LifeCalls => JoinSeesExit /\ RefusedAreLost)
    /\ [][using \subseteq LifeCalls => LosesRefused]_kernelVars

\* An alarm that is set is in its core's queue, the timer or an interrupt will
\* find it there, and who sleeps for a time has one; until it is misused.
AlarmsComeTrue ==
    using \subseteq AlarmCalls =>
        /\ QueuesHoldSetAlarms
        /\ TimerCoversAlarms
        /\ SleepersHaveAlarms
        /\ BreaksByMisuse

=============================================================================
