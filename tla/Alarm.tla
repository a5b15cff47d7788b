------------------------------- MODULE Alarm -------------------------------
(***************************************************************************)
(* Alarms: coreinit_alarm.cpp, the interrupt threads that fire them, and   *)
(* the waits of OSSleepTicks and OSWaitEventWithTimeout that rest on them. *)
(*                                                                         *)
(* Two locks matter here.  A step that takes gAlarmLock or the scheduler   *)
(* lock and returns it is guarded by the lock being free; a lock that is   *)
(* held while its holder waits for the other one is a variable.  Every     *)
(* timed wait of a thread allocates the alarm block that its last one      *)
(* freed, and the block has the thread's name.                             *)
(***************************************************************************)
EXTENDS Event

CONSTANTS Core,
          GameAlarm,   \* the game's own alarms
          AlarmThread, \* the threads that use them
          Affinity,    \* [AlarmThread -> SUBSET Core]
          HomeCore,    \* [AlarmThread -> Core]: where they are at first
          MaxTime      \* bound on the clock

ASSUME AlarmAssumption ==
    /\ Affinity \in [AlarmThread -> SUBSET Core]
    /\ HomeCore \in [AlarmThread -> Core]
    /\ IsFiniteSet(GameAlarm) /\ NoThread \notin GameAlarm
    /\ Core \cap (Thread \cup {NoThread}) = {}
    /\ MaxTime \in Nat

Alarms == GameAlarm \cup AlarmThread
Never == MaxTime + 2
Nobody == NoThread

VARIABLES
    alarm,        \* state, nextFire, period, callback, queue of every alarm
    alarmLinks,   \* gAlarmQueue and the alarms' links
    gAlarmLock,   \* its owner, a thread or a core's interrupt thread
    schedLock,    \* who holds gSchedulerLock while it waits for gAlarmLock
    timer,        \* nextInterrupt of every core
    interrupt,    \* the cores whose interrupt flag is set
    handler,      \* what the interrupt thread of every core does
    core,         \* the core that a thread runs on, or did last
    now,          \* OSGetTime
    timeout,      \* EventAlarmData::timeout of each thread's block
    broken,       \* "null": null was dereferenced; "woken": a thread that did
                  \* not sleep was woken, and executes twice
    reused,       \* history: an alarm, or a thread that waited for the event,
                  \* that was in no queue was taken out of one
    abandoned     \* history: a block was freed while its alarm was set

alarmVars == <<alarm, alarmLinks, gAlarmLock, schedLock, timer, interrupt,
               handler, core, now, timeout, broken, reused, abandoned>>

CreatedAlarm == [state |-> "None", nextFire |-> 0, period |-> 0,
                 callback |-> "none", queue |-> Nobody]

IdleHandler == [pc |-> "idle", alarm |-> Nobody, next |-> Nobody, at |-> 0,
                soonest |-> Never]

AlarmInit ==
    /\ alarm = [a \in Alarms |-> CreatedAlarm]
    /\ alarmLinks = [head |-> [c \in Core |-> Nobody], tail |-> [c \in Core |-> Nobody],
                     next |-> [a \in Alarms |-> Nobody], prev |-> [a \in Alarms |-> Nobody]]
    /\ gAlarmLock = Nobody /\ schedLock = Nobody
    /\ timer = [c \in Core |-> Never]
    /\ interrupt = {}
    /\ handler = [c \in Core |-> IdleHandler]
    /\ core = HomeCore
    /\ now = 0
    /\ timeout = [t \in AlarmThread |-> FALSE]
    /\ broken = "no" /\ reused = FALSE /\ abandoned = FALSE

-----------------------------------------------------------------------------
(* Setting and cancelling *)

\* The alarms a walk along core c's queue meets; at most all of them.
AlarmList(c) ==
    LET nth[n \in 0 .. Cardinality(Alarms)] ==
            IF n = 0 THEN alarmLinks.head[c]
            ELSE IF nth[n - 1] = Nobody THEN Nobody
            ELSE alarmLinks.next[nth[n - 1]]
    IN {nth[n] : n \in DOMAIN nth} \ {Nobody}

\* Mutant: the timer is set whatever it was.
OverwriteTimer(c, when) == timer' = [timer EXCEPT ![c] = when]

\* Processor::setInterruptTimer: not later than it is.
SetInterruptTimer(c, when) ==
    timer' = [timer EXCEPT ![c] = IF when < @ THEN when ELSE @]

\* Erasing alarm a from its queue, if that is not null and it is Erasable.
CanErase(a) ==
    alarm[a].queue # Nobody /\ Erasable(alarmLinks, alarm[a].queue, a)

Erased(a) == OSEraseFromQueue(alarmLinks, alarm[a].queue, a)

\* Whether a is taken out of a queue that it is not in.
Reuse(a) == reused' = (reused \/ (alarm[a].queue # Nobody /\ a \notin AlarmList(alarm[a].queue)))

NullDereferenced ==
    /\ broken' = "null"
    /\ UNCHANGED <<alarm, alarmLinks, timer>>

\* OSSetPeriodicAlarm on core c, under gAlarmLock.  An alarm that was ever
\* set is erased from its queue, in which it need not be any more.
Arm(c, a, fire, every, callback) ==
    /\ Reuse(a)
    /\ IF alarm[a].queue # Nobody /\ ~CanErase(a) THEN NullDereferenced
       ELSE /\ alarm' = [alarm EXCEPT ![a] =
                    [state |-> "Set", nextFire |-> fire, period |-> every,
                     callback |-> callback, queue |-> c]]
            /\ alarmLinks' = OSAppendQueue(
                    IF alarm[a].queue = Nobody THEN alarmLinks ELSE Erased(a), c, a)
            /\ SetInterruptTimer(c, fire)
            /\ UNCHANGED broken

\* OSCancelAlarmNoLock.  `!alarm->state == Set` is true of None only.
Cancel(a) ==
    IF alarm[a].state = "None" THEN UNCHANGED <<alarm, alarmLinks, timer, broken, reused>>
    ELSE /\ Reuse(a)
         /\ IF ~CanErase(a) THEN NullDereferenced
            ELSE /\ alarm' = [alarm EXCEPT ![a].state = "Cancelled",
                                           ![a].nextFire = 0, ![a].period = 0]
                 /\ alarmLinks' = Erased(a)
                 /\ UNCHANGED <<timer, broken>>

\* Thread t makes a kernel call: it has its core to itself.
CanCall(t) ==
    /\ t \in AlarmThread /\ At(t, "guest") /\ broken = "no"
    /\ handler[core[t]].pc = "idle"

\* OSSetAlarm (every = 0) and OSSetPeriodicAlarm of a game's alarm.
OSSetPeriodicAlarm(t, a, every) ==
    /\ CanCall(t) /\ gAlarmLock = Nobody /\ now < MaxTime
    /\ \E callback \in {"none", "game"} : Arm(core[t], a, now + 1, every, callback)
    /\ UNCHANGED <<threadVars, gAlarmLock, schedLock, interrupt, handler, core,
                   now, timeout, abandoned>>

OSCancelAlarm(t, a) ==
    /\ CanCall(t) /\ gAlarmLock = Nobody
    /\ Cancel(a)
    /\ UNCHANGED <<threadVars, gAlarmLock, schedLock, interrupt, handler, core,
                   now, timeout, abandoned>>

\* OSCancelAlarms of a tag that all the game's alarms have takes gAlarmLock, ...
OSCancelAlarms(t) ==
    /\ CanCall(t) /\ gAlarmLock = Nobody
    /\ gAlarmLock' = t
    /\ Goto(t, "cancelAlarms")
    /\ UNCHANGED <<state, links, alarm, alarmLinks, schedLock, timer, interrupt,
                   handler, core, now, timeout, broken, reused, abandoned>>

Tagged == {a \in GameAlarm : alarm[a].state # "None" /\ \E c \in Core : a \in AlarmList(c)}

\* ... cancels them, in the order of the lists or in another, ...
CancelTagged(t) ==
    /\ At(t, "cancelAlarms") /\ broken = "no"
    /\ \E a \in Tagged : Cancel(a)
    /\ UNCHANGED <<threadVars, gAlarmLock, schedLock, interrupt, handler, core,
                   now, timeout, abandoned>>

\* ... and ends; it may overlook some when alarms are taken out of queues that
\* they are not in.
AllCancelled(t) ==
    /\ At(t, "cancelAlarms") /\ broken = "no"
    /\ reused \/ abandoned \/ Tagged = {}
    /\ gAlarmLock' = Nobody
    /\ Goto(t, "guest")
    /\ UNCHANGED <<state, links, alarm, alarmLinks, schedLock, timer, interrupt,
                   handler, core, now, timeout, broken, reused, abandoned>>

\* OSWaitAlarm of an alarm that is set.  The thread sleeps on the alarm and
\* releases gAlarmLock, which tests for cancellation: that takes the scheduler
\* lock, which it holds.  It never gets any further.
OSWaitAlarm(t, a) ==
    /\ CanCall(t) /\ gAlarmLock = Nobody /\ schedLock = Nobody
    /\ alarm[a].state = "Set"
    /\ schedLock' = t
    /\ Goto(t, "waitAlarm")
    /\ UNCHANGED <<state, links, alarm, alarmLinks, gAlarmLock, timer, interrupt,
                   handler, core, now, timeout, broken, reused, abandoned>>

-----------------------------------------------------------------------------
(* Timed waits *)

\* The block is allocated, and OSCreateAlarm clears it, wherever it is linked.
AllocateBlock(t) ==
    /\ alarm' = [alarm EXCEPT ![t] = CreatedAlarm]
    /\ alarmLinks' = [alarmLinks EXCEPT !.next[t] = Nobody, !.prev[t] = Nobody]
    /\ timeout' = [timeout EXCEPT ![t] = FALSE]

\* OSSleepTicks and OSWaitEventWithTimeout up to their OSSetAlarm ...
TimedWait(t, p) ==
    /\ CanCall(t) /\ schedLock = Nobody /\ now < MaxTime
    /\ p = "eventSet" => ~value
    /\ AllocateBlock(t)
    /\ schedLock' = t
    /\ Goto(t, p)
    /\ UNCHANGED <<state, links, gAlarmLock, timer, interrupt, handler, core, now,
                   broken, reused, abandoned>>

\* ... which needs gAlarmLock; then the thread sleeps, ...
SleepTimed(t, callback) ==
    /\ gAlarmLock = Nobody
    /\ Arm(core[t], t, now + 1, 0, callback)
    /\ state' = [state EXCEPT ![t] = "Waiting"]
    /\ schedLock' = Nobody
    /\ UNCHANGED <<gAlarmLock, interrupt, handler, core, now, timeout, abandoned>>

OSSleepTicks(t) ==
    /\ At(t, "sleepSet") /\ broken = "no"
    /\ SleepTimed(t, "sleep")
    /\ Goto(t, "sleeping")
    /\ UNCHANGED links

OSWaitEventWithTimeout(t) ==
    /\ At(t, "eventSet") /\ broken = "no"
    /\ SleepTimed(t, "event")
    /\ Goto(t, "eventWait")
    /\ links' = OSInsertThreadQueue(links, "event", t)

\* ... and when it is woken, frees the block.
FreeBlock(t) ==
    /\ schedLock = Nobody /\ broken = "no"
    /\ handler[core[t]].pc = "idle"
    /\ abandoned' = (abandoned \/ alarm[t].state = "Set")
    /\ Goto(t, "guest")
    /\ UNCHANGED <<state, alarm, alarmLinks, gAlarmLock, schedLock, timer,
                   interrupt, handler, core, now, timeout>>

SleepEnds(t) ==
    /\ At(t, "sleeping")
    /\ FreeBlock(t)
    /\ UNCHANGED <<links, broken, reused>>

\* A wait that has timed out takes its thread out of the event's queue, in
\* which it need not be.
EventWaitEnds(t) ==
    /\ At(t, "eventWait")
    /\ FreeBlock(t)
    /\ reused' = (reused \/ (timeout[t] /\ t \notin Listed(links, "event")))
    /\ IF ~timeout[t] THEN UNCHANGED <<links, broken>>
       ELSE IF Erasable(links, "event", t)
       THEN links' = OSEraseFromQueue(links, "event", t) /\ UNCHANGED broken
       ELSE broken' = "null" /\ UNCHANGED links

-----------------------------------------------------------------------------
(* Interrupts *)

Tick ==
    /\ now < MaxTime /\ broken = "no"
    /\ now' = now + 1
    /\ UNCHANGED <<threadVars, alarm, alarmLinks, gAlarmLock, schedLock, timer,
                   interrupt, handler, core, timeout, broken, reused, abandoned>>

\* Processor::timerEntryPoint
TimerFires(c) ==
    /\ timer[c] =< now /\ broken = "no"
    /\ interrupt' = interrupt \cup {c}
    /\ timer' = [timer EXCEPT ![c] = Never]
    /\ UNCHANGED <<threadVars, alarm, alarmLinks, gAlarmLock, schedLock, handler,
                   core, now, timeout, broken, reused, abandoned>>

\* Only these change when the interrupt thread of c takes a step.
Handle(c, h) ==
    /\ broken = "no"
    /\ handler' = [handler EXCEPT ![c] = h]
    /\ UNCHANGED <<pc, schedLock, core, now, abandoned>>

\* Mutant: a kernel call is interrupted too.
InterruptAnywhere(c) == TRUE

\* Guest code is interrupted, a kernel call is not.
Interruptible(c) ==
    \A t \in AlarmThread : state[t] = "Running" /\ core[t] = c => pc[t] = "guest"

\* Processor::handleInterrupt switches to the interrupt thread.
TakeInterrupt(c) ==
    /\ handler[c].pc = "idle" /\ c \in interrupt /\ Interruptible(c)
    /\ interrupt' = interrupt \ {c}
    /\ Handle(c, [handler[c] EXCEPT !.pc = "lock"])
    /\ UNCHANGED <<state, links, alarm, alarmLinks, gAlarmLock, timer, timeout,
                   broken, reused>>

\* OSCheckAlarms begins.
CheckAlarms(c) ==
    /\ handler[c].pc = "lock" /\ gAlarmLock = Nobody
    /\ gAlarmLock' = c
    /\ Handle(c, [handler[c] EXCEPT !.pc = "scan", !.at = now, !.soonest = Never,
                                    !.alarm = alarmLinks.head[c]])
    /\ UNCHANGED <<state, links, alarm, alarmLinks, timer, interrupt, timeout,
                   broken, reused>>

\* The loop goes on after an alarm whose state is a now.
Counted(h, a, next) ==
    [h EXCEPT !.pc = "scan", !.alarm = next,
              !.soonest = IF a.state = "Set" /\ a.nextFire # 0 /\ a.nextFire < @
                          THEN a.nextFire ELSE @]

\* An alarm that is not due.
PassAlarm(c) ==
    LET h == handler[c] a == h.alarm IN
    /\ h.pc = "scan" /\ a # Nobody /\ alarm[a].nextFire > h.at
    /\ Handle(c, Counted(h, alarm[a], alarmLinks.next[a]))
    /\ UNCHANGED <<state, links, alarm, alarmLinks, gAlarmLock, timer, interrupt,
                   timeout, broken, reused>>

\* One that is.  The callback of a timed wait comes next, in a step of its
\* own; a callback of the game may set or cancel the alarm that calls it.
TriggerAlarm(c) ==
    LET h == handler[c]
        a == h.alarm
        timed == alarm[a].callback \in {"sleep", "event"}
        calls == alarm[a].state # "Cancelled"
    IN /\ h.pc = "scan" /\ a # Nobody /\ alarm[a].nextFire =< h.at
       /\ Handle(c, [h EXCEPT !.next = alarmLinks.next[a],
                              !.pc = IF timed /\ calls THEN "callback" ELSE "wake"])
       /\ \/ UNCHANGED <<alarm, alarmLinks, timer, broken, reused>>
          \/ alarm[a].callback = "game" /\ calls /\ Arm(c, a, now + 1, 0, "game")
          \/ alarm[a].callback = "game" /\ calls /\ Cancel(a)
       /\ UNCHANGED <<state, links, gAlarmLock, interrupt, timeout>>

\* SleepAlarmHandler and EventAlarmHandler wake the thread of the block,
\* whatever it waits for now.
AlarmHandler(c) ==
    LET t == handler[c].alarm IN
    /\ handler[c].pc = "callback" /\ schedLock = Nobody
    /\ Handle(c, [handler[c] EXCEPT !.pc = "wake"])
    /\ timeout' = [timeout EXCEPT ![t] = alarm[t].callback = "event" \/ @]
    /\ IF state[t] = "Running"
       THEN broken' = "woken" /\ UNCHANGED state
       ELSE state' = [state EXCEPT ![t] = "Ready"] /\ UNCHANGED broken
    /\ UNCHANGED <<links, alarm, alarmLinks, gAlarmLock, timer, interrupt, reused>>

\* OSWakeupThread of the alarm's queue, where nobody ever sleeps.
WakeWaiters(c) ==
    /\ handler[c].pc = "wake" /\ schedLock = Nobody
    /\ Handle(c, [handler[c] EXCEPT !.pc = "rest"])
    /\ UNCHANGED <<state, links, alarm, alarmLinks, gAlarmLock, timer, interrupt,
                   timeout, broken, reused>>

\* The rest of OSTriggerAlarmNoLock reads the alarm again.
AlarmTriggered(c) ==
    LET h == handler[c]
        a == h.alarm
        again == [alarm[a] EXCEPT !.nextFire = now + alarm[a].period, !.state = "Set"]
        over == [alarm[a] EXCEPT !.nextFire = 0, !.state = "None"]
        done == IF alarm[a].period > 0 THEN again ELSE over
    IN /\ h.pc = "rest"
       /\ Handle(c, Counted(h, done, h.next))
       /\ IF alarm[a].period > 0
          THEN alarm' = [alarm EXCEPT ![a] = done]
               /\ UNCHANGED <<alarmLinks, timer, broken, reused>>
          ELSE /\ Reuse(a)
               /\ IF ~CanErase(a) THEN NullDereferenced
                  ELSE /\ alarm' = [alarm EXCEPT ![a] = done]
                       /\ alarmLinks' = Erased(a)
                       /\ UNCHANGED <<timer, broken>>
       /\ UNCHANGED <<state, links, gAlarmLock, interrupt, timeout>>

\* OSCheckAlarms ends, and Processor::finishInterrupt.
FinishInterrupt(c) ==
    /\ handler[c].pc = "scan" /\ handler[c].alarm = Nobody
    /\ SetInterruptTimer(c, handler[c].soonest)
    /\ gAlarmLock' = Nobody
    /\ Handle(c, IdleHandler)
    /\ UNCHANGED <<state, links, alarm, alarmLinks, interrupt, timeout, broken, reused>>

\* A core takes a thread that is Ready.
DispatchOn(t, c) ==
    /\ broken = "no" /\ c \in Affinity[t] /\ handler[c].pc = "idle"
    /\ \A u \in AlarmThread : state[u] = "Running" => core[u] # c
    /\ Dispatch(t)
    /\ core' = [core EXCEPT ![t] = c]
    /\ UNCHANGED <<alarm, alarmLinks, gAlarmLock, schedLock, timer, interrupt,
                   handler, now, timeout, broken, reused, abandoned>>

AlarmSetNext ==
    \E t \in AlarmThread, a \in GameAlarm :
        OSSetPeriodicAlarm(t, a, 0) \/ OSSetPeriodicAlarm(t, a, 1)

AlarmCancelNext ==
    \E t \in AlarmThread :
        \/ OSCancelAlarms(t) \/ CancelTagged(t) \/ AllCancelled(t)
        \/ \E a \in GameAlarm : OSCancelAlarm(t, a)

AlarmWaitNext == \E t \in AlarmThread, a \in GameAlarm : OSWaitAlarm(t, a)

SleepTicksNext ==
    \E t \in AlarmThread : TimedWait(t, "sleepSet") \/ OSSleepTicks(t) \/ SleepEnds(t)

\* Calls on the event; of a wait with timeout, those that need not wait.
EventCall(t) ==
    /\ CanCall(t) /\ schedLock = Nobody
    /\ WaitReturns(t) \/ SignalUnawaited(t) \/ OSSignalEvent(t)
    /\ UNCHANGED alarmVars

\* The steps of waits with timeout, which leave the event's value alone.
EventTimeoutNext ==
    \E t \in AlarmThread :
        \/ TimedWait(t, "eventSet") \/ OSWaitEventWithTimeout(t) \/ EventWaitEnds(t)

InterruptNext ==
    \/ Tick
    \/ \E c \in Core :
        \/ TimerFires(c) \/ TakeInterrupt(c) \/ CheckAlarms(c) \/ PassAlarm(c)
        \/ TriggerAlarm(c) \/ AlarmHandler(c) \/ WakeWaiters(c)
        \/ AlarmTriggered(c) \/ FinishInterrupt(c)
        \/ \E t \in AlarmThread : DispatchOn(t, c)

-----------------------------------------------------------------------------
(* Properties *)

\* The game and the timed waits have used alarms as the lists can bear.
Sound == broken = "no" /\ ~reused /\ ~abandoned

\* A core's queue holds the alarms that were set on it and are still, each
\* once, and its tail is the last of them: as long as nobody sets or cancels
\* an alarm that has fired or was cancelled, and no block is freed while set.
QueuesHoldSetAlarms ==
    Sound /\ gAlarmLock = Nobody =>
        \A c \in Core :
            /\ AlarmList(c) = {a \in Alarms : alarm[a].state = "Set" /\ alarm[a].queue = c}
            /\ alarmLinks.tail[c] \in AlarmList(c) \cup {Nobody}
            /\ alarmLinks.tail[c] # Nobody => alarmLinks.next[alarmLinks.tail[c]] = Nobody

\* The kernel dereferences null in a queue, or wakes a thread that runs, only
\* after such a misuse, or when the timeout of a wait on an event has come.
BreaksByMisuse ==
    broken = "no" \/ reused \/ abandoned \/ \E t \in AlarmThread : timeout[t]

\* An alarm that is set will be looked at in time: while its core's interrupt
\* thread is idle, an interrupt is pending or the timer is set for it.
TimerCoversAlarms ==
    Sound => \A c \in Core : handler[c].pc = "idle" =>
        \A a \in AlarmList(c) : c \in interrupt \/ timer[c] =< alarm[a].nextFire

\* Who sleeps for a time has an alarm that is set and will be found.
SleepersHaveAlarms ==
    Sound => \A t \in AlarmThread :
        state[t] = "Waiting" /\ pc[t] \in {"sleeping", "eventWait"} =>
            alarm[t].state = "Set" /\ t \in AlarmList(alarm[t].queue)

\* A timed wait that holds the scheduler lock and waits for gAlarmLock can
\* meet a callback that holds gAlarmLock and waits for the scheduler lock:
\* for ever, but never on one core, where kernel calls are not interrupted.
EmbraceTakesTwoCores ==
    \A c \in Core, t \in AlarmThread :
        /\ gAlarmLock = c /\ handler[c].pc \in {"callback", "wake"}
        /\ schedLock = t /\ state[t] = "Running"
        => core[t] # c

\* A wait that has timed out is still in the event's queue, out of which it is
\* about to be taken.
TimedOutIsQueued ==
    \A t \in AlarmThread :
        At(t, "eventWait") /\ timeout[t] /\ broken = "no" => t \in Listed(links, "event")

=============================================================================
