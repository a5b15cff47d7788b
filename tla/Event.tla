------------------------------- MODULE Event -------------------------------
(***************************************************************************)
(* OSEvent without timeouts: coreinit_event.cpp.                           *)
(***************************************************************************)
EXTENDS ThreadQueue

VARIABLES mode, value  \* OSEvent::mode, ::value

eventVars == <<mode, value>>

EventPlaces == {"event"}

EventInit ==
    /\ mode \in {"ManualReset", "AutoReset"}
    /\ value \in BOOLEAN

\* OSWaitEvent of an event that is set ...
WaitReturns(t) ==
    /\ At(t, "guest") /\ value
    /\ value' = (mode # "AutoReset")
    /\ UNCHANGED <<threadVars, mode>>

\* ... of one that is not ...
WaitEventSleeps(t) ==
    /\ At(t, "guest") /\ ~value
    /\ OSSleepThreadNoLock(t, "event", "event")
    /\ UNCHANGED eventVars

\* ... and its end after the wake-up.  The event is not looked at again.
OSWaitEvent(t) ==
    /\ At(t, "event")
    /\ Goto(t, "guest")
    /\ UNCHANGED <<state, links, eventVars>>

\* OSSignalEvent and OSSignalEventAll of an event nobody waits for.
SignalUnawaited(t) ==
    /\ At(t, "guest") /\ ~value
    /\ links.head["event"] = NoThread
    /\ value' = TRUE
    /\ UNCHANGED <<threadVars, mode>>

\* What a signal that wakes somebody leaves in value.
SignalledValue == value' = (mode # "AutoReset")

\* OSSignalEvent of an event with waiters: one of them goes on, or all.
OSSignalEvent(t) ==
    LET h == links.head["event"] IN
    /\ At(t, "guest") /\ ~value /\ h # NoThread
    /\ SignalledValue
    /\ IF mode = "AutoReset"
       THEN /\ links' = OSPopFrontFromQueue(links, "event")
            /\ state' \in Rescheduled(Woken(state, {h}), t)
       ELSE OSWakeupThreadNoLock(t, "event")
    /\ UNCHANGED <<pc, mode>>

\* OSSignalEventAll of an event with waiters.
OSSignalEventAll(t) ==
    /\ At(t, "guest") /\ ~value /\ links.head["event"] # NoThread
    /\ SignalledValue
    /\ OSWakeupThreadNoLock(t, "event")
    /\ UNCHANGED <<pc, mode>>

OSResetEvent(t) ==
    /\ At(t, "guest")
    /\ value' = FALSE
    /\ UNCHANGED <<threadVars, mode>>

EventNext ==
    \E t \in Thread :
        \/ WaitReturns(t) \/ WaitEventSleeps(t) \/ OSWaitEvent(t)
        \/ SignalUnawaited(t) \/ OSSignalEvent(t) \/ OSSignalEventAll(t)
        \/ OSResetEvent(t)

-----------------------------------------------------------------------------
(* Properties *)

EventTypeOK == mode \in {"ManualReset", "AutoReset"} /\ value \in BOOLEAN

\* Nobody that a wake-up can reach waits for an event that is set.
SetEventWakes == value => Listed(links, "event") = {}

=============================================================================
