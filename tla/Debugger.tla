------------------------------ MODULE Debugger ------------------------------
(* The debugger: the cores ask DebugControl before every instruction        *)
(* whether to stop (debugcontrol.cpp), the debugger thread answers their    *)
(* messages (debugger.cpp) and the network thread obeys the client          *)
(* (debugnet.cpp).  A step is one access of what the threads share; of what *)
(* mMutex protects, only a core's way from its flag into its wait is two,   *)
(* for resumeAll and stepCore do not take the lock.                         *)
EXTENDS Naturals, Sequences, FiniteSets

CONSTANTS Core, NoCore,
          MainCore,         \* the core that loads the game
          LastAddress,      \* the guest code is a loop from 1 to LastAddress
          CallAddress,      \* where its instruction is a branch that links
          MaxPackets        \* bound: packets from the client and lost connections

Address == 1 .. LastAddress

ASSUME DebuggerAssumption ==
    /\ MainCore \in Core /\ NoCore \notin Core
    /\ LastAddress \in Nat \ {0} /\ CallAddress \subseteq Address
    /\ MaxPackets \in Nat

VARIABLES
    waitingForPause, waitingForStep, corePaused,   \* DebugControl
    pc, addr, busy,     \* a core: where it is, its cia (0: none), has a thread
    bpFound,              \* the kind of breakpoint it has found at its cia
    breakpoints,        \* Debugger::mBreakpoints: none, user or temp
    copied,             \* the list a thread is about to swap, or Stale
    messages,           \* Debugger::mMsgQueue
    dbg, dbgMsg,        \* the debugger thread and its message
    net, netPacket,     \* the network thread and its packet
    cleared,            \* the cores whose flag resumeAll's loop has cleared
    told,               \* what the client was last told, and not since undone
    packets,            \* the packets sent and the connections lost
    missed,             \* history: cores the last notify_all found awake
    late,               \* history: cores flagged paused during a release
    checked,            \* history: cores that looked or slept at their cia
    unwoken             \* history: cores past the test of the pause, on their
                        \* way to wait for a thread, as wakeAllCores was called

controlVars == <<waitingForPause, waitingForStep, corePaused>>
coreVars == <<pc, addr, busy, bpFound>>
bpVars == <<breakpoints, copied>>
dbgVars == <<messages, dbg, dbgMsg>>
netVars == <<net, netPacket, cleared, told, packets>>
history == <<missed, late, checked, unwoken>>
debuggerVars == <<controlVars, coreVars, bpVars, dbgVars, netVars, history>>

NoMsg == [type |-> "Invalid"]
NoPacket == [type |-> "Invalid"]
Stale == {}
NoBreakpoints == [a \in Address |-> "none"]

\* core is what the debugger calls by number; the guest code of a core loops.
NextAddress(a) == (a % LastAddress) + 1

InitDebugger ==
    /\ waitingForPause = FALSE
    /\ waitingForStep = NoCore
    /\ corePaused = [c \in Core |-> FALSE]
    /\ pc = [c \in Core |-> IF c = MainCore THEN "preLaunch" ELSE "loop"]
    /\ addr = [c \in Core |-> 0]
    /\ busy = [c \in Core |-> c = MainCore]
    /\ bpFound = [c \in Core |-> "none"]
    /\ breakpoints = NoBreakpoints
    /\ copied = [t \in {"dbg", "net"} |-> Stale]
    /\ messages = <<>>
    /\ dbg = "idle" /\ dbgMsg = NoMsg
    /\ net = "recv" /\ netPacket = NoPacket /\ cleared = {}
    /\ told = "running"
    /\ packets = 0
    /\ missed = {} /\ late = {} /\ checked = {} /\ unwoken = {}

-----------------------------------------------------------------------------
(* What the threads do to one another.                                      *)

\* A core in maybeBreak's and pauseCore's part that stops it.
Pausing == {"sayLaunch", "stepTest", "stepDone", "sayStepped", "sayHit",
            "pause", "lock", "flagged", "asleep", "woken"}
Awake == {c \in Core : pc[c] \in Pausing \ {"asleep"}}

\* mMutex is held from the flag to the wait.
Unlocked == \A c \in Core : pc[c] # "flagged"

Goto(c, where) == pc' = [pc EXCEPT ![c] = where]

notify(msg) == messages' = Append(messages, msg)

\* mReleaseCond.notify_all: the cores asleep in pauseCore wake.  Those that
\* hold a place in pauseCore and are awake miss it.
Release ==
    /\ pc' = [c \in Core |-> IF pc[c] = "asleep" THEN "woken" ELSE pc[c]]
    /\ missed' = Awake \cup IF waitingForPause THEN {} ELSE missed

MutantWakeAllCores == UNCHANGED pc

\* wakeAllCores: idle cores that wait for a thread go round their loop.
wakeAllCores == pc' = [c \in Core |-> IF pc[c] = "idle" THEN "loop" ELSE pc[c]]

\* mWaitCond.notify_all
WakeWaiters ==
    /\ dbg' = IF dbg = "asleep" THEN "check" ELSE dbg
    /\ net' = IF net = "asleep" THEN "check" ELSE net

AllPaused == \A c \in Core : corePaused[c]

-----------------------------------------------------------------------------
(* A core: DebugControl::preLaunch, maybeBreak and pauseCore.               *)

PreLaunch(c) ==
    /\ pc[c] = "preLaunch"
    /\ waitingForPause' = TRUE
    /\ Goto(c, "sayLaunch")
    /\ UNCHANGED <<waitingForStep, corePaused, addr, busy, bpFound, bpVars, dbgVars,
                   netVars, history>>

\* The messages that the cores send before they pause.
Say(c) ==
    /\ \/ pc[c] = "sayLaunch" /\ notify([type |-> "PreLaunch"])
       \/ pc[c] = "sayStepped" /\ notify([type |-> "CoreStepped", core |-> c])
       \/ pc[c] = "sayHit" /\ notify([type |-> "BpHit", core |-> c, addr |-> addr[c],
                                      kind |-> bpFound[c]])
    /\ Goto(c, "pause")
    /\ bpFound' = [bpFound EXCEPT ![c] = "none"]
    /\ UNCHANGED <<controlVars, addr, busy, bpVars, dbg, dbgMsg, netVars, history>>

maybeBreak(c) ==
    /\ pc[c] = "loop"
    /\ Goto(c, IF waitingForPause THEN "stepTest" ELSE "lookUp")
    /\ UNCHANGED <<controlVars, addr, busy, bpFound, bpVars, dbgVars, netVars, history>>

TestStep(c) ==
    /\ pc[c] = "stepTest"
    /\ Goto(c, IF waitingForStep = c THEN "stepDone" ELSE "pause")
    /\ UNCHANGED <<controlVars, addr, busy, bpFound, bpVars, dbgVars, netVars, history>>

StepDone(c) ==
    /\ pc[c] = "stepDone"
    /\ waitingForStep' = NoCore
    /\ Goto(c, "sayStepped")
    /\ UNCHANGED <<waitingForPause, corePaused, addr, busy, bpFound, bpVars, dbgVars,
                   netVars, history>>

\* The core goes on: a core without a thread looks for one.
Leave(c) == Goto(c, IF busy[c] THEN "execute" ELSE "dispatch")

LookUp(c) ==
    /\ pc[c] = "lookUp"
    /\ IF addr[c] # 0 /\ breakpoints[addr[c]] # "none"
       THEN /\ bpFound' = [bpFound EXCEPT ![c] = breakpoints[addr[c]]]
            /\ Goto(c, "hit")
            /\ UNCHANGED checked
       ELSE /\ Leave(c)
            /\ checked' = checked \cup {c}
            /\ UNCHANGED bpFound
    /\ UNCHANGED <<controlVars, addr, busy, bpVars, dbgVars, netVars, missed, late,
                   unwoken>>

\* Another may have paused the game meanwhile: both say that they hit theirs.
Hit(c) ==
    /\ pc[c] = "hit"
    /\ waitingForPause' = TRUE
    /\ Goto(c, "sayHit")
    /\ UNCHANGED <<waitingForStep, corePaused, addr, busy, bpFound, bpVars, dbgVars,
                   netVars, history>>

WhilePause(c) ==
    /\ pc[c] = "pause"
    /\ IF waitingForPause THEN Goto(c, "lock") ELSE Leave(c)
    /\ UNCHANGED <<controlVars, addr, busy, bpFound, bpVars, dbgVars, netVars, history>>

\* A release of the core has cleared its flag, and has not come to its end.
Releasing(c) == \/ net = "clear" /\ c \in cleared
                \/ net \in {"resume", "release"}
                \/ net \in {"stepStore", "stepRelease"} /\ netPacket.core = c

PauseCore(c) ==
    /\ pc[c] = "lock" /\ Unlocked
    /\ corePaused' = [corePaused EXCEPT ![c] = TRUE]
    /\ WakeWaiters
    /\ Goto(c, "flagged")
    /\ late' = IF Releasing(c) \/ ~waitingForPause THEN late \cup {c} ELSE late \ {c}
    /\ UNCHANGED <<waitingForPause, waitingForStep, addr, busy, bpFound, bpVars, messages,
                   dbgMsg, netPacket, cleared, told, packets, missed, checked, unwoken>>

\* mReleaseCond.wait gives the lock up.
Sleep(c) ==
    /\ pc[c] = "flagged"
    /\ Goto(c, "asleep")
    /\ checked' = checked \cup {c}
    /\ UNCHANGED <<controlVars, addr, busy, bpFound, bpVars, dbgVars, netVars, missed,
                   late, unwoken>>

MutantWoken(c) ==
    /\ pc[c] = "woken" /\ Unlocked
    /\ Leave(c)
    /\ UNCHANGED <<controlVars, addr, busy, bpFound, bpVars, dbgVars, netVars, history>>

Woken(c) ==
    /\ pc[c] = "woken" /\ Unlocked
    /\ IF waitingForStep = c THEN Leave(c) ELSE Goto(c, "pause")
    /\ UNCHANGED <<controlVars, addr, busy, bpFound, bpVars, dbgVars, netVars, history>>

\* The instruction runs.  It may be one that makes a thread for another core,
\* which wakes the cores.
Execute(c) ==
    /\ pc[c] = "execute"
    /\ addr' = [addr EXCEPT ![c] = IF @ = 0 THEN 1 ELSE NextAddress(@)]
    /\ \/ /\ Goto(c, "loop")
          /\ UNCHANGED busy
       \/ \E d \in Core :
             /\ ~busy[d]
             /\ busy' = [busy EXCEPT ![d] = TRUE]
             /\ pc' = [e \in Core |-> IF e = c \/ pc[e] = "idle" THEN "loop"
                                      ELSE pc[e]]
    /\ checked' = checked \ {c}
    /\ UNCHANGED <<controlVars, bpFound, bpVars, dbgVars, netVars, missed, late, unwoken>>

\* coreEntryPoint finds a thread, or waits for one.  (Interrupts, which wake the
\* cores too, are left out.)
Dispatch(c) ==
    /\ pc[c] = "dispatch"
    /\ Goto(c, IF busy[c] THEN "execute" ELSE "idle")
    /\ UNCHANGED <<controlVars, addr, busy, bpFound, bpVars, dbgVars, netVars, history>>

CoreStep(c) ==
    \/ PreLaunch(c) \/ maybeBreak(c) \/ TestStep(c) \/ StepDone(c) \/ LookUp(c)
    \/ Hit(c) \/ Say(c) \/ WhilePause(c) \/ PauseCore(c) \/ Sleep(c) \/ Woken(c)
    \/ Execute(c) \/ Dispatch(c)

-----------------------------------------------------------------------------
(* The debugger thread: debugThread and handleMessage.                      *)

\* A packet reaches the client that is there.
Tell(what) == told' = IF net = "off" THEN told ELSE what

debugThread ==
    /\ dbg = "idle" /\ messages # <<>>
    /\ dbgMsg' = Head(messages)
    /\ messages' = Tail(messages)
    /\ dbg' = IF Head(messages).type = "DebuggerDc" THEN "pauseAll" ELSE "check"
    /\ UNCHANGED <<controlVars, coreVars, bpVars, netVars, history>>

DbgPauseAll ==
    /\ dbg = "pauseAll"
    /\ waitingForPause' = TRUE
    /\ dbg' = "check"
    /\ UNCHANGED <<waitingForStep, corePaused, coreVars, bpVars, messages, dbgMsg,
                   netVars, history>>

IsTemporary == dbgMsg.type = "BpHit" /\ dbgMsg.kind = "temp"

\* waitForAllPaused, one turn of its loop; cores that wait for a thread go
\* round theirs and pause.
DbgWait ==
    /\ dbg = "check" /\ Unlocked
    /\ IF AllPaused
       THEN /\ dbg' = CASE dbgMsg.type = "DebuggerDc" -> "connect"
                        [] IsTemporary -> "copy"
                        [] OTHER -> "write"
            /\ UNCHANGED pc
       ELSE /\ dbg' = "asleep"
            /\ wakeAllCores
    /\ UNCHANGED <<controlVars, addr, busy, bpFound, bpVars, messages, dbgMsg, netVars,
                   history>>

DbgWrite ==
    /\ dbg = "write"
    /\ Tell("paused")
    /\ dbg' = "idle" /\ dbgMsg' = NoMsg
    /\ UNCHANGED <<controlVars, coreVars, bpVars, messages, net, netPacket, cleared, packets,
                   history>>

\* DebugNet::connect succeeds and a new network thread starts.
Connect ==
    /\ dbg = "connect"
    /\ net' = "recv" /\ told' = "paused"
    /\ dbg' = "idle" /\ dbgMsg' = NoMsg
    /\ UNCHANGED <<controlVars, coreVars, bpVars, messages, netPacket, cleared, packets,
                   history>>

\* addBreakpoint and removeBreakpoint: copy the list, change the copy, and
\* swap it in unless the list has been swapped meanwhile.
Copy(t) == copied' = [copied EXCEPT ![t] = {breakpoints}]

Without(list, a) == [list EXCEPT ![a] = "none"]

\* std::map::emplace leaves an entry that is there.
With(list, a, kind) == [list EXCEPT ![a] = IF @ = "none" THEN kind ELSE @]

MutantSwap(t, edited) ==
    /\ breakpoints' \in edited
    /\ copied' = [copied EXCEPT ![t] = Stale]

Swap(t, edited) ==
    IF copied[t] = Stale THEN UNCHANGED bpVars
    ELSE /\ breakpoints' \in edited
         /\ copied' = [u \in DOMAIN copied |-> Stale]

DbgCopy ==
    /\ dbg = "copy"
    /\ Copy("dbg")
    /\ dbg' = "swap"
    /\ UNCHANGED <<controlVars, coreVars, breakpoints, messages, dbgMsg, netVars, history>>

DbgSwap ==
    /\ dbg = "swap"
    /\ Swap("dbg", {Without(list, dbgMsg.addr) : list \in copied["dbg"]})
    /\ dbg' = IF copied["dbg"] = Stale THEN "copy" ELSE "write"
    /\ UNCHANGED <<controlVars, coreVars, messages, dbgMsg, netVars, history>>

DbgStep == debugThread \/ DbgPauseAll \/ DbgWait \/ DbgWrite \/ Connect \/ DbgCopy \/ DbgSwap

-----------------------------------------------------------------------------
(* The network thread and its client.  The client sends what makes sense to *)
(* it: it resumes and steps a game it was told is paused.                   *)

Packet(type, c, a) == [type |-> type, core |-> c, addr |-> a]

Receive(packet, where) ==
    /\ net = "recv" /\ packets < MaxPackets
    /\ packets' = packets + 1
    /\ netPacket' = packet
    /\ net' = where

EditBreakpoints ==
    /\ \E type \in {"AddBreakpoint", "RemoveBreakpoint"}, a \in Address :
          Receive(Packet(type, NoCore, a), "copy")
    /\ UNCHANGED <<controlVars, coreVars, bpVars, dbgVars, cleared, told,
                   history>>

Pause ==
    /\ Receive(Packet("Pause", NoCore, 0), "check")
    /\ waitingForPause' = TRUE
    /\ UNCHANGED <<waitingForStep, corePaused, coreVars, bpVars, dbgVars, cleared, told,
                   history>>

Resume ==
    /\ told = "paused"
    /\ Receive(Packet("Resume", NoCore, 0), "clear")
    /\ told' = "running"
    /\ UNCHANGED <<controlVars, coreVars, bpVars, dbgVars, cleared, history>>

StepCore ==
    /\ told = "paused"
    /\ \E c \in Core : Receive(Packet("StepCore", c, 0), "step")
    /\ told' = "stepping"
    /\ UNCHANGED <<controlVars, coreVars, bpVars, dbgVars, cleared, history>>

\* A step over a call is a breakpoint after it and a resume; a core that has
\* no thread is not stepped, and nobody is told.
StepCoreOver ==
    /\ told = "paused"
    /\ \E c \in Core :
          Receive(Packet("StepCoreOver", c, addr[c]),
                  CASE ~busy[c] -> "recv"
                    [] addr[c] \in CallAddress -> "copy"
                    [] OTHER -> "step")
    /\ told' = "stepping"
    /\ UNCHANGED <<controlVars, coreVars, bpVars, dbgVars, cleared, history>>

\* The cores that may come to wait for a thread before they test the pause again.
PastTest == {c \in Core : \/ pc[c] \in {"lookUp", "dispatch"}
                          \/ pc[c] = "woken" /\ waitingForStep = c}

NetWait ==
    /\ net = "check" /\ Unlocked
    /\ IF AllPaused
       THEN net' = "write" /\ UNCHANGED <<pc, unwoken>>
       ELSE net' = "asleep" /\ wakeAllCores /\ unwoken' = PastTest
    /\ UNCHANGED <<controlVars, addr, busy, bpFound, bpVars, dbgVars, netPacket, cleared,
                   told, packets, missed, late, checked>>

NetWrite ==
    /\ net = "write"
    /\ Tell("paused")
    /\ net' = "recv"
    /\ unwoken' = {}
    /\ UNCHANGED <<controlVars, coreVars, bpVars, dbgVars, netPacket, cleared, packets,
                   missed, late, checked>>

NetCopy ==
    /\ net = "copy"
    /\ Copy("net")
    /\ net' = "swap"
    /\ UNCHANGED <<controlVars, coreVars, breakpoints, dbgVars, netPacket, cleared,
                   told, packets, history>>

Edited(list) ==
    CASE netPacket.type = "AddBreakpoint" -> With(list, netPacket.addr, "user")
      [] netPacket.type = "RemoveBreakpoint" -> Without(list, netPacket.addr)
      [] OTHER -> With(list, NextAddress(netPacket.addr), "temp")

NetSwap ==
    /\ net = "swap"
    /\ Swap("net", {Edited(list) : list \in copied["net"]})
    /\ net' = CASE copied["net"] = Stale -> "copy"
                [] netPacket.type = "StepCoreOver" -> "clear"
                [] OTHER -> "recv"
    /\ UNCHANGED <<controlVars, coreVars, dbgVars, netPacket, cleared, told, packets,
                   history>>

\* resumeAll takes no lock: it clears the flags one by one (the code by number),
\* then stops the waiting, then wakes the cores.
ResumeClear ==
    /\ net = "clear"
    /\ \E c \in Core \ cleared :
          /\ corePaused' = [corePaused EXCEPT ![c] = FALSE]
          /\ cleared' = cleared \cup {c}
    /\ net' = IF cleared' = Core THEN "resume" ELSE "clear"
    /\ UNCHANGED <<waitingForPause, waitingForStep, coreVars, bpVars, dbgVars,
                   netPacket, told, packets, history>>

ResumeStore ==
    /\ net = "resume"
    /\ waitingForPause' = FALSE
    /\ missed' = Awake
    /\ checked' = checked \cup Awake
    /\ cleared' = {}
    /\ net' = "release"
    /\ UNCHANGED <<waitingForStep, corePaused, coreVars, bpVars, dbgVars,
                   netPacket, told, packets, late, unwoken>>

\* DebugControl::stepCore takes no lock either.
StepClear ==
    /\ net = "step"
    /\ corePaused' = [corePaused EXCEPT ![netPacket.core] = FALSE]
    /\ net' = "stepStore"
    /\ UNCHANGED <<waitingForPause, waitingForStep, coreVars, bpVars, dbgVars,
                   netPacket, cleared, told, packets, history>>

StepStore ==
    /\ net = "stepStore"
    /\ waitingForStep' = netPacket.core
    /\ net' = "stepRelease"
    /\ UNCHANGED <<waitingForPause, corePaused, coreVars, bpVars, dbgVars, netPacket,
                   cleared, told, packets, history>>

NetRelease ==
    /\ net \in {"release", "stepRelease"}
    /\ Release
    /\ net' = "recv"
    /\ UNCHANGED <<controlVars, addr, busy, bpFound, bpVars, dbgVars, netPacket, cleared,
                   told, packets, late, checked, unwoken>>

\* recv fails: handleDisconnect, and the thread ends.
Disconnect ==
    /\ net = "recv" /\ packets < MaxPackets
    /\ packets' = packets + 1
    /\ net' = "off" /\ told' = "gone"
    /\ notify([type |-> "DebuggerDc"])
    /\ UNCHANGED <<controlVars, coreVars, bpVars, dbg, dbgMsg, netPacket, cleared,
                   history>>

NetStep == \/ NetWait \/ NetWrite \/ NetCopy \/ NetSwap \/ ResumeClear
           \/ ResumeStore \/ StepClear \/ StepStore \/ NetRelease

ClientStep == \/ EditBreakpoints \/ Pause \/ Resume \/ StepCore \/ StepCoreOver
              \/ Disconnect

NextDebugger == (\E c \in Core : CoreStep(c)) \/ DbgStep \/ NetStep \/ ClientStep

SpecDebugger == InitDebugger /\ [][NextDebugger]_debuggerVars

-----------------------------------------------------------------------------
(* Correctness.                                                             *)

Stopped(c) == pc[c] \in Pausing

\* resumeAll and the cores it wakes share no lock.  A core sleeps on in a game
\* that runs only when it was still on its way into pauseCore's wait while
\* resumeAll told the others (debugcontrol.cpp:38, :77).
ResumeHeard ==
    \A c \in Core :
        /\ ~waitingForPause /\ net \notin {"resume", "release"}
        /\ pc[c] = "asleep"
        => c \in missed

\* The same of a step: when the client waits for one that nobody will report,
\* the core was awake in pauseCore as stepCore called it (debugcontrol.cpp:46).
StepHeard ==
    \A c \in Core :
        /\ waitingForStep = c /\ pc[c] = "asleep"
        /\ netPacket.type = "StepCore" /\ net = "recv"
        /\ told = "stepping" /\ dbg = "idle" /\ messages = <<>>
        => c \in missed

\* A core whose flag says that it is paused is: waitForAllPaused reports a game
\* that stands still.  A core that sets its flag when resumeAll or stepCore has
\* cleared it, and before they wake it, runs with it (debugcontrol.cpp:33, :44,
\* :74).
FlagsTrue == \A c \in Core : corePaused[c] /\ ~Stopped(c) => c \in late

\* A core that sleeps is flagged, for waitForAllPaused to see, but for one that
\* resumeAll or stepCore found between its flag and its wait.
SleepersFlagged ==
    \A c \in Core : pc[c] = "asleep" /\ net = "recv" => corePaused[c] \/ c \in missed

\* No core runs an instruction of the guest without having looked for a
\* breakpoint there or having slept there, for the client to see it; but for
\* those that resumeAll finds between the two (debugcontrol.cpp:105, :70).
ChecksBeforeRunning ==
    \A c \in Core : pc[c] = "execute" /\ addr[c] # 0 => c \in checked

\* What the client tells the cores reaches them, but for those that were
\* between looking at a flag and sleeping; what they say of themselves is true,
\* and they run nothing that was not looked at.
CommandsAreHeard ==
    ResumeHeard /\ StepHeard /\ FlagsTrue /\ SleepersFlagged /\ ChecksBeforeRunning

\* The breakpoints are edited by both threads; whatever they overlap, a swap
\* changes one address of the list there is (debugger.cpp:172, :194).
OneEditAtATime ==
    [][Cardinality({a \in Address : breakpoints'[a] # breakpoints[a]}) <= 1]_debuggerVars

\* The cores that keep a Pause from its answer: one without a thread that was
\* on its way to wait for one, where wakeAllCores does not reach it
\* (debugcontrol.cpp:63, processor.cpp:108); and one that a release found
\* between its flag and its wait, which sleeps with its flag cleared
\* (debugcontrol.cpp:33, :44, :77).
Unreached == {c \in Core : \/ pc[c] = "idle" /\ c \in unwoken
                           \/ pc[c] = "asleep" /\ ~corePaused[c] /\ c \in missed}

\* A Pause is answered, unless one of those is there.
PauseEnds == (net = "check") ~> (net = "write" \/ Unreached # {})

=============================================================================
