# A TLA+ verification of wiiu-emu

wiiu-emu (later decaf) runs Wii U programs on a PC.  Three host threads play
the three PowerPC cores; the game's threads are Windows fibers that those host
threads switch between; and the kernel the game calls, `coreinit`, is
reimplemented in C++ together with the other system libraries.  This directory
holds a TLA+ development of it: the fiber scheduler and the kernel's threads,
locks and alarms, the allocators and files that games call, the emulated
processor's instructions as an interpreter and as a recompiler, and the debugger,
the loader and the GPU's decoders around them.

Paths below are relative to the repository, whose C++ lives under `src/src`.

## 1. Inventory

### 1.1 Parts, their state and how they interact

| Part | Source | State | Operations | Modules |
|---|---|---|---|---|
| Core scheduler | `processor.cpp`, `processor.h` | run queue `mFiberQueue`, `mFiberList`, per core `currentFiber`, `interruptedFiber`, `interruptHandlerFiber`, `interrupt`, `nextInterrupt`, `mFiberDeleteList`; `mMutex`, `mCondition`, `mTimerMutex` | `coreEntryPoint`, `reschedule`, `yield`, `exit`, `queue`, `createFiber`, `destroyFiber`, `timerEntryPoint`, `handleInterrupt`, `waitFirstInterrupt`, `finishInterrupt` | `Processor` |
| Kernel scheduling | `coreinit_scheduler.cpp` | `gSchedulerLock`, a non-recursive spin lock; every `OSThread`'s `state`, `suspendCounter`, `queue` | sleep, wake, suspend, resume, test for cancellation, interrupt threads | `Processor`, `ThreadQueue`, `ThreadLife` |
| Threads | `coreinit_thread.cpp` | `OSThread` | create, run, exit, join, detach, cancel, suspend, resume, sleep, sleep for a time, priority, affinity | `Processor`, `ThreadLife` |
| Thread queues | `coreinit_threadqueue.cpp`, `coreinit_queue.h` | intrusive doubly linked lists | insert by priority, erase, pop, clear | `ThreadQueue` |
| Mutex, condition variable | `coreinit_mutex.cpp` | owner, count, waiters | lock, try, unlock, wait, signal | `Mutex` |
| Event | `coreinit_event.cpp` | value, mode, waiters | signal, signal all, reset, wait, wait with timeout | `Event`, `Alarm` |
| Message queue | `coreinit_messagequeue.cpp` | ring of messages, two wait queues | send, jam, receive, peek | `MessageQueue` |
| Semaphore | `coreinit_semaphore.cpp` | count, waiters | wait, try, signal | `Semaphore` |
| Guest spin lock | `coreinit_spinlock.cpp` | owner, recursion | acquire, try, release | `SpinLock` |
| Alarms | `coreinit_alarm.cpp` | a list per core, `gAlarmLock` | set, cancel, wait, `OSCheckAlarms` | `Alarm` |
| Heaps | `coreinit_expheap.cpp`, `_frameheap.cpp`, `teenyheap.h` | block lists and states in guest memory, or beside it | allocate, free, resize, adjust, record and free states | `ExpHeap`, `FrameHeap`, `TeenyHeap` |
| Memory lists, heap registry | `coreinit_memlist.cpp`, `_memheap.cpp` | lists linked through objects; a list of heaps per region | append, prepend, insert, remove, find the containing heap | `HeapRegistry` |
| Files | `coreinit_fs*.cpp`, `filesystem/` | per client handle tables, a tree of mounted nodes | open, read, seek, close, list | `Files` |
| Interpreter | `cpu/interpreter/`, `cpu/cpu.cpp`, `state.h`, `bitutils.h` | registers, memory, reservation | one handler per instruction | `Machine`, `Interpreter`, `FloatUnit`, `Reservation` |
| Recompiler | `cpu/jit/` | map of code blocks | find a block's end, generate, enter, leave; one emitter per instruction | `JitBlocks`, `Jit` |
| Instruction table, disassembler | `cpu/instructiontable.cpp`, `disassembler.cpp` | a tree of fields | encode, decode, aliases, text | `InstructionTable`, `Disassembler` |
| Tracer | `trace.cpp` | a ring of traces per thread | before and after each instruction, search, print | `Tracer`, `TraceRing` |
| Debugger | `debugcontrol.cpp`, `debugger.cpp`, `debugnet.cpp` | pause flags, message queue, breakpoints, socket | pause, step, resume, breakpoints, packets | `Debugger`, `DebugNet` |
| Loader | `loader.cpp`, `elf.cpp`, `coreinit_dynload.cpp` | loaded modules, symbols, thunks, memory given out | load, import, export, relocate | `Loader` |
| GPU decoders | `gpu/latte_tiling.cpp`, `latte_decoder.cpp`, `latte_blockify.cpp` | a surface, a shader | untile, decode control flow, divide into blocks | `Tiling`, `Blockify` |
| Everything else | GX2, Direct3D, HLSL text, other system libraries | see section 7 | | |

A guest thread calls a kernel function on the host thread that executes it.
The function takes `gSchedulerLock`, changes `OSThread` fields and wait queues,
and calls `Processor::queue` (which takes `mMutex`, inserts the fiber and
notifies every core) or `Processor::reschedule` (which may put the caller's
fiber back in the run queue, drop both locks and switch to the primary fiber of
the core).  The primary fiber looks in the run queue, runs what it finds, or
waits on `mCondition`.  A timer thread raises a flag per core; guest code polls
the flag before every instruction and switches to the core's interrupt fiber,
which runs `OSCheckAlarms` and switches back.  In the same place guest code asks
the debugger whether to stop; a core that stops tells the debugger's thread, and
waits on a condition variable of `DebugControl` until that thread, or the thread
of the network connection, resumes it.

### 1.2 What is hard here

* Two locks that do not nest in one order everywhere, one of them dropped in the
  middle of a function, between queueing a fiber and leaving it.
* State read on one host thread and used after another has changed it: the
  current fiber of an idle core, a run-queue entry, an interrupt flag.
* Wake-ups that can be lost: `mCondition` has several sources of events, and
  some of them write without `mMutex`; `DebugControl` notifies without its mutex.
* Sequences of legal kernel calls that corrupt a list or strand a waiter.
* Alarms, which run guest callbacks inside an interrupt, with locks held, and
  whose memory is freed by the threads that they wake.
* Allocators that keep their bookkeeping in the memory they hand out, with sizes
  that are unsigned and differences that are not.
* The same instruction written twice, once in C++ and once as emitted x86 code,
  and described a third time by the table that the tracer and the disassembler
  read.
* Loads of libraries that import each other, by several threads, with no lock.

`PROJECT.json` lists each hazard at its line, with the property that covers it.

### 1.3 What makes each part correct

* Scheduler: every Ready thread is in the run queue or about to be; a core waits
  only when it has nothing to run; a fiber is executed by one core at a time;
  the most important thread runs first; interrupts give back what they took.
* Threads: who runs is not suspended; suspenders and joiners are told when what
  they wait for happens.
* Synchronisation: mutual exclusion, no lost wake-ups, first-in first-out
  delivery, implementation of an abstract bounded queue.
* Alarms: one that is set is found by the interrupt that is due.
* Allocators: blocks do not overlap, stay inside the heap, and free space is not
  lost; a size that is reported can be allocated.
* Files: a handle names the file it was opened for until it is closed.
* Instructions: the interpreter computes what the operation means, the
  recompiler what the interpreter computes, and a trace can undo it.
* Debugger: what the client says reaches the cores, and a pause ends.
* Loader: every relocated place reaches what its symbol denotes.
* GPU: every element is read once; a shader in blocks is the shader.

## 2. The modules

| Module | Models |
|---|---|
| `Processor`, `MCProcessor` | the core scheduler with the kernel calls that drive it; its instances |
| `ProcessorProofs` | theorems about it |
| `ThreadQueue` | intrusive wait queues, sleeping and waking |
| `Mutex`, `Semaphore`, `MessageQueue`, `Event` | one synchronisation object each, over `ThreadQueue` |
| `BoundedDeque` | what a message queue promises |
| `Sync`, `MCSync` | the objects together, sharing the threads and their links; their instance |
| `ThreadQueueProofs`, `SyncProofs` | lemmas about wait queues; theorems about the objects |
| `ThreadLife` | creation, suspension, cancellation, join, detach, exit and re-use of threads |
| `Alarm` | alarms, timed waits, the interrupts of the cores and the two locks they take |
| `SpinLock` | `OSSpinLock` access by access |
| `Kernel`, `MCKernel` | the three above over the wait queues of `ThreadQueue`; their instance |
| `KernelProofs` | theorems about threads, alarms, the two locks and the spin lock |
| `ExpHeap`, `FrameHeap`, `TeenyHeap`, `HeapRegistry` | the allocators, the memory lists and the registry of heaps |
| `JitBlocks`, `Reservation`, `Files` | the recompiler's cache, `lwarx` and `stwcx.`, the guest's files |
| `Library`, `MCLibrary` | the seven above; their instance |
| `Machine` | words, registers, memory and CR of the emulated processor |
| `Interpreter`, `FloatUnit` | its instructions as the interpreter executes them |
| `Jit` | its instructions as the recompiler's code executes them |
| `Tracer` | what a trace records of an instruction and puts back |
| `FuzzTests`, `FloatTests` | the machine that runs them one at a time, with its instance |
| `InstructionTable`, `Disassembler`, `TraceRing` | decoding, text, and the ring of traces |
| `Debugger`, `DebugNet` | the cores' stops and the threads that govern them; the packets of the connection |
| `Loader`, `Tiling`, `Blockify` | libraries, surfaces, shaders |
| `Tools`, `MCTools` | the seven above; their instance |
| `PartProofs` | theorems about `Reservation`, `DebugNet`, `FrameHeap`, `Debugger`, `Files`, `TraceRing`, `HeapRegistry`, `JitBlocks` and `Loader` |

`Library`, `Tools` and, with sets of calls, `Kernel` and `Sync` compose parts
that share no state, or only wait queues: the initial state picks the part a
behaviour uses, so that the states of the parts add up and do not multiply.

### 2.1 Processor: state and steps

A fiber is named by the `OSThread` it runs, because a thread gets at most one
fiber in this model.  The variables carry the names of the fields of
`Processor`, `Core`, `Fiber` and `OSThread`.  Those that have no name in the
code are

* `executing[c]`: the fiber host thread `c` really executes, `NoFiber` while it
  executes its primary fiber.  `Core::currentFiber` is what the code believes;
* `pc[c]`: where that host thread is.  `"loop"`, `"sleep"`, `"cond"` are
  `coreEntryPoint`; `"guest"` is guest code; the others lie inside a kernel call
  or the interrupt thread; `"crash"` is undefined behaviour (a null fiber is
  dereferenced, or an exiting fiber returns to another core's primary fiber);
* `context[f]`: where fiber `f` goes on when it is switched to;
* `target[c]`: the thread a call is about; `waiters`: threads asleep on the
  game's `OSThreadQueue`, as a set (`ThreadQueue` has the list); `alarms[c]`:
  threads whose sleep alarm is in core `c`'s list; `interruptCount`: a bound.

A step ends where another host thread can see or change something the code
goes on to use: at the end of a critical section of `mMutex`, after a write of
`OSThread::state` that is not under `mMutex`, and at a fiber switch.  So
`reschedule` is three steps: the decision and the queueing under `mMutex`
(`RescheduleReturn`, `RescheduleLeave`), the switch (`SwitchToPrimary`), and the
re-acquisition of the scheduler lock (`Relock`).  A wake-up is two: `Ready` is
written under `gSchedulerLock`, then `queue` takes `mMutex`.  `mMutex` needs no
variable of its own: only a core between its last look and
`mCondition.wait` (`pc = "sleep"`) holds it across steps.

`std::upper_bound` on a queue that is not sorted (which `OSSetThreadPriority`
can leave) has no specified result; `UpperBound` is then the set of every place
whose neighbours agree with the comparison, and the step chooses one.

| Code | Actions |
|---|---|
| `coreEntryPoint` | `Dispatch`, `IdleInterrupt`, `DecideToWait`, `Wait` |
| `reschedule`, `yield` | `RescheduleReturn`, `RescheduleLeave`, `OSYieldThread`, `SwitchToPrimary`, `Relock` |
| `queue` | `Queue`, in `QueueWoken`, `QueueResumed`, `QueueSleeper` and `Leave` |
| `exit`, `destroyFiber`, `OSExitThread` | `OSExitThread`, `Exit` |
| `handleInterrupt`, `waitFirstInterrupt`, `finishInterrupt` | `HandleInterrupt`, `WaitFirstInterrupt`, `FinishInterrupt` |
| `timerEntryPoint`, `OSCheckAlarms`, `SleepAlarmHandler` | `TimerFires`, `TriggerAlarm`, `SleepAlarmHandler`, `QueueSleeper`, `AlarmsChecked` |
| thread calls | `OSRunThread`, `OSSleepThread`, `OSSleepTicks`, `OSWakeupOneThread`, `OSSuspendThread`, `OSResumeThread`, `OSSetThreadPriority`, `OSSetThreadAffinity` |

Abstracted: spurious returns from `mCondition.wait` (they only make a core look
again); a thread runs once (a second `OSRunThread` after its exit is not
modelled); an exited thread's entry in the run queue is readable and says
`Moribund`, as freed memory may; `peekNextFiberNoLock` reads all thread states
at one moment although they are written under another lock; `setInterrupt`,
which nothing calls; alarm lists, `gAlarmLock` and the memory of alarms.

### 2.2 ThreadQueue and the synchronisation objects

`links` holds `head` and `tail` of every `OSThreadQueue` and `next` and `prev`
of every thread.  A thread has one link for all queues, which is why the objects
must be checked together.  The operators on it (`OSInsertThreadQueue`,
`OSClearQueue`, `OSPopFrontFromQueue`) assign just what the code assigns, so a
badly linked thread stays badly linked: a thread inserted before the head is in
nobody's `next`.  `Listed(links, q)` is what a loop from `head` visits.  A waiter
that is in its queue and is not visited is `Lost`.  `NobodyForgotten` says of every
step that a waiter is lost in it only when that step inserts one before the head
of the waiter's queue (`PutBeforeHead`), which the code gets wrong
(`coreinit_threadqueue.cpp:45-67`), besides what each object owes to those who are
not lost.

A kernel call is a critical section of `gSchedulerLock`, so it is one step up to
the place where `reschedule` can take the thread off its core.  Which core runs
what is abstracted: a thread that reschedules keeps its core or becomes Ready
(`Rescheduled`), and a Ready thread is dispatched at any time (`Dispatch`).
Every behaviour of the scheduler is among these as far as the objects can see
it, for threads each pinned to one core (for others `SchedDoubleRun` shows that
the scheduler itself fails).  A call that waits in a `while` loop is two
actions, both enabled at the start of the call and at `pc` after a sleep: one
sleeps (`LockSleeps`, `WaitSleeps`, `SendSleeps`, `ReceiveSleeps`), the other
succeeds.  A try or non-blocking call does what the second does, or nothing, so
it has no action of its own.

`OSWaitCond` unlocks through `OSUnlockMutexNoLock`, which reschedules: the
thread goes on to sleep in the same critical section, or is off its core, with
the lock free, at `"condSleep"`.

`Mutex` has a history variable, `depth`: how often each thread has locked and not
unlocked, which the guest knows and the kernel does not.  Guests unlock, and wait
on a condition, only as owners (the code asserts it).  `cancelState` is 0, as
after `OSCreateThread`, so `OSTestThreadCancelNoLock` does nothing.  The list of
mutexes per thread (`OSThread::mutexQueue`) is written and never read and is left
out.

`MessageQueue!ImplementsDeque` is the refinement: with `deque` read off the ring
(`messages[(first + i - 1) % size]` for `i` up to `used`) every step is a step of
`BoundedDeque` or leaves it alone.

A timed wait on an event is in `Alarm`, over the same module `Event`, because its
timeout is an alarm.

### 2.3 ThreadLife, Alarm and SpinLock

`ThreadLife` gives each thread a queue of its joiners and one of its suspenders
(`joinQueue`, `suspendQueue`), `cancelState`, `requestFlag`, `needSuspend`, and the
fiber it has or not.  `OSSuspendThread` of another thread sets a request that the
target honours in `OSTestThreadCancelNoLock`, which every unlock of the scheduler
makes; a step ends where that test has rescheduled.  The property
`SuspendersCounted` has the exceptions the code has: `OSCancelThread` clears
`suspendCounter` after it has rescheduled, and `suspendQueue` loses suspenders like
any queue, so that the counter is its length while it has lost none and never
less.  `EndsAreSeen` says of every step that nobody comes to wait beyond the reach
of a wake-up but by a refused suspension (`coreinit_scheduler.cpp:145`) or by an
insertion before a head.

`Alarm` has the two locks as variables where their holder waits for the other
(`gAlarmLock` a core in `OSCheckAlarms` or a thread in the loop of
`OSCancelAlarms`, which is a step per alarm; `schedLock` a thread in a timed wait
or in `OSWaitAlarm`).  Every interrupt is a step per alarm: `OSTriggerAlarmNoLock`
runs the callback between reading `alarm->next` and using it.  A timed wait
allocates the block that the thread's last one freed, so a block's memory has
the thread's name, and a freed block stays linked where it was.  The history
variables `reused` and `abandoned` say which misuse made a list wrong; `broken`
stops what dereferences null.  `AlarmsComeTrue` holds until one of those, and
`BreaksByMisuse` says there are no other ways for it to break.

`SpinLock` has one step per access of the atomic `owner`, so a release by a
thread that is not the owner can come between any two.

### 2.4 The library

`ExpHeap` keeps a header at each address where the code writes one, also after
its block has gone: links are read from memory that was freed and merged.  A
header that is laid over part of an old one destroys its links, as when a block
grows in place by less than a header (`coreinit_expheap.cpp:438-442`).
`FrameHeap` takes its unsigned differences modulo a bound.  `TeenyHeap` has the
test that never succeeds (`teenyheap.h:44`), and the empty free ranges it leaves.
`HeapRegistry` compares the list with the sequence a client believes it holds, and
names the branch that first made them differ (`wrong`): the branches for a list
of one object are in the code wrong, and `ListIsModel` says that only they are.
Of the registered heaps of a region it remembers the oldest and the newest, which
are those that the list keeps through any creations and destructions.
`JitBlocks` runs guest programs of four instructions (branches and calls, with and
without a condition, to an address, to LR and to CTR) through blocks found by
`identBlock` and compares the path with the program; what the guest stores over
its own code is not seen, since `clearCache` is called by the tests only.
A program's `bclr` does not link: of one that does, the interpreter and the
compiled code make different things (section 2.5).
In `Reservation` threads of one core change places between instructions, those of
different cores between any two accesses to memory, so that `stwcx.`'s comparison
and its store are two steps; `crossed` counts the stores that were made while a
thread of another core stood between the two.
`Files` puts nodes in the tree as paths are looked up, on a disk that finds
names whatever their case; a folder keeps where its search of the disk stands,
which every handle of it moves.

### 2.5 Instructions

A state is a record of registers and memory; an instruction a record of fields.
`Machine` has words of `Width` bits with the operations of `bitutils.h`;
`Interpreter` and `Jit` have one operator per generic function of the source,
with its template flags as arguments, and a table that gives every instruction
its flags.  `FuzzTests` picks an instruction and operands in one step and runs
both in the next, as `fuzztests.cpp` does; three properties are read off the
two results:

* `InterpreterExact`: sums, products, quotients, shifts, rotates, carries,
  overflows and compares are those of the integers the words stand for; the
  logical operations and those of CR are those of each bit; a load returns what
  was stored, also through `lmw` and `stmw`.  A right shift by up to twice the width
  divides by a power of two and sets the carry when a bit of a negative number is
  lost, except `sraw` by the width or more, which shifts by the amount's low bits
  alone (section 3.3).
* `JitMatchesInterp`: the recompiler's code leaves the same registers and
  memory, except in the cases that `Diverges` lists: `eqv`, `mcrf`, `mcrxr`, CR0
  of `mulhw` and `mulhwu`, overflow of additions with `oe`, `addic.`, `neg` of the
  least word, shifts by more than a word, `srawi` by 0, compares with SO set,
  `mfspr` of a GQR, `bc` with `aa`, `bclr` with `lk`.
* `TraceUndoes`: a trace's values before the instruction restore the state,
  except for the parts that `Unrecorded` lists (the carry, some writes of CR,
  `lswi` and `lswx`, `mtsr`, `mtmsr`, `mcrxr`), which the table does not name.

`FloatUnit` takes a double to be a sign and a number of units, or one of the
special values: what the handlers decide (NaN propagation, invalid operations,
status bits, classes, order) is kept, the rounding of the host is not.  Single
precision keeps its narrower range (`MinSingle`, `MaxSingle`): a number beyond it
becomes infinite or zero and raises the host's flags.  `PsqRoundTrip` states the
exact value that a quantized store and load give back, with what the code does to
it (section 3.3).
`FloatTests` carries FPSCR, CR and the host's exception flags, which nothing
clears, from one instruction to the next.

### 2.6 The tools

`Debugger` has four kinds of thread: the cores, the debugger's thread, the
network's thread and the client.  A step is one access of what they share: each
load and store of `mWaitingForPause` and `mWaitingForStep`, each flag that
`resumeAll` and `stepCore` clear without a lock, each message, each notify.  Of what
`mMutex` protects, a core's way from its flag into its wait is two steps, for
those two functions can come between.  `CommandsAreHeard` says exactly who is missed,
and `PauseEnds` which cores (`Unreached`) can keep a Pause from its answer.
`DebugNet` is the Release build (`build/wiiu.vcxproj:80`), whose assertions are
gone: `recv` gives any number of the bytes it was asked for, and the thread goes on
with a buffer whose rest is stale.  The emulator's packets go to a client, and a
client's to the emulator, through a stream each; the client is not in the
repository, and is taken to read and write whole packets.
`InstructionTable` has rows of `instructions.inl` of each shape, the tree that
`initTable` makes of them and the walk of `decode`; an instruction is a set of
bits.  `TraceRing` lets a thread execute between two searches of its ring.
`Loader` runs two threads that load a game, its library, a library that imports
the game, and files that are no libraries; a step is a phase of `loadRPL` between
two allocations, which call guest code.  Memory of the system heap is given first
fit (`FirstFit`): load segments, which are freed as their load ends and used
again, handles and thunks.  `Tiling` untiles a row of elements a
step.  `Blockify` writes shaders in the nesting that compilers use, decodes them
and divides them into blocks.

## 3. The runs

A passing run explores all reachable states of its instance.

| Run | Instance | Question |
|---|---|---|
| `SchedPinned` | 2 cores, 3 guest threads pinned to one core each, two priorities, seven kinds of call, no interrupts; 1.4 M states | do threads stay in the queue, cores awake, locks balanced, fibers on one core, and does the best thread run first? |
| `SchedInterrupt` | the same threads, one priority; sleeping with alarms, one interrupt; 2.4 M states | do interrupts of running and idle cores lose a thread? |
| `SchedRetune` | 2 cores, 2 guest threads, priorities 15 and 16 and any affinity set at any time, exits; 1.6 M states | does an unsorted queue or an exit lose a thread? |
| `SchedFair` | 2 cores, 3 threads of one priority that yield; fair | does every Ready thread run? |
| `SchedDoubleRun` | `AffinityAny`, 2 threads | violated: one fiber on two cores |
| `SyncAll` | 3 threads (one of priority 0, two of 16), a mutex locked up to twice by each and its condition, with a semaphore of up to 1; a ring of 2 with 2 messages; an event of either mode, with the semaphore; 0.5 M states | do herds of woken threads respect the objects, does an insertion before a head alone lose waiters, does nobody a wake-up reaches sleep for what is there, and is the ring a bounded queue? |
| `Kernel` | 3 threads that suspend and cancel, join, suspend and sleep; 2 threads on 2 cores with 2 game alarms, timed sleeps, alarm waits and timed event waits, time up to 2; one thread of priority 0, the others of the default 16; 3 callers of a spin lock; 3.1 M states | are suspensions counted, ends seen, alarms kept until misused, when do two locks embrace, does a release by a stranger alone break the spin lock? |
| `TimedOutWait` | the timed event waits of `Kernel` | violated: a timed-out thread is in its queue |
| `Library` | each allocator, the lists, the registry, the code cache, the reservation (2 threads of one core, 1 of another) and the files, one at a time; 219 k states | do blocks divide the heap, states nest, lists and registry agree, blocks run the program, additions survive, handles keep their file? |
| `FuzzTests` | words of 8 bits, operands at the values where carries, signs, shifts and masks change; 258 k states | is the interpreter exact, the recompiler equal to it, and can a trace undo it? |
| `Floats` | special and ordinary doubles, among them some beyond the range of single precision, one instruction after any one; quantization by 8 registers; 277 k states | does the status explain the result, is a pair two scalars, does a quantized store come back? |
| `Tools` | 2 cores under the debugger with 3 packets; 3 packets on either wire; every row with a bit changed; a ring of 2 traces; 3 sets of libraries; surfaces of every kind of tiling; shaders of 7 clauses; 952 k states | are commands heard and pauses ended, do packets arrive, does text tell instructions apart, do searches find writes, do links reach, are elements read once, are blocks the shader? |

The violations are described, with the comment each contradicts, under
`findings` in `PROJECT.json`.  Deadlock is not checked: a game may put all its
threads to sleep, an allocator may be full, a test is over.

### 3.1 Why these bounds

Every hazard of the scheduler takes at most two cores and three threads: one
that runs, one it wakes or interrupts, one that a wrong choice favours.  Two
priorities tell better from equal and worse.  One interrupt can meet a guest in
any place, an idle core, and an interrupt thread that has not parked yet; a
second one is needed only to nest.  Threads do not exit in `SchedInterrupt`, and
no interrupts come in the other passing runs of the scheduler, which keeps each
of them within a few million states.

In `SyncAll` three threads are one owner or signaller and a herd of two.  A ring
of two wraps, and is full, empty and half full; two messages tell order.  One
thread of priority 0 makes lists of two and three, head, middle and tail,
possible: between threads of other priorities only the first waiter stays
reachable (section 3.3).  The parts of `NobodyForgotten` whose names end in
`Wakes` are about threads that are reachable for this reason.  Objects are
combined in pairs (`Together`), because a thread sleeps on one object at a time:
what two objects share is the link of a thread that leaves one queue and enters
the other.

In `Kernel` three threads are a target, one who suspends, cancels or joins it,
and one who comes between; a suspend counter of two tells a nested suspension.
Two alarms, with the blocks of two threads, give lists of up to four on two
cores, of which one thread may change; two ticks let an alarm fire, be set again
and fire late.  In `Library` a heap of sixteen units with headers of two holds
three live blocks, the fourth of which must merge or split; alignment larger
than a unit makes gaps before a block; a disk with a folder of two entries and an
empty one, a path in another case and two handles at a time meet the use of a slot
again, a node that two handles share and every end of a listing.  Programs of four instructions have a
call, a loop, a branch out of the block and one into it.  Two adders of one core and
one of another meet both kinds of interleaving, and two losses.  In `FuzzTests` a word
of eight bits keeps the carry from half to half, sign, mask and rotate cases; the
code's 31, 32, 0x1f, 0x20 and 16 are written with `Width` and `Half`, so that the
same definitions are those of 32 bits.  In `Tools` the debugger gets three
packets, the fewest with which a resume races a pause and is then needed again;
sizes of the packets to the client pass the limit by one field.  In `Floats` the
registers that tell how to quantize have each type, scales of 1, 2 and the greatest,
and one whose store and load differ.

### 3.2 Fairness

`SchedFair` assumes `Processor!FairSpec`: weak fairness of what a host thread
does by itself (`Primary`: it loops until the emulator stops), of kernel code
(`Kernel`) and of the interrupt thread (`Interrupt`), which run to their end once
entered; and of `OSYieldThread`, because scheduling is cooperative and the
property is about games whose threads do yield.  Acquiring `gSchedulerLock` is a
spin without order, and is not assumed to be fair: the run's calls need it only
in `OSRunThread` and the steps that follow it.

`Tools!Spec` assumes weak fairness of each core (`UseCore(c)`), of the debugger's
thread (`UseDbg`) and of the network's (`UseNet`): each is a host thread that the
host schedules.  The client may fall silent at any time.  `PauseEnds` needs it,
and has the exceptions the code has: a core that was past its look at the pause
as the cores were woken, and then waits for a thread to run
(`debugcontrol.cpp:63`, `processor.cpp:108`, `:117`), and one that an earlier resume or
step found between its flag and its wait, which sleeps with its flag cleared
(`debugcontrol.cpp:33`, `:44`, `:77`).  A core that was idle before the wake-up is no
exception.

### 3.3 What the code does that its properties must except

While modelling, these came up as what the code does; they follow from the steps
of the models, and the properties are stated so as to hold beside them.

| Where | What happens |
|---|---|
| `processor.cpp:99` | the run queue keeps the entry of a thread that was run through an older one, and may name a fiber that was deleted |
| `processor.cpp:325` | the timer thread sets a flag and notifies without `mMutex`: a core that is about to wait misses it |
| `processor.cpp:358` | an interrupt of an idle core resumes the thread that core ran last, which may sleep; nested interrupts lose the thread below |
| `processor.cpp:364` | an interrupt before `waitFirstInterrupt` finds no fiber |
| `coreinit_thread.cpp:335` | a change of affinity wakes no core |
| `coreinit_threadqueue.cpp:58` | a thread inserted before the head leaves what was there unreachable: of threads of the default priority every second waiter is orphaned, although `coreinit_semaphore.cpp:68` and `coreinit_messagequeue.cpp:58` say that they wake any waiting threads |
| `coreinit_mutex.cpp:143` | a signal between the unlock and the sleep of `OSWaitCond` is lost |
| `coreinit_event.cpp:193`, `coreinit_alarm.cpp:25`, `:190` | alarms are freed while set, cancelled twice, used after the thread that holds them woke |
| `coreinit_event.cpp:180`, `coreinit_alarm.cpp:148` | the two locks are taken in both orders; `OSWaitAlarm` takes one it holds |
| `coreinit_scheduler.cpp:145` | a suspender whose target exits is queued without being made Ready |
| `coreinit_spinlock.cpp:70` | a release by a stranger decrements the owner's count |
| `coreinit_expheap.cpp:417`, `:427` | a resize that absorbs the next block sets the size to that block's alone; a shrinking one compares a negative difference with the least size |
| `coreinit_expheap.cpp:438-442` | a block that grows in place by less than a header writes the header of what is left over the old one, and then reads the links it has overwritten |
| `teenyheap.h:44`, `:27` | the exact fit is never recognised; an aligned allocation can overrun its block |
| `coreinit_memlist.cpp:39` | appending to a list of one leaves the tail |
| `coreinit_memlist.cpp:91-101` | destroying the oldest heap of a region loses the others of its list; destroying another leaves it in the list |
| `filesystem_win_folder.h:57` | the test for `.` and `..` looks at the entry after the one it returns: `..` is listed |
| `interpreter_loadstore.cpp:332-357` | `stwcx.` compares and stores in two accesses: atomic among the threads of a core; a store by another core in between is overwritten |
| `interpreter_integer.cpp:717-718`, `:720` | the comment of `sraw` says that amounts of 32 to 63 give 32 sign bits; the code shifts by the low five bits of the amount alone |
| `interpreter_loadstore.cpp:650-655` | a quantized store clamps every type to the limits of `uint8_t`: negative numbers are stored as 0, those above 255 as 255, and signed bytes above 127 are read back negative |
| `interpreter_loadstore.cpp:660` | a store scales by the table of the load, so that a power of two multiplies twice |
| `interpreter_loadstore.cpp:806`, `:818` | `psq_st` and `psq_stu` read `qi` and `qw`, the fields of the indexed form, where the instruction has its displacement |
| `debugcontrol.cpp:38`, `:77`, `:46`, `:33` | resume and step can be missed; flags stay set |
| `debugcontrol.cpp:33`, `:44`, `:77` | a core that is released between its flag and its wait sleeps on with its flag cleared, and no later Pause is answered |
| `debugcontrol.cpp:70`, `:105` | a core can run an instruction without looking at the breakpoint there |
| `debugnet.cpp:433`, `:598`, `:612` | a packet's size is cut to 16 bits; a short `recv` is taken for a whole one where assertions are off: the stream is out of step from then on |
| `trace.cpp:478`, `:544` | a search resumes in a ring that has moved on |
| `loader.cpp:283`, `:586` | a library whose load has not ended is loaded again, by another thread or by a circular import; the first to end is kept |
| `loader.cpp:542-543` | a small data reference without a base register is written as 0: the symbol is lost |
| `loader.cpp:354`, `:392`, `:487` | the end of `.data` is computed from the code's size, ids of functions have a limit, an addend is dropped |
| `disassembler.cpp:307` | an alias drops the letters that follow its name |
| `latte_blockify.cpp:246` | one label per instruction: where two structures end together the later is lost |
| `latte_tiling.cpp:36` | partial blocks of compressed surfaces are dropped |

## 4. The proofs

`tlapm` checks these for all values of the constants that satisfy the
assumptions of the modules: any finite number of cores and threads, any
priorities and affinities, any set of calls, any number of interrupts, any size
of a ring, a heap or a packet, any number of alarms, breakpoints and recorded
states, any disk, any number of handles and any guest program.
TLC evaluates every assumption on every instance.

| Theorem | Property | Further assumption |
|---|---|---|
| `TypeCorrect` | `TypeOK` of the scheduler | |
| `CurrentCorrect` | `CurrentIsExecuting` | |
| `SchedulerLockCorrect` | `SchedulerLockHeldOnce` | |
| `ReadyCorrect` | `ReadyIsQueued` | |
| `WakeupCorrect` | `NoLostWakeup` | `"affinity"` is not called: with it the property is false (section 3.3) |
| `OneCoreCorrect` | `OneCorePerFiber` | `Pinned`: every thread may run on one core, and no affinity changes: otherwise it is false (`SchedDoubleRun`) |
| `DispatchCorrect` | `DispatchesBest` | `"priority"` is not called: `OSSetThreadPriority` leaves the queue unsorted |
| `RunningCorrect` | `NoThreadLost` | interrupts do not nest: nested ones lose a thread (section 3.3) |
| `SyncInvariant`, `CountsCorrect` | `SyncInv`, `CountsWhatIsHeld` | |
| `NobodyIsForgotten` | `NobodyForgotten` | |
| `RingImplementsDeque` | `ImplementsDeque` | |
| `LifeInvariant` | who may be where, and what is counted | |
| `SuspensionCorrect` | `SuspensionCounted` | |
| `EndsCorrect` | `EndsAreSeen` | |
| `AlarmsCorrect` | `AlarmsComeTrue` | |
| `EmbraceCorrect` | `EmbraceTakesTwoCores` | |
| `SpinCorrect` | `SpinExclusion` | |
| `ReservationCorrect` | `NoLostAddition` | |
| `ArrivalCorrect` | `ArrivesAsWritten` | |
| `FramesCorrect` | `FramesNest` | |
| `CommandsCorrect`, `EditsCorrect` | `CommandsAreHeard`, `OneEditAtATime` | |
| `FilesCorrect` | `FilesKept` | |
| `TracesCorrect` | `TraceTells` | |
| `HeapsCorrect` | `HeapsAreFound` | |
| `CodeCorrect` | `BlocksRunTheProgram` | |
| `LoadsCorrect` | `LoadedOnce`, a part of `LinksReach` | |

The parts that `Library` and `Tools` compose are proved about their own
specifications (`SpecFrames`, `SpecNet`, `SpecReservation`, `SpecDebugger`,
`SpecFiles`, `SpecTrace`, `SpecLists`, `SpecJit`,
`SpecLoader`), since parts that share no state cannot
disturb one another, and the compositions reach modules the prover cannot take
(section 4.5).

### 4.1 The scheduler

*Types.*  `TypeOK` alone is not inductive: that a step acts on a guest thread
follows from where the host thread is.  `ControlOK` says what each place knows
(in kernel code the current fiber is the executed one and a guest; in the
interrupt thread it is this core's; a core has an interrupt fiber just when that
fiber has parked).  `TypeInv == TypeOK /\ ControlOK` is inductive; its proof has
one lemma per action.  `CurrentIsExecuting` follows from `ControlOK`.

*Safety.*  Each invariant is inductive relative to `TypeInv`, and its proof
classifies the steps by what they can disturb rather than action by action where
it can: `StepOthers` (a step of core `c` only ever wakes other cores), `StepLock`
(a step takes the scheduler lock, gives it back, or neither), `StepQuiet` and
`StepStill` (most steps leave the queue and the states alone).

* `LockInv` adds to `SchedulerLockHeldOnce` that a core about to queue a resumed
  thread has a fiber for it: otherwise `queue` would crash with the lock held.
* `ReadyIsQueued` needs that an erased entry is the one of the thread that
  becomes Running (`EraseRange`) and that an insertion adds just the thread
  (`InsertRange`).
* `NoLostWakeup` needs that everything that makes a queued thread eligible either
  notifies or is followed by `queue`, which does.
* `OneCorePerFiber` needs `PinInv`: whatever a core executes, has interrupted or
  calls current may run only there.
* `DispatchesBest` needs that the run queue is sorted by priority: an insertion
  at an upper bound and an erasure keep it so, and the first eligible entry, which
  exists because a set of naturals has a least element (`LeastNat`), is the best.
* `NoThreadLost` needs `RunInv`: a Running thread is current on a core, interrupted
  there, or on its way off; while an interrupt is served no second one comes.

### 4.2 Wait queues and synchronisation objects

What a loop over a linked list finds cannot be proved by induction, so the
invariant says what the list is: `Represents(links, state, N, A)` holds when queue
`q` has `N[q]` members, `A[q][0]`, `A[q][1]` and so on, whose links name each
other, no thread twice (`Apart`).  The code loses threads when it inserts before
the head, and such a thread may still be the `prev` of a head: `Orphan` is a thread
that sleeps and is on no list.  With it the representation is inductive, and
`ThreadQueueProofs` shows what each list operation does to it: an insertion adds
its thread or orphans some, a pop takes the head, a clear wakes all there are.

`SyncInv` adds to that which queues are empty when there is something to take
(`HeadInv`: no mutex waiters without an owner, no receivers at a queue with
messages, and so on) and that counts agree with `depth` also in the middle of
`OSWaitCond` (`CountInv`).  `NobodyForgotten` follows from `HeadInv` and the
representation, and its part about steps from what the list operations do to it:
an insertion is the only one that orphans, and it orphans who was in the queue it
was made in; `RingImplementsDeque` is a step simulation: `SendSucceeds`,
`JamSucceeds` and `ReceiveSucceeds` are steps of `BoundedDeque` by arithmetic
modulo `Size`, every other step stutters.

### 4.3 Threads, alarms and their locks, spin lock

`LifeInv` says who may be where: a thread listed in another's `joinQueue` is in its
join of it (`PlaceInv`), who is runnable or waits has a fiber (`FiberInv`), a thread
that ended has nobody in its `suspendQueue` (`EndInv`), and `needSuspend` lies
between the length of that queue and the number of those who wait for it, except
in the cases the code has (`RefusalInv`): the target was cancelled, is being
cancelled, or has ended.  Neither bound can be sharper, whatever the priorities:
an insertion before the head makes a queue shorter and its waiters no fewer.  The
lists may lose threads at any time, so what `LifeInv` says of waiters it says of
their places in the code and not of the lists; `EndsAreSeen`'s part about steps
comes from what each list operation orphans.

`EmbraceInv` says where `gSchedulerLock` can be held across steps and that an
interrupt is in `OSCheckAlarms` only when its core's running thread is in guest
code; two threads that wait for each other's lock are then on two cores.
`SpinExclusion` is inductive once it knows that a free lock has no recursion.

The lists of alarms, and that of the event on which threads wait for a time, are
only appended to and erased from.  For such a list a rank of its items says all
(`Row`): the head has the least, the tail the greatest, and each item's links
name what is next above and below it.  `RowAppend` and `RowErase` show that
`OSAppendQueue` and `OSEraseFromQueue` keep it, and `RowWalk` that a walk from
the head meets the set and ends: an item's place, the number of items of lower
rank, grows by one at each link, and a least place where it did not is refuted.

`AlarmInv` is the inductive invariant of `AlarmsCorrect`.  While no misuse has
happened (`Sound`) there are ranks by which every core's queue is a `Row` of just
the alarms that are set on it (`Rows`), and

* `Timers`, `Scans`: every alarm that is set is `Covered`.  While the interrupt
  thread is idle, the timer or a pending interrupt covers it; while the thread is
  in the queue, so do the soonest time it has counted, for the alarms it has
  passed, and its cursor, for those that follow.  The cursor is an alarm that is
  set: nobody takes it off, since the thread has `gAlarmLock`, a timed wait's
  callback touches no alarm, and the game's touches the one that calls it.
* `Sleeper`: the alarm of a thread that sleeps for a time is set, also while the
  interrupt thread that wakes it is not done with it.
* `EventParts`: who is in the event's list waits, or its timeout has come; who is
  taken off the list before it goes on has no `prev` any more, and takes itself
  off again (`TimedOutWait`), which dereferences null:
  hence the timeout in `BreaksByMisuse`.

Where `reused` or `abandoned` holds the links may be anything, and the invariant
says no more than `BreaksByMisuse`.

### 4.4 Reservation, connection, frame heap, debugger, files, traces, lists, code, loads

* `NoLostAddition`: a thread that stands between its comparison and its store has
  one more than a word that was there (`AddsOne`), and what other cores stored since
  is in `crossed`: `Behind` holds of the word and of what each such thread is about
  to write.
* `ArrivesAsWritten`: the buffer, the stream and the packets not yet received are
  consecutive bytes (`InOrder`, `Following`) from the one that follows the last
  received packet, so that headers are read where they begin, until a packet
  exceeds the limit of its size field or a `recv` is short.  A client's packets are
  within the limit, and its own `recv` is whole.
* `FramesNest`: `HeapInv` has every two recorded states nested, not just
  neighbours, and the block of a recorded state above the heap's start, which is
  why adjusting a heap that has one spoils it.  `Placed` puts every block outside
  the free memory of the state it was allocated in, and so of all later ones.
  `Rounding`, `Multiples` and `UnsignedDifference` are the arithmetic of
  `align_up` and of differences modulo 2^32.
* `CommandsAreHeard`: `ResumeInv` (in a game that runs, a core that is about to
  sleep or asleep was awake as the cores were last woken), `StepInv` (the same of a
  step that nobody reported), `FlagsInv` (a flag that was not set late is of a core
  that stays in its pause, and whose release has not begun), `SleepInv` (who is on
  its way into its sleep is flagged, being released, or missed it) and `CheckedInv`
  (who may leave its pause has looked).
  `ConnectionInv` is needed because a connection can be lost and made again: of all
  queued messages one says so, and the client is silent until it is obeyed.
* `OneEditAtATime`: a copy of the list that can be swapped in is a copy of the list
  there is (`CopiesOfTheList`), as every swap makes all other copies stale.
* `FilesKept`: `Tree` says that children are nodes, that only the root is not on
  the disk and that a search stands in its listing.  `Grows` relates a tree to one
  in which paths were looked up since: names, places among the children and streams
  are as they were.  What is expected of a handle survives growth
  (`ExpectsOfMore`), a step of a stream (`StreamChanged`) and a move of a search
  (`SearchMoved`), which touch one node each; `TableOf` relates a table to the
  handles of it that are held, of which nothing is expected when two share a node.
  `OpenAmong` is needed for an open to find the stream closed: open streams are
  those of held handles.  That a path leads to the same node again takes a second
  walk beside the first (`NodeFoundAgain`): the child found first keeps its place,
  and none before it can have its name.  The walks and `ReadEntry` are functions
  over a range of numbers, of which a least counterexample is refuted.
* `TraceTells`: a slot of the ring has its instruction of this lap or, from the
  index on, of the one before (`SlotsHold`), so that `getTrace` counts back from
  the last (`TracesAre`).  An answer stays true while the ring moves on because it
  is about instructions that were executed (`AnswerIsPast`).
* `HeapsAreFound`: the links of a list lead through the client's sequence
  (`Linked`, and `WalkIs`: a walk meets it, then null) until a branch that `wrong`
  names.  A region's list is empty, has the oldest heap, or the oldest and
  the newest with the oldest as its tail (`RegionKept`), whatever was created and
  destroyed.  A heap that lies across a region's end could be found through the wrong
  list: `RegionAssumption` says that there is none, as the default heaps are made
  inside their regions.
* `BlocksRunTheProgram`: `fnMax` is the greatest of the function's start and the
  targets before the instruction (`FnMaxIsGreatest`), so that the loop of
  `identBlock` ends a function just where `Closes` says (`EndsWhereItCloses`) and
  finds the first such return or none (`ScanIs`).  `JitInv` adds that all that is
  in the cache is such code with the address it is entered at inside
  (`BlocksAreCode`), also where a later block was laid over an earlier one, or a
  failure at an address from which no return is found.
* `LoadedOnce`: of the loads that have begun to put a library into memory
  (`Begun`) two of one library are counted in `raced`, and so is one of a library
  that is registered (`BegunOK`); a library that was put there is registered or
  such a load of it is still on a thread's stack (`LoadsOK`).  A step pushes a load
  on one stack, changes the one on top, or pops it (`PushIs`, `SetIs`, `PopIs`).

### 4.5 What is only model-checked

* `ReadyRuns` and `PauseEnds`: liveness under fairness is out of the prover's
  reach.
* The modules that compute.  `Machine` uses the community module `Bitwise`;
  `InstructionTable`, `Disassembler` and `TeenyHeap` declare recursive operators.
  Neither they nor the modules that extend them (`Interpreter`, `Jit`, `FloatUnit`,
  `Tracer`, the two tests, `Library`, `Tools`) can hold a theorem.
* `HeapDivides`, the rest of `LinksReach` and `BlocksAreTheShader` rest on walks
  along lists and programs, and `UntilesOnce` on a bijection of
  addresses.  Nothing is known to keep them from the prover; section 5 says in
  which order they would be tried.

## 5. The plan

Done: the scheduler, the synchronisation objects, threads, alarms, spin lock,
allocators, files, instructions, recompiler, debugger, loader and the GPU's
decoders as models, and the theorems of section 4.  What remains is to prove, in
this order.

1. `HeapDivides`: the lists of an expanded heap are chains of blocks whose
   addresses grow, for which `Row` with addresses as ranks is made; merging and
   splitting keep them adjacent.
2. `UntilesOnce`: the address of an element is a bijection, one kind of tiling at
   a time.
3. The rest of `LinksReach`, and `BlocksAreTheShader`, which need what a library
   or a shader stands for as a set rather than as a walk.

Of the code that is left, the HLSL translation of single operations and the
float and paired-single emitters are tables of the kind `Interpreter` and `Jit`
have; the rest of section 7 is outside what a model of this repository can say.

## 6. Conventions

Operators that begin with the word *Mutant* in their comment are plausible wrong
versions of the definition that follows them.  Nothing uses them in the
specification; substituting one must make the property named in `PROJECT.json`
fail, which shows that the property depends on that piece of code.

## 7. What is not modelled

* Graphics: GX2 and its Direct3D 12 driver, whose behaviour is Direct3D's; the
  text of HLSL shaders and the operands of shader instructions.
* Processor: rounding and bits of floating point; `kc`, which calls the host; the
  emitters of `jit_float.cpp` and `jit_pairedsingle.cpp`, which are never
  registered; what a game stores over its own code.
* Loading: the fields of ELF headers, which are taken as they are; decompression.
* Input and output: the host's files beyond names and positions, controllers,
  `zlib`, statistics of files; writing, which is a stub.
* The libraries that are stubs or constants, and the wrappers of one call.
* `OSThread` fields that nothing reads: names, stack checks, specific words, the
  list of owned mutexes.
* Memory consistency: host atomics are taken to be sequentially consistent, and
  unsynchronised reads (of thread states in `peekNextFiberNoLock`, of interrupt
  flags) to return some value that was written.  Two writers of plain data at
  once (the loader's map) are taken to write one after the other.
* Vendored code, which is absent from the checkout or third-party.
