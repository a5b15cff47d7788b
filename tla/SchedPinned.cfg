\* Two cores, every thread pinned to one of them, no interrupts.
SPECIFICATION Spec
CONSTANTS
    c1 = c1
    c2 = c2
    i1 = i1
    i2 = i2
    main = main
    g2 = g2
    g3 = g3
    NoFiber = NoFiber
    Core <- Core2
    Guest <- Guest3
    InterruptThread <- Interrupt2
    Main = main
    Attr0 <- PinnedApart
    Priority0 <- G2Better
    Priorities = {}
    Calls = {"run", "sleep", "wake", "yield", "suspend", "resume", "exit"}
    MaxInterrupts = 0
INVARIANTS
    TypeOK
    CurrentIsExecuting
    OneCorePerFiber
    ReadyIsQueued
    NoLostWakeup
    SchedulerLockHeldOnce
PROPERTY DispatchesBest
CHECK_DEADLOCK FALSE
