\* Priorities and affinities change while threads are queued; threads exit.
SPECIFICATION Spec
CONSTANTS
    c1 = c1
    c2 = c2
    i1 = i1
    i2 = i2
    main = main
    g2 = g2
    g3 = g3
    NoFiber = NoFiber
    Core <- Core2
    Guest <- Guest2
    InterruptThread <- Interrupt2
    Main = main
    Attr0 <- PinnedApart
    Priority0 <- SamePriority
    Priorities = {15, 16}
    Calls = {"run", "sleep", "wake", "exit", "priority", "affinity"}
    MaxInterrupts = 0
INVARIANTS
    ReadyIsQueued
CHECK_DEADLOCK FALSE
