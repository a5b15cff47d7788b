\* A thread that may run on two cores.
SPECIFICATION Spec
CONSTANTS
    c1 = c1
    c2 = c2
    i1 = i1
    i2 = i2
    main = main
    g2 = g2
    g3 = g3
    NoFiber = NoFiber
    Core <- Core2
    Guest <- Guest2
    InterruptThread <- Interrupt2
    Main = main
    Attr0 <- Anywhere
    Priority0 <- SamePriority
    Priorities = {}
    Calls = {"run", "sleep", "wake"}
    MaxInterrupts = 0
INVARIANT OneCorePerFiber
CHECK_DEADLOCK FALSE
