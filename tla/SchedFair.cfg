\* Yielding threads of one priority take turns.
SPECIFICATION FairSpec
CONSTANTS
    c1 = c1
    c2 = c2
    i1 = i1
    i2 = i2
    main = main
    g2 = g2
    g3 = g3
    NoFiber = NoFiber
    Core <- Core2
    Guest <- Guest3
    InterruptThread <- Interrupt2
    Main = main
    Attr0 <- PinnedApart
    Priority0 <- SamePriority
    Priorities = {}
    Calls = {"run", "yield"}
    MaxInterrupts = 0
PROPERTY ReadyRuns
CHECK_DEADLOCK FALSE
