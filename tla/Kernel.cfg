\* The life of threads, alarms and timed waits, the spin lock.
SPECIFICATION Spec
CONSTANTS
    t1 = t1
    t2 = t2
    t3 = t3
    a1 = a1
    a2 = a2
    c0 = c0
    c1 = c1
    Thread = {t1, t2, t3}
    NoThread = NoThread
    WaitQueue <- Queues
    BasePriority <- OneUrgent
    Main = t1
    JoinQueue <- MCJoinQueue
    SuspendQueue <- MCSuspendQueue
    MaxSuspended = 2
    Core = {c0, c1}
    GameAlarm = {a1, a2}
    AlarmThread = {t1, t2}
    Affinity <- MCAffinity
    HomeCore <- MCHomeCore
    MaxTime = 2
    Caller = {t1, t2, t3}
    NoOwner = NoThread
    MaxRecursion = 2
    Uses = {{"suspend", "cancel"}, {"join"}, {"suspend", "sleep"},
            {"alarm", "alarm cancel"}, {"sleep ticks", "alarm wait"}, {"event"},
            {"spin lock"}}
INVARIANTS
    SuspensionCounted
    AlarmsComeTrue
    EmbraceTakesTwoCores
    SpinExclusion
PROPERTIES
    EndsAreSeen
CHECK_DEADLOCK FALSE
