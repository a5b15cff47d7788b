\* Three threads on every synchronisation object.
SPECIFICATION Spec
CONSTANTS
    t1 = t1
    t2 = t2
    t3 = t3
    NoThread = NoThread
    m1 = m1
    m2 = m2
    NoMessage = NoMessage
    Thread <- Thread3
    WaitQueue <- Queues
    BasePriority <- OneUrgent
    MaxDepth = 2
    MaxCount = 1
    Message = {m1, m2}
    Size = 2
    Uses <- Together
INVARIANTS
    CountsWhatIsHeld
PROPERTIES
    NobodyForgotten
    ImplementsDeque
CHECK_DEADLOCK FALSE
