SPECIFICATION Spec
CONSTANTS
    UsedTools = {"debugger", "connection", "disassembler", "tracer", "loader", "tiling", "shaders"}
    c0 = c0
    c1 = c1
    Core = {c0, c1}
    NoCore = NoCore
    MainCore = c1
    LastAddress = 2
    CallAddress = {1}
    MaxPackets = 3
    Command = {"Pause", "ReadMem", "Paused", "ReadMemRes"}
    ClientCommand = {"Pause", "ReadMem"}
    PayloadSizes <- MCPayloadSizes
    NetHeaderSize = 2
    SizeLimit = 6
    MaxWritten = 3
    Fillings <- MCFillings
    r1 = r1
    r2 = r2
    GuestReg = {r1, r2}
    NoRegister = NoRegister
    Slots = 2
    MaxExecuted = 3
    t1 = t1
    t2 = t2
    Loading = {t1, t2}
    Kernel <- MCKernel
    Filesets <- MCFilesets
    FullName <- MCFullName
    Requests = {"game.rpx", "lib"}
    SystemStart = 2
    CodeStart = 40
    DataStart = 200
    FieldSize = 64
    ImmediateSize = 32
    FakeStart = 512
    PageSize = 16
    MaxFake = 2
    MaxRequests = 2
    MaxDepth = 3
    Surfaces <- MCSurfaces
    MaxClauses = 7
INVARIANTS
    CommandsAreHeard
    ArrivesAsWritten
    TextSaysInstruction
    TraceTells
    LinksReach
    UntilesOnce
    BlocksAreTheShader
PROPERTIES
    OneEditAtATime
    PauseEnds
CHECK_DEADLOCK FALSE
