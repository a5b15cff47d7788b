\* The allocators, the heap registry, the files, the code cache and the
\* reservation, one at a time.
SPECIFICATION Spec
CONSTANTS
    Parts = {"expanded heap", "frame heap", "teeny heap", "memory list",
             "heap registry", "code cache", "reservation", "files"}
    HeapUnits = 16
    HeaderSize = 2
    AllocSizes = {1, 4}
    Alignments = {1, 4}
    MaxLive = 3
    Base = 2
    Modulus = 256
    FrameUnits = 10
    StateSize = 2
    FrameSizes = {1, 2}
    FrameAlignments = {1, 2}
    Tags = {1, 2}
    MaxFrames = 5
    MaxStates = 2
    TeenyUnits = 8
    TeenySizes = {1, 2, 3}
    TeenyAlignments = {1, 4}
    MaxAllocs = 3
    h1 = h1
    h2 = h2
    h3 = h3
    h4 = h4
    Object = {h1, h2, h3, h4}
    NoObject = NoObject
    Extent <- MCExtent
    RegionStart <- MCRegionStart
    RegionEnd <- MCRegionEnd
    MemAddress = {3, 4, 5, 6, 7, 8, 9}
    MaxCount = 4
    Length = 4
    MaxInst = 3
    Program <- MCProgram
    a1 = a1
    a2 = a2
    a3 = a3
    Adder = {a1, a2, a3}
    CoreOf <- MCCoreOf
    Rounds = 2
    Disk <- MCDisk
    Listing <- MCListing
    GamePaths <- MCGamePaths
    SameName <- MCSameName
    FileSize = 2
    ReadSizes = {1, 2}
    MaxHandles = 2
    MaxNodes = 6
INVARIANTS
    HeapDivides
    FramesNest
    TeenyPartitioned
    HeapsAreFound
    BlocksRunTheProgram
    NoLostAddition
    FilesKept
CHECK_DEADLOCK FALSE
