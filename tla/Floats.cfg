CONSTANTS
    One = 4
    MaxMag = 8191
    MinSingle = 4
    MaxSingle = 4000
    MaxInt = 127
    Values <- MCValues
    Steps = 1
SPECIFICATION Spec
INVARIANTS
    StatusExplains
    PairsAreScalars
    PsqRoundTrip
CHECK_DEADLOCK FALSE
