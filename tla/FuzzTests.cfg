SPECIFICATION Spec
CONSTANTS
    Width = 8
    Operand <- MCOperand
    Immediate <- MCImmediate
    Shift <- MCShift
    CrValue <- MCCrValue
    XerValue <- MCXerValue
INVARIANTS
    InterpreterExact
    JitMatchesInterp
    TraceUndoes
CHECK_DEADLOCK FALSE
