CONSTANTS
    a = a  b = b
    Runner = {a, b}
    Cuts <- MCCuts
    Levels <- MCLevels
    Stride <- MCStride
    SeedOf <- MCSeedOf
    FormalPerCut = 2
    SmokePerCut = 1
    MaxEdits = 1
SPECIFICATION TraceSpec
INVARIANTS OracleIsExact  CompleteRunPasses
CONSTRAINT FewMixes
CHECK_DEADLOCK FALSE
