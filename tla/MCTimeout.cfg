SPECIFICATION FairSpec
CONSTANTS
    Signals <- MCSignals
    Codes = {3}
    Faults = {11}
CHECK_DEADLOCK FALSE
INVARIANTS
    TypeOK
    NoCommandSurvives
    GroupGetsTheSignal
    NoFalseTimeout
    OwnCodeIsKept
    OrphanIsSignalled
PROPERTIES
    EndsInTime
    EndIsNoticed
