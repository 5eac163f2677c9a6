SPECIFICATION Spec
CONSTANTS
    Procs = {p1, p2}
    Ships <- MCShips
    MaxCommands = 4
    Nothing = Nothing
INVARIANTS
    TypeOK
    SettledIsTrue
    OnOnlyOverSetup
    ResumesWhereItStopped
    ToldIsDone
CHECK_DEADLOCK FALSE
