SPECIFICATION Spec
CONSTANTS
    Procs = {p1}
    Ships <- MCShips
    MaxCommands = 4
    Nothing = Nothing
INVARIANTS
    NeverClaimsWhatDidNotHappen
CHECK_DEADLOCK FALSE
