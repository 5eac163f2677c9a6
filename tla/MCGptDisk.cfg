SPECIFICATION Spec
CONSTANTS
    Procs = {p1, p2}
    g0 = g0
    g1 = g1
    a = a
    b = b
    c = c
    Guids <- MCGuids
    Parts <- MCParts
    FirstTables <- MCFirstTables
    Verbs = {"create", "add", "del"}
    Budget = 4
    FirstWait = 1
    MaxWait = 2
    MaxCommands = 2
    MaxCrashes = 1
    NoHeader = NoHeader
    Torn = Torn
    Damaged = Damaged
    Blank = Blank
    Foreign = Foreign
    Nothing = Nothing
SYMMETRY Symmetry
INVARIANTS
    TypeOK
    NeverAConfidentLie
    ReportedIsDurable
PROPERTIES
    OldOrPlannedOrDamaged
CHECK_DEADLOCK FALSE
