SPECIFICATION Spec
CONSTANTS
    Procs = {p1, p2}
    g0 = g0
    g1 = g1
    a = a
    b = b
    c = c
    Guids <- MCGuids
    Parts <- MCThreeParts
    FirstTables <- MCFirstTables
    Verbs = {"add"}
    Budget = 4
    FirstWait = 1
    MaxWait = 2
    MaxCommands = 2
    MaxCrashes = 0
    NoHeader = NoHeader
    Torn = Torn
    Damaged = Damaged
    Blank = Blank
    Foreign = Foreign
    Nothing = Nothing
INVARIANTS
    NoLostUpdate
CHECK_DEADLOCK FALSE
