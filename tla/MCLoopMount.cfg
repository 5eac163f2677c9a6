SPECIFICATION Spec
CONSTANTS
    p1 = p1
    p2 = p2
    d1 = d1
    d2 = d2
    t1 = t1
    f1 = f1
    Procs <- MCProcs
    Devs <- MCDevs
    Points = {t1}
    Files = {f1}
    Offsets = {0, 1}
    MaxTries = 2
    MaxDepth = 2
    Nothing = Nothing
SYMMETRY Symmetry
INVARIANTS
    TypeOK
    ShowsWhatWasAsked
    NothingLeaks
    OneDevicePerRegion
