SPECIFICATION Spec
CONSTANTS
    s1 = s1
    s2 = s2
    Seeds <- MCSeeds
    LastRelease = 3
    Asks <- MCAsks
    MaxRuns = 3
    MaxBoots = 2
    Absent = Absent
    Torn = Torn
    Nothing = Nothing
INVARIANTS
    NoSeedIsLost
CHECK_DEADLOCK FALSE
