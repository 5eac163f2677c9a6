SPECIFICATION Spec
CONSTANTS
    Align = 4
    LbaLimit = 32
    NumEntries = 2
    EntriesPerSector = 2
    DiskSizes = {5, 20, 24, 28}
    ForeignHeaders <- MCForeignHeaders
    ForeignEntries <- MCForeignEntries
    Sizes = {1, 4, 6, 9}
    NoGpt = NoGpt
    Unused = Unused
INVARIANTS
    TypeOK
    FreeExtentsAreUnallocated
    CommitSparesPartitions
    AddFindsAnyHole
PROPERTIES
    AllocatesWell
    WrittenTableParses
