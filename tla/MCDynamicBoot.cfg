SPECIFICATION FairSpec
CONSTANTS
    f1 = f1
    f2 = f2
    r1 = r1
    r2 = r2
    Files = {f1, f2}
    Releases = {r1, r2}
    Old = r1
    Bad <- MCBad
    MaxEdits = 2
    MaxKills = 2
    MaxErrors = 1
    None = None
CHECK_DEADLOCK FALSE
INVARIANTS
    TypeOK
    ArchiveIsCurrent
    ImageIsCurrent
    EmbedsWholeArchive
PROPERTIES
    FollowsInOrder
    BootFollows
