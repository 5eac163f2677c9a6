SPECIFICATION Spec
CONSTANTS
    x = x
    y = y
    Ready = Ready
    None = None
    Names = {1, 2, 3, 4}
    Caps = {Ready, x, y}
    Trees <- MCTrees
INVARIANTS
    TypeOK
    OrderIsLeast
    VerdictIsRight
CHECK_DEADLOCK FALSE
