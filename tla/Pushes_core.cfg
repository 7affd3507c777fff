SPECIFICATION Spec
CONSTANTS
    Pushes = {p1, p2}
    Commits = {c1, c2}
    Names = {"web", "0042"}
    Branches = {"feature"}
    Low = {"0042"}
    None = None
    MaxTrouble = 1
    RunOf <- LastSegment
    Open <- Landings
SYMMETRY Symmetry
CHECK_DEADLOCK FALSE
INVARIANTS
    OkIsEarned
    AnonIsCleared
    Delivered
    VerdictIsTrue
