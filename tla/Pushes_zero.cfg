SPECIFICATION Spec
CONSTANTS
    Pushes = {p1}
    Commits = {c1}
    Names = {"web"}
    Branches = {"feature"}
    Low = {}
    None = None
    MaxTrouble = 1
    RunOf <- LastSegment
    Open <- Landings
CHECK_DEADLOCK FALSE
INVARIANT ZeroMeansSucceeded
