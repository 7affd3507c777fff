SPECIFICATION Spec
CONSTANTS
    r1 = r1
    r2 = r2
    None = None
    Stale = Stale
    Requests = {r1, r2}
    Settings = 2
    MaxTrouble = 2
SYMMETRY Symmetry
INVARIANTS
    ServedIsReady
PROPERTIES
    FailsForCause
