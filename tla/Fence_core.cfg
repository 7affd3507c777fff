CONSTANTS
    Runs = {1, 3}
    MaxPushes = 1
    Tolerant = FALSE
CONSTANT Task <- Resumed
SPECIFICATION Spec
CHECK_DEADLOCK FALSE
INVARIANTS
    ReleasedIsOver
    HeldForAReason
PROPERTY Implements
