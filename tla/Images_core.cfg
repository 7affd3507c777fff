SPECIFICATION Spec
VIEW View
CONSTANTS
    Images = {1, 2, 3}
    Base = 1
    Jobs = {"a", "b"}
    Keep = 1
    MaxUnlocked = 1
    Path <- Tree
    Wants <- ThreeAndTwo
INVARIANTS
    BuiltOnce
    WholeUnderLocks
    ClonesAreWhole
PROPERTIES
    FinishedStays
    AncestryIsKept
