SPECIFICATION Spec
CONSTANTS
    Daemons = {d1, d2}
    Versions = {v1, v2}
    Installed = v1
    Torn = Torn
    None = None
SYMMETRY Symmetry
INVARIANTS
    ServingIsReachable
    TargetIsWhole
PROPERTIES
    StoppedLetGo
    WayBack
    UpgradedIsServed
