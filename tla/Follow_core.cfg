SPECIFICATION Spec
CONSTANTS
    Clients = {c1, c2}
    Codes <- ScriptCodes
    MaxLog = 4
    MaxTrouble = 2
CHECK_DEADLOCK FALSE
INVARIANTS
    ExitIsVerdict
    ArtifactsAreWhole
PROPERTIES
    StreamHasAll
    FollowersEnd
