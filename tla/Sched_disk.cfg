SPECIFICATION Spec
CONSTANTS
    Tasks = {1}
    NeedsClaude = {1}
    BringsToken = {}
    CPUs <- None
    Memory <- None
    HostCPUs = 1
    Probes = {0}
    Headroom = 0
    MaxVMs = 1
    MaxAttempts = 3
    MaxCrashes = 2
    FaultyDisk = TRUE
INVARIANTS
    SucceededByItsJob
PROPERTIES
    KeepsToLife
