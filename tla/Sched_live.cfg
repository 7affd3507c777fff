SPECIFICATION FairSpec
CONSTANTS
    Tasks = {1, 2}
    NeedsClaude = {1}
    BringsToken = {}
    CPUs <- None
    Memory <- None
    HostCPUs = 1
    Probes = {0}
    Headroom = 0
    MaxVMs = 1
    MaxAttempts = 2
    MaxCrashes = 1
    FaultyDisk = FALSE
PROPERTIES
    EventuallySettled
