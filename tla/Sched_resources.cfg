SPECIFICATION FairSpec
CONSTANTS
    Tasks = {1, 2}
    NeedsClaude = {}
    BringsToken = {}
    CPUs <- Graded
    Memory <- Graded
    HostCPUs = 2
    Probes = {2, 3}
    Headroom = 1
    MaxVMs = 2
    MaxAttempts = 1
    MaxCrashes = 1
    FaultyDisk = FALSE
INVARIANTS
    RunningWithinCPUs
    Cancellable
PROPERTIES
    NoOvertaking
    EventuallySettled
