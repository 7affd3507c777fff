SPECIFICATION Spec
CONSTANTS
    Tasks = {1, 2}
    NeedsClaude = {1, 2}
    BringsToken = {2}
    CPUs <- None
    Memory <- None
    HostCPUs = 1
    Probes = {0}
    Headroom = 0
    MaxVMs = 1
    MaxAttempts = 2
    MaxCrashes = 1
    FaultyDisk = FALSE
INVARIANTS
    Inv
    AtMostOneJob
    RunningIsSupervised
    RunningWithinSlots
PROPERTIES
    NoRerun
    FinalOutcome
    KeepsToLife
