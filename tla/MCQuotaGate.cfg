SPECIFICATION GateSpec
CONSTANTS
    MaxRequests = 3
    MaxFaults = 2
    MaxChanges = 1
INVARIANTS
    RestartIsOurs
PROPERTIES
    LaunchVerified
    ResumeIsIntended
    FailureBlocks
    UnentitledStopped
