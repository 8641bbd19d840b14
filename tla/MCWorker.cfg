SPECIFICATION Spec
CONSTANTS
    Sites = {s1}
    Ids = {i1, i2}
    ClientKinds = {"create", "start", "stop", "delete", "prepare-restore", "backup",
                   "restore", "update", "resources"}
    MaxFaults = 3
SYMMETRY IdSymmetry
INVARIANTS
    TypeOK
    NoOrphanJobs
    ReceiptBeforeEffects
    OneJobPerSite
    TornNotServed
    ConfirmedIsDone
PROPERTIES
    ImplementsFencedOperations
