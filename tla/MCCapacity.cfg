SPECIFICATION CapacitySpec
CONSTANTS
    Sites = {s1, s2}
    MemorySizes = {0, 1, 4}
    CpuSizes = {1, 2}
    HostMemory = 12
    HostCpus = 8
    OtherUses = {0, 1}
    MaxFaults = 2
SYMMETRY MCSymmetry
INVARIANTS
    ConfiguredFits
    RunningFits
    ReservationHeld
