SPECIFICATION LedgerSpec
CONSTANTS
    Sites = {s1, s2}
    Workers = {w1}
    MaxProject = 3
    Foreign = {2}
    Nodes = {n1, n2}
    MaxWrites = 1
    MaxTransitions = 4
    MaxFaults = 2
    Acts <- Interferences
SYMMETRY MCSymmetry
INVARIANT PreparationSound
PROPERTY RefusedForCause
