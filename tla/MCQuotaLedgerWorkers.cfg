SPECIFICATION LedgerSpec
CONSTANTS
    Sites = {s1, s2}
    Workers = {w1, w2}
    MaxProject = 3
    Foreign = {2}
    Nodes = {n1}
    MaxWrites = 0
    MaxTransitions = 2
    MaxFaults = 2
    Acts <- MCActs
INVARIANT ProjectsUnique
PROPERTY TransitionEnds
