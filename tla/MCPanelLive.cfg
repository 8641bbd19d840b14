SPECIFICATION FairPanelSpec
CONSTANTS
    s1 = s1
    i1 = i1
    i2 = i2
    Sites = {s1}
    Ids = {i1, i2}
    ClientKinds = {"create", "start", "stop", "delete", "prepare-restore", "backup", "restore", "update", "resources"}
    Actions = {"create", "retry", "stop", "delete", "backup", "resources"}
    Retention = 1
    MaxFaults = 1
    MaxUpsets = 2
PROPERTIES
    MarkerResolved
