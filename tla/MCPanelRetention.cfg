SPECIFICATION PanelSpec
CONSTANTS
    s1 = s1
    i1 = i1
    i2 = i2
    i3 = i3
    i4 = i4
    Sites = {s1}
    Ids = {i1, i2, i3, i4}
    ClientKinds = {"create", "start", "stop", "delete", "prepare-restore", "backup", "restore", "update", "resources"}
    Actions = {"create", "scheduled"}
    Retention = 1
    MaxFaults = 0
    MaxUpsets = 1
SYMMETRY IdSymmetry
INVARIANT RetentionRecovers
