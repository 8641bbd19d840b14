SPECIFICATION PanelSpec
CONSTANTS
    s1 = s1
    i1 = i1
    i2 = i2
    i3 = i3
    i4 = i4
    i5 = i5
    Sites = {s1}
    Ids = {i1, i2, i3, i4, i5}
    ClientKinds = {"create", "start", "stop", "delete", "prepare-restore", "backup", "restore", "update", "resources"}
    Actions = {"create", "retry", "start", "stop", "delete", "backup", "scheduled", "update", "restore", "resources", "backup-delete"}
    Retention = 1
    MaxFaults = 1
    MaxUpsets = 1
SYMMETRY IdSymmetry
INVARIANTS
    UnsettledIsMarked
    SuccessIsConfirmed
    DeletionConfirmed
    ShownStatusIsReal
    BackupRecorded
    SafetyFirst
PROPERTIES
    RetentionSpares
