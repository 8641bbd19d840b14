SPECIFICATION ConfigSpec
CONSTANTS
    MaxTimers = 3
    MaxFailures = 2
    MaxRequests = 5
CHECK_DEADLOCK FALSE
INVARIANTS
    ConfigUsable
PROPERTIES
    ToolCloses
    RoutesConverge
