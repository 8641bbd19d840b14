SPECIFICATION ToolSpec
CONSTANTS
    MaxTimers = 2
    MaxFailures = 0
PROPERTY FreshSession
