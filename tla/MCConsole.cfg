SPECIFICATION ConsoleSpec
CONSTANTS
    FilePaths <- MCFilePaths
    InitialTree <- MCInitialTree
    Habits <- MCHabits
    MaxContents = 2
    PlanNames = {"gold"}
    MaxPlans = 1
    Interval = 1
    MaxTime = 2
    MaxForms = 4
    MaxFaults = 1
CHECK_DEADLOCK FALSE
INVARIANTS
    OffersAccepted
    SubmittedAsShown
    MailInForce
PROPERTIES
    ScheduleHonoured
    ScheduleServed
    FilesConserved
