SPECIFICATION Spec
CONSTANTS
    Id = {s, t}
    Absent = Absent
    MaxSchedules = 2
    QueueSize = 2
    MaxRequests = 3
    MaxReboots = 1
    MaxFullQueue = 1
INVARIANTS
    TriggersAreOwed
    EnabledIsWatched
    SurvivesReboot
PROPERTIES
    OneTimeEnds
CHECK_DEADLOCK FALSE
