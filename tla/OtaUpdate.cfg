\* One job at a time, as the cloud offers them, with a crash and a lost report.
SPECIFICATION FairSpec
CONSTANTS
    Job = {j1, j2}
    NoJob = no_job
    Base = base
    Broken = broken
    ReportFailed = TRUE
    Overlap = FALSE
    MaxOffers = 4
    MaxCrashes = 1
    MaxLost = 1
INVARIANT UpdatesAreApart
INVARIANT NoFalseSuccess
PROPERTY NoLimbo
 
CHECK_DEADLOCK FALSE
