\* Requests come before the network is up, the work queue refuses tasks, a
\* connection is lost: nothing is forgotten, and with luck the agent starts.
SPECIFICATION FairSpec
CONSTANTS
    User = {u1, u2}
    ResetId = reset_id
    NoUser = no_user
    UserIdCheck = TRUE
    FactoryResetReporting = TRUE
    MaxRetries = 3
    MaxRefusals = 2
    PublishMayFail = FALSE
    ProvisionFirst = TRUE
    StepsMayFail = FALSE
    UsersMayReset = FALSE
    AppMayStop = FALSE
    MaxRequests = 2
    MaxDrops = 1
    MaxReboots = 0
 
PROPERTY AgentStarts
 
CHECK_DEADLOCK FALSE
