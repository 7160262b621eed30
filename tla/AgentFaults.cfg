\* Safety with every fault: refused tasks, failed publishes, failed steps, lost
\* connections, resets and a restart.
SPECIFICATION Spec
CONSTANTS
    User = {u1, u2}
    ResetId = reset_id
    NoUser = no_user
    UserIdCheck = TRUE
    FactoryResetReporting = TRUE
    MaxRetries = 1
    MaxRefusals = 2
    PublishMayFail = TRUE
    ProvisionFirst = FALSE
    StepsMayFail = TRUE
    UsersMayReset = TRUE
    AppMayStop = TRUE
    MaxRequests = 2
    MaxDrops = 0
    MaxReboots = 1
INVARIANT DoneMeansCloudAgrees
INVARIANT PublishedOnce
PROPERTY StartedAfterConfig
PROPERTY ImplementsAssociation
CHECK_DEADLOCK FALSE
SYMMETRY UserSymmetry
