\* Both builds, provisioned or not, seven calls, two failures.
SPECIFICATION ServicesSpec
CONSTANTS
    NumFragments = 3
    MaxVersions = 2
    MaxCalls = 7
    MaxFailures = 2
 
INVARIANT WholeCopy
PROPERTY ComesUp
PROPERTY DisableStops
CHECK_DEADLOCK FALSE
