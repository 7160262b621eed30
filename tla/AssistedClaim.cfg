\* A phone that repeats, restarts and aborts, and a node that restarts.
SPECIFICATION Spec
CONSTANTS
    NodeId = {n, m}
    Mac = mac
    None = none
    Request = request
    NumFrags = 2
    MaxCommands = 9
    MaxFaults = 1
    MaxReboots = 1
 
INVARIANT RequestWasSent
PROPERTY EndsWell
CHECK_DEADLOCK FALSE
