\* Groups that change on and off line, lost connections, late wills, restarts.
SPECIFICATION NodeSpec
CONSTANTS
    Group = {g, h, l}
    TooLong = {l}
    NoGroup = no_group
    Closed = closed
    QueueSize = 2
    MaxWrites = 2
    MaxDrops = 1
    MaxReboots = 1
    MaxFaults = 1
INVARIANT GroupIsOne
INVARIANT BrokerIsRight
PROPERTY ConnectionIsShown
CHECK_DEADLOCK FALSE
