\* The agent's task and an application's, a call at a time.
SPECIFICATION FairSpec
CONSTANTS
    Param = {p1, p2}
    Value = {v0, v1}
    Default = v0
    NoValue = no_value
    NoParam = no_param
    Persist = {p1}
    Task = {agent, app}
    Agent = agent
    OneCaller = TRUE
    MaxCalls = 3
    MaxFailures = 1
    MaxRestarts = 1
INVARIANT ReportsAreTrue
PROPERTY RestartKeeps
PROPERTY ReportsArrive
CHECK_DEADLOCK FALSE
