\* Two tasks whose calls overlap; nothing fails.
SPECIFICATION FairSpec
CONSTANTS
    Param = {p1, p2}
    Value = {v0, v1}
    Default = v0
    NoValue = no_value
    NoParam = no_param
    Persist = {p1}
    Task = {agent, app, app2}
    Agent = agent
    OneCaller = FALSE
    MaxCalls = 2
    MaxFailures = 0
    MaxRestarts = 0
PROPERTY ReportsArrive
CHECK_DEADLOCK FALSE
