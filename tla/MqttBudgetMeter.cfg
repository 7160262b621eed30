\* Three publishers, a budget small enough to run out and to be clamped.
SPECIFICATION FairMeteredSpec
CONSTANTS
    Publisher = {p1, p2, p3}
    DefaultBudget = 1
    MaxBudget = 2
    ReviveCount = 2
    ResourcesMayFail = TRUE
    SentBound = 5
    GrantBound = 3
    UnmeteredBound = 2
 
INVARIANT RateBound
PROPERTY BudgetRevives
