\* A job with no dates, with dates alone or with a window across midnight, an
\* application that asks too, lost connections, a restart and failures.
SPECIFICATION FairSpec
CONSTANTS
    Day = 3
    Period = 3
    LongestDelay = 2
    MaxTimers = 3
    MsgId = {1, 2}
    Starts = {2}
    Ends = {4}
    Froms = {2}
    Tos = {0}
    MaxCalls = 1
    MaxTrouble = 2
INVARIANT RequestsEnd
INVARIANT WindowIsKept
PROPERTY RetriesDoNotMultiply
PROPERTY Punctual
 
CHECK_DEADLOCK FALSE
