SPECIFICATION FairSpec
CONSTANTS
    Current = cur
    Other = other
    User = user
    Old1 = dep
    Arkd = arkd
    Deprecated <- MCDeprecated
    ScriptA = sa
    ScriptB = sb
    NoScript = none
    Nil = nil
    Cutoff = 1
    MaxNow = 3
    MaxAttempts = 2
    LookupAttempts = 2
    MaxRequests = 2
    AnchorValue = 1
    Requests <- MCRequests
INVARIANTS SpendsWhatItSays ArkdLeafStaysOffchain FinalizedComplete
PROPERTIES RefinesCovenant ReleasedInTime RequestReturns
CHECK_DEADLOCK FALSE
