SPECIFICATION FairSpec
CONSTANTS
    Current = cur
    Other = other
    User = user
    Old1 = dep
    Arkd = arkd
    Deprecated <- MCDeprecated
    ScriptA = sa
    ScriptB = sb
    NoScript = none
    Nil = nil
    Cutoff = 1
    MaxNow = 1
    MaxAttempts = 2
    LookupAttempts = 2
    MaxRequests = 1
    AnchorValue = 1
    Requests <- MCRequests
PROPERTY NeverWedged
CHECK_DEADLOCK FALSE
