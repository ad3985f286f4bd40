SPECIFICATION Spec
CONSTANTS
    MaxSatoshi = 20000
    MaxInt64 = 60000
    DustSats = 330
    NULL = NULL
    Records <- MCRecords
    Prevs <- MCPrevs
    Dests <- MCDests
    Amounts <- MCAmounts
    Fees <- MCFees
    Edited <- MCEdited
    MaxEdits = 2
INVARIANTS AuthorizedIsSigned ScriptBoundsLoss ScriptAgrees BoundIsAuthorizable ChallengeIsOneSpend BuildersConserve
CHECK_DEADLOCK FALSE
