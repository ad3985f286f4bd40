SPECIFICATION FairSpec
CONSTANTS
    Tx = {"a", "b", "c", "d", "e"}
    Challenge = {"h1", "h2"}
    ChallengeOf <- MCChallengeOf
    OutPoint = {"o1"}
    Spends <- MCSpends
    Routine <- MCRoutine
    DirectAuth <- MCDirectAuth
    Nonce = {1}
    Foreign <- MCForeign
    Caller = {p1, p2}
    NULL = NULL
INVARIANTS OneSpendPerChallenge VaultSignsOnlyApproved CompletedPublishable
PROPERTIES PublishReturns
