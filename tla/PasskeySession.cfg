SPECIFICATION FairSpec
CONSTANTS
    Caller = {c1, c2}
    Id = {i1, i2}
    Envelope = {e1, e2}
    TTL = 1
    MaxPasskeyChallenges = 1
    MaxVerifications = 1
    MaxTime = 1
    NULL = NULL
INVARIANTS AuthenticatedOnce EnvelopeCopiesAgree
PROPERTIES ConsumedInTime SlotsComeBack
