SPECIFICATION Spec
CONSTANTS
    Process = {p1, p2}
    t1 = t1
    t2 = t2
    t3 = t3
    c1 = c1
    c2 = c2
    CredID = {c1, c2}
    Tuple <- MCTuple
    CredOf <- MCCredOf
    Tenant = {v1, v2}
    LegacyFirstVaultID = first
    Invite = {i1}
    Bootstrap = {token, bad, NULL}
    EnrollmentToken = token
    OpenEnrollment = FALSE
    MayLoseDatabase = FALSE
    NULL = NULL
INVARIANT RegisteredIsStored
INVARIANT DualWriteAgrees
INVARIANT FirstClaimCarriesToken
