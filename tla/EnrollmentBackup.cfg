SPECIFICATION Spec
CONSTANTS
    Process = {p1}
    t1 = t1
    t2 = t2
    t3 = t3
    c1 = c1
    c2 = c2
    CredID = {c1, c2}
    Tuple <- MCTwoTuples
    CredOf <- MCTwoCredOf
    Tenant = {v1}
    LegacyFirstVaultID = first
    Invite = {i1}
    Bootstrap = {NULL}
    EnrollmentToken = token
    OpenEnrollment = TRUE
    MayLoseDatabase = TRUE
    NULL = NULL
INVARIANT BackupGuardsIdentity
INVARIANT RollbackFileKept
