\* Two processes race for one digest, through both APIs; signers disagree between attempts.
SPECIFICATION Spec
CONSTANTS
    A = A
    B = B
    a1 = a1
    a2 = a2
    b1 = b1
    rq1 = rq1
    rq1x = rq1x
    rq2 = rq2
    rq4 = rq4
    legacy1 = legacy1
    Key = {a1, a2, b1}
    Vault = {A, B}
    VaultOf <- MCVaultOf
    Request <- MCRequest
    Allowance = 4
    MaxInt64 = 7
    NULL = NULL
    Process = {p1, p2}
    Caller = {c1, c2}
    CoSig = {s1, s2}
    Period = {1, 2}
    Input <- MixedInput
    MaxSigns = 2
INVARIANTS
    KeyUseIsReserved
    AnswersAgree
    LegacySignsOnce
