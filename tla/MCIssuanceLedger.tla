-------------------------- MODULE MCIssuanceLedger --------------------------
(***************************************************************************)
(* Instances of IssuanceLedger for TLC.  Two vaults share no budget: keys  *)
(* a1 and a2 belong to vault A, b1 to vault B.                             *)
(***************************************************************************)
EXTENDS IssuanceLedger, TLC

CONSTANTS A, B, a1, a2, b1, rq1, rq1x, rq2, rq4, legacy1

MCVaultOf == (a1 :> A) @@ (a2 :> A) @@ (b1 :> B)

Args(k, r, recipient, fee, resume) ==
    [key |-> k, request |-> r, recipient |-> recipient, fee |-> fee, resumeReserved |-> resume]

\* Budget 4 a day.  In vault A rq1 (2+1), or the same spend in the text rq1x,
\* and rq2 (1+1) do not fit one day; in vault B rq4's sum overflows int64 (7).
ProcessInput == {Args(a1, rq1, 2, 1, TRUE), Args(a1, rq1x, 2, 1, TRUE),
                 Args(a2, rq2, 1, 1, TRUE), Args(b1, rq4, 7, 1, TRUE)}

\* One digest under contention, in two texts.
ContendedInput == {Args(a1, rq1, 2, 1, TRUE), Args(a1, rq1x, 2, 1, TRUE)}

\* The same, with the one-stage API on that digest.
MixedInput == ContendedInput \cup {Args(a1, legacy1, 2, 1, FALSE)}

\* The request texts of the instance.
MCRequest == {in.request : in \in Input}
=============================================================================
