--------------------------- MODULE SpendAuthority ---------------------------
(***************************************************************************)
(* What the issuance ledger promises its callers, without processes,       *)
(* mutexes, stages or failures.  Each spend digest is granted at most once *)
(* and to one request text, the grants of a vault on a UTC day stay within *)
(* the allowance, and a granted digest is decided at most once: there is a *)
(* single signed PSBT, for the granted request, that anybody is answered.  *)
(***************************************************************************)
EXTENDS Integers, OutflowSum

CONSTANTS
    Key,         \* primary keys (vault_id, arkade_sighash)
    Vault,       \* vault ids
    VaultOf,     \* [Key -> Vault]
    Request,     \* exact normalized PSBT texts
    Signed,      \* signed PSBTs, each with the request it extends
    Period,      \* UTC days
    Allowance    \* satoshis a vault may spend on one day

VARIABLES
    grant,       \* the granted digests: [period, request, sats] by key
    decision,    \* the decided digests: the signed PSBT by key
    answered     \* every [key, psbt] handed out

vars == <<grant, decision, answered>>

GrantedSats == [k \in DOMAIN grant |-> grant[k].sats]
GrantsOn(v, p) == {k \in DOMAIN grant : VaultOf[k] = v /\ grant[k].period = p}
Spent(v, p) == SumOver(GrantedSats, GrantsOn(v, p))

Init ==
    /\ grant = [k \in {} |-> 0]
    /\ decision = [k \in {} |-> 0]
    /\ answered = {}

Grant(k, p, r, n) ==
    /\ k \notin DOMAIN grant
    /\ n <= Allowance - Spent(VaultOf[k], p)
    /\ grant' = [x \in DOMAIN grant \cup {k} |->
                   IF x = k THEN [period |-> p, request |-> r, sats |-> n] ELSE grant[x]]
    /\ UNCHANGED <<decision, answered>>

\* The decision may be answered at once, or its answer may be lost.
Decide(k, s) ==
    /\ k \in DOMAIN grant /\ k \notin DOMAIN decision
    /\ s.request = grant[k].request
    /\ decision' = [x \in DOMAIN decision \cup {k} |-> IF x = k THEN s ELSE decision[x]]
    /\ answered' \in {answered, answered \cup {[key |-> k, psbt |-> s]}}
    /\ UNCHANGED grant

Answer(k) ==
    /\ k \in DOMAIN decision
    /\ answered' = answered \cup {[key |-> k, psbt |-> decision[k]]}
    /\ UNCHANGED <<grant, decision>>

Next == \E k \in Key :
    \/ \E p \in Period, r \in Request, n \in 1..Allowance : Grant(k, p, r, n)
    \/ \E s \in Signed : Decide(k, s)
    \/ Answer(k)

Spec == Init /\ [][Next]_vars
=============================================================================
