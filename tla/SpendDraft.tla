----------------------------- MODULE SpendDraft -----------------------------
(***************************************************************************)
(* A spend on its way to the authorizer: Draft, Preflight, the user's      *)
(* device, Bind and the checks of Authorize, over a PSBT that the client   *)
(* holds and may change between any two of these calls.  The service keeps *)
(* nothing between them: each call classifies what it is given.            *)
(***************************************************************************)
EXTENDS SpendRules

CONSTANTS
    Records,     \* vault records of the store
    Prevs,       \* transactions with outputs to the vault and others
    Dests,       \* scripts a client asks to pay
    Amounts, Fees,
    Edited(_),   \* what a change of one field can make of a PSBT
    MaxEdits     \* bound on the changes between Draft and Authorize

VARIABLES
    op,          \* the enrolled Operational vault
    asked,       \* what the builder of the PSBT was asked for: path, amount, fee
    psbt,        \* the PSBT the client holds
    edits,       \* changes since it was built
    proofs,      \* challenges the user's device has signed
    bound,       \* what Bind was given when the PSBT is its answer
    authorized   \* the last PSBT Authorize went on with

ASSUME StoreAssumption ==
    \A r \in Records :
        /\ \A key \in {r.phone, r.owner, r.recovery, r.vaultBase, r.arkadeBase} :
              key = BaseKey(key.id)
        /\ r.scriptLen \in Nat \ {0}
        /\ AuthScript(r.policy, r.direct, r.scriptLen) # NULL
        /\ {r.policy.dust, r.policy.cap, r.policy.feeCeiling, r.policy.feerate} \subseteq Int

ASSUME RequestAssumption ==
    /\ \A prev \in Prevs : IsTuple(prev.outs) /\ \A i \in DOMAIN prev.outs : OutputShape(prev.outs[i])
    /\ \A dest \in Dests : ScriptShape(dest)
    /\ Amounts \subseteq Int /\ Fees \subseteq Int

\* The vaults that the records of the store describe.
Ops == UNION {NewFromRecord(r) : r \in Records}

vars == <<op, asked, psbt, edits, proofs, bound, authorized>>

Init ==
    /\ op \in Ops
    /\ asked = NULL
    /\ psbt = NULL
    /\ edits = 0
    /\ proofs = {}
    /\ bound = NULL
    /\ authorized = NULL

\* An answer replaces what the client held.
Hold(p) == psbt' = p

Request(path, amount, fee) == asked' = [path |-> path, amount |-> amount, fee |-> fee]

\* The outpoint is derived from the transaction the request carries.
OutPointOf(prev, vout) == [txid |-> prev.txid, index |-> vout]

\* DraftContext
Draft(prev, vout, dest, amount, fee) ==
    /\ psbt = NULL
    /\ \E p \in BuildRoutineSpend(op, prev, OutPointOf(prev, vout), dest, amount, fee) :
          classifySpend(p, op) /\ Hold(p)
    /\ Request("routine", amount, fee)
    /\ bound' = NULL
    /\ UNCHANGED <<op, edits, proofs, authorized>>

\* The tools that build the other two paths.
BuildAdmin(prev, vout, dest, amount, fee) ==
    /\ psbt = NULL
    /\ \E p \in AdminSpend(op, prev, OutPointOf(prev, vout), dest, amount, fee) : Hold(p)
    /\ Request("admin", amount, fee)
    /\ bound' = NULL
    /\ UNCHANGED <<op, edits, proofs, authorized>>

BuildRecovery(prev, vout, dest, amount, fee) ==
    /\ psbt = NULL
    /\ \E p \in RecoverySpend(op, prev, OutPointOf(prev, vout), dest, amount, fee) : Hold(p)
    /\ Request("recovery", amount, fee)
    /\ bound' = NULL
    /\ UNCHANGED <<op, edits, proofs, authorized>>

\* The client, or whoever has the PSBT, changes a field of it.  What does not
\* decode afterwards is refused by every call.
Edit ==
    /\ psbt # NULL
    /\ edits < MaxEdits
    /\ \E p \in Edited(psbt) : PSBTShape(p) /\ psbt' = p
    /\ edits' = edits + 1
    /\ asked' = NULL
    /\ bound' = NULL
    /\ UNCHANGED <<op, proofs, authorized>>

\* PreflightContext returns the challenge, and the device signs it, with the
\* passkey and with the direct key.
Preflight ==
    /\ psbt # NULL
    /\ classifySpend(psbt, op)
    /\ proofs' = proofs \cup {Challenge(psbt, op.routine)}
    /\ UNCHANGED <<op, asked, psbt, edits, bound, authorized>>

\* BindContext: the assertion and the direct signature are over the challenge
\* of the PSBT that came in; the signature becomes the packet witness and the
\* PSBT is encoded again.
Bind ==
    LET challenge == Challenge(psbt, op.routine) IN
    /\ psbt # NULL
    /\ classifySpend(psbt, op)
    /\ challenge \in proofs
    /\ \E tx \in SetPacketWitness(psbt.tx, <<DirectItem(challenge)>>) :
          psbt' = Encoded([psbt EXCEPT !.tx = tx])
    /\ bound' = psbt
    /\ UNCHANGED <<op, asked, edits, proofs, authorized>>

\* The device signs what the client holds, whatever the authorizer thinks of
\* it, and writes the witness itself.
SelfBind ==
    /\ psbt # NULL
    /\ psbt.leaves # <<>>
    /\ \E tx \in SetPacketWitness(psbt.tx, <<DirectItem(Challenge(psbt, psbt.leaves[1]))>>) :
          psbt' = [psbt EXCEPT !.tx = tx]
    /\ asked' = NULL
    /\ bound' = NULL
    /\ UNCHANGED <<op, edits, proofs, authorized>>

\* verifyAuthorizeRequest: allowance is reserved for this PSBT next, and its
\* encoding is what the row keeps and the cosigners are given.
Authorize ==
    /\ psbt # NULL
    /\ Authorizable(psbt, op)
    /\ Challenge(psbt, op.routine) \in proofs
    /\ authorized' = psbt
    /\ UNCHANGED <<op, asked, psbt, edits, proofs, bound>>

Next ==
    \/ \E prev \in Prevs, vout \in 0 .. 1, dest \in Dests, amount \in Amounts, fee \in Fees :
          \/ Draft(prev, vout, dest, amount, fee)
          \/ BuildAdmin(prev, vout, dest, amount, fee)
          \/ BuildRecovery(prev, vout, dest, amount, fee)
    \/ Edit \/ Preflight \/ Bind \/ SelfBind \/ Authorize

Spec == Init /\ [][Next]_vars

-----------------------------------------------------------------------------
(***************************************************************************)
(* Properties.                                                             *)
(***************************************************************************)
\* What Authorize goes on with and reserves allowance for, the authorization
\* script and LocalSigner accept, although both are written independently of
\* the classifier, in another language and with a fixed witness size.  There
\* is one exception: neither classify nor verifyAuthorization looks at the
\* final fields of the input, and the encoding of a PSBT that has one lacks
\* the leaf, so that its allowance is reserved and LocalSigner refuses it
\* (service.go:1255, signer.go:43).
AuthorizedIsSigned ==
    authorized # NULL => (LocalSigns(Encoded(authorized), op) <=> ~authorized.final)

\* The value that comes back to the script that is spent.
Returned(p) ==
    Total([i \in 1 .. Len(p.tx.outs) |->
              IF p.tx.outs[i].script = p.utxo.script THEN p.tx.outs[i].value ELSE 0])

\* The script alone, without the authorizer's checks, lets at most the
\* recipient cap and the fee ceiling leave a vault, and what is left is a
\* spendable output of the same vault.  The limits are those of the vault
\* whose coin is spent, whichever vault is enrolled: the key that signs is
\* the same for all of them.
ScriptBoundsLoss ==
    psbt # NULL /\ LocalSigns(psbt, op) =>
        \A o \in Ops : psbt.utxo.script = o.pkScript =>
            /\ psbt.utxo.value - Returned(psbt) <= o.policy.cap + o.policy.feeCeiling
            /\ Returned(psbt) >= o.policy.dust

\* The int64 product of enforceStaticPolicy does not wrap.
FeerateFits(p, policy) == policy.feerate * ScriptVBytes(p.tx) <= MaxInt64

\* What the script accepts and the classifier of the vault that is spent does
\* not: a payment to the vault itself or to the anchor script, a second leaf
\* in the PSBT, and a fee rate whose int64 product wraps.  Everything else
\* the two decide alike.
ScriptAgrees ==
    psbt # NULL /\ LocalSigns(psbt, op) =>
        \A o \in Ops : psbt.utxo.script = o.pkScript =>
            \/ classifySpend(psbt, o)
            \/ psbt.tx.outs[1].script = o.pkScript
            \/ psbt.tx.outs[1].script.kind = "p2a"
            \/ Len(psbt.leaves) > 1
            \/ ~FeerateFits(psbt, o.policy)

\* The answer of Bind passes Authorize: writing the witness changes neither
\* the challenge the user has confirmed nor the classification, although the
\* size has changed since Preflight.  Three cases are refused: a fee rate
\* whose product then no longer fits int64, a PSBT that came with a longer
\* witness than Bind writes, whose fee no longer fits the size, and one that
\* came with a final field, whose leaf the encoding drops (Bind does not
\* classify its answer).
BoundIsAuthorizable ==
    /\ bound # NULL
    /\ ~bound.final
    /\ FeerateFits(psbt, op.policy)
    /\ StrippedSize(bound.tx) <= StrippedSize(psbt.tx)
    => Authorizable(psbt, op) /\ Challenge(psbt, op.routine) \in proofs

\* One challenge stands for one transaction up to the packet witness, so the
\* user's confirmation and the ledger's row cannot be used for another one:
\* the sighash hides how the packet is encoded, and the classifier insists on
\* one encoding.
Unsigned(pkt) ==
    [pkt EXCEPT !.entries = [i \in 1 .. Len(pkt.entries) |->
                                [pkt.entries[i] EXCEPT !.witness = <<>>]]]
UnsignedScript(s) ==
    [s EXCEPT !.packets = [i \in 1 .. Len(s.packets) |-> Unsigned(s.packets[i])]]
Unwitnessed(tx) ==
    [tx EXCEPT !.outs = [i \in 1 .. Len(tx.outs) |->
        IF IsExtension(tx.outs[i].script)
        THEN [tx.outs[i] EXCEPT !.script = UnsignedScript(@)]
        ELSE tx.outs[i]]]
ChallengeIsOneSpend ==
    authorized # NULL /\ psbt # NULL /\ classifySpend(psbt, op)
    /\ Challenge(psbt, op.routine) = Challenge(authorized, op.routine) =>
        Unwitnessed(psbt.tx) = Unwitnessed(authorized.tx)

\* Every builder spends exactly what it was asked to: the outputs and the
\* requested fee add up to the input, and change is never dust.  Bind keeps it
\* so.
BuildersConserve ==
    asked # NULL =>
        /\ psbt.utxo.value = OutSum(psbt.tx) + asked.fee
        /\ psbt.tx.outs[1].value = asked.amount
        /\ \A i \in 2 .. Len(psbt.tx.outs) :
              IsChange(psbt.tx.outs[i], op) =>
                  psbt.tx.outs[i].value >= IF asked.path = "routine" THEN op.policy.dust ELSE DustSats
=============================================================================
