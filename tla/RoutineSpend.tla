---------------------------- MODULE RoutineSpend ----------------------------
(***************************************************************************)
(* One routine spend from the request to the chain: the signature checks   *)
(* of Service.Authorize, the two signing stages over an untrusted public   *)
(* signer (signExactStage), and Publish / PublicationStatus over an        *)
(* unreliable node.                                                        *)
(*                                                                         *)
(* The issuance rows advance as IssuanceLedger shows they do: the first    *)
(* request of a challenge is bound, later texts are refused, a completed   *)
(* row stays.  Here the rows hold PSBTs with their signatures.             *)
(***************************************************************************)
EXTENDS Naturals

CONSTANTS
    Tx,          \* unsigned transactions, the packet witness included
    Challenge,   \* Arkade sighashes: they do not cover the packet witness
    ChallengeOf, \* [Tx -> Challenge]
    OutPoint,    \* operational vault outputs
    Spends,      \* [Tx -> OutPoint]
    Routine,     \* the transactions classifySpend accepts
    DirectAuth,  \* the transactions whose witness is the direct signature
    Nonce,       \* tells the signatures of one key over one transaction apart
    Foreign,     \* entries the public signer may put into its response
    Caller,      \* goroutines that run Publish
    NULL

Signer == {"phone", "vault", "arkade"}

\* A 64-byte string: a signature by a key over a transaction with the routine
\* leaf, or, by "nobody", a string no key has made.
Bytes == [by: Signer \cup {"nobody"}, tx: Tx, n: Nonce]

\* A TaprootScriptSpendSig entry: x-only key, leaf hash, sighash type, bytes.
Entry == [key: Signer \cup {"nobody"}, leaf: {"routine", "other"},
          sighash: {"default", "other"}, bytes: Bytes]

\* A parsed PSBT.  The parser refuses two entries with one key and leaf, so
\* the entries are a set.
Packet == [tx: Tx, sigs: SUBSET Entry]

ASSUME SpendAssumption ==
    /\ ChallengeOf \in [Tx -> Challenge]
    /\ Spends \in [Tx -> OutPoint]
    /\ Routine \subseteq Tx
    /\ DirectAuth \subseteq Tx
    /\ Foreign \subseteq Entry
    /\ NULL \notin Packet

VARIABLES
    asserted,    \* challenges the user has confirmed with the passkey
    made,        \* signatures that exist, whoever holds them
    row,         \* the issuance row of each challenge
    chain,       \* the node: transactions in its mempool and in blocks
    call,        \* the local state of each Publish
    sent,        \* history: raw transactions handed to the node
    seen,        \* history: transactions the node has ever accepted
    reports      \* history: what Publish and PublicationStatus answered

vars == <<asserted, made, row, chain, call, sent, seen, reports>>

NoRow == [state |-> "none", psbt |-> NULL]
Row == {NoRow} \cup [state: {"reserved", "vault_signed", "completed"}, psbt: Packet]

\* A finalized transaction: the witness has one signature per key.
Raw == [tx: Tx, witness: [Signer -> Bytes]]

Idle == [pc |-> "idle"]
ActiveCall == [pc: {"lookup", "broadcast", "confirm"}, raw: Raw]

Init ==
    /\ asserted = {}
    /\ made = {}
    /\ row = [h \in Challenge |-> NoRow]
    /\ chain = [mempool |-> {}, blocks |-> {}]
    /\ call = [c \in Caller |-> Idle]
    /\ sent = {}
    /\ seen = {}
    /\ reports = {}

-----------------------------------------------------------------------------
(***************************************************************************)
(* Signature checks.                                                       *)
(***************************************************************************)
SignedBy(bytes, key, tx) == bytes.by = key /\ bytes.tx = tx

\* Mutant: the digest is not tied to the submitted transaction.
VerifyAnyTx(tx, e, key) == e.bytes.by = key

\* verifySignerSig
VerifySignerSig(tx, e, key) == SignedBy(e.bytes, key, tx)

OnRoutineLeaf(e) == e.leaf = "routine" /\ e.sighash = "default"

\* Mutant: the phone's signature is not required.
VerifyNothing(p) == \A e \in p.sigs : e.key = "phone"

\* verifyPhoneRoutineSignature: exactly one entry, the phone's.
VerifyPhoneRoutineSignature(p) ==
    \E e \in p.sigs :
        /\ p.sigs = {e}
        /\ e.key = "phone"
        /\ OnRoutineLeaf(e)
        /\ SignedBy(e.bytes, "phone", p.tx)

\* verifyExactRoutineSignatures
VerifyExactRoutineSignatures(p, keys) ==
    /\ \A e \in p.sigs :
          /\ OnRoutineLeaf(e)
          /\ e.key \in keys
          /\ VerifySignerSig(p.tx, e, e.key)
    /\ \A e, f \in p.sigs : e.key = f.key => e = f
    /\ \A k \in keys : \E e \in p.sigs : e.key = k

\* extractVerifiedSignerSig: the entries that were not in the submitted
\* packet (indexOriginalSig) and are the expected signature of it.
ExpectedSigs(submitted, response, key) ==
    {e \in response.sigs \ submitted.sigs :
        e.key = key /\ OnRoutineLeaf(e) /\ VerifySignerSig(submitted.tx, e, key)}

\* The end of signExactStage: the one expected signature is appended to a
\* clone of the submitted packet; none, or more than one, is an error.
ImportExact(submitted, response, key) ==
    LET expected == ExpectedSigs(submitted, response, key) IN
    {[submitted EXCEPT !.sigs = @ \cup {e}] : e \in {x \in expected : expected = {x}}}

\* RemoteSigner.SignExpected: an entry of the expected key may not be there
\* yet; what it returns is its own import of the wire response.
SignExpected(submitted, wire, key) ==
    {out \in ImportExact(submitted, wire, key) : \A e \in submitted.sigs : e.key # key}

\* psbt.NewFromRawBytes refuses a duplicate key.
Parses(response) ==
    \A e, f \in response.sigs : e.key = f.key /\ e.leaf = f.leaf => e = f

-----------------------------------------------------------------------------
(***************************************************************************)
(* The user's device.                                                      *)
(***************************************************************************)
\* WebAuthn confirms a challenge.
Confirm(h) ==
    /\ asserted' = asserted \cup {h}
    /\ UNCHANGED <<made, row, chain, call, sent, seen, reports>>

\* The browser signs a transaction with the phone routine key.
PhoneSign(tx, n) ==
    /\ made' = made \cup {[by |-> "phone", tx |-> tx, n |-> n]}
    /\ UNCHANGED <<asserted, row, chain, call, sent, seen, reports>>

-----------------------------------------------------------------------------
(***************************************************************************)
(* Service.Authorize.  A request is a packet a client can put together     *)
(* from the signatures it holds.  Only packets with one entry, under the   *)
(* phone's key, are enumerated: verifyPhoneRoutineSignature refuses every  *)
(* other number and key.                                                   *)
(***************************************************************************)
ClientEntry ==
    [key: {"phone"}, leaf: {"routine", "other"}, sighash: {"default", "other"},
     bytes: made \cup {[by |-> "nobody", tx |-> tx, n |-> n] : tx \in Tx, n \in Nonce}]

\* verifyAuthorizeRequest
VerifyAuthorizeRequest(p) ==
    /\ p.tx \in Routine
    /\ ChallengeOf[p.tx] \in asserted
    /\ p.tx \in DirectAuth
    /\ VerifyPhoneRoutineSignature(p)

SetRow(h, state, p) == row' = [row EXCEPT ![h] = [state |-> state, psbt |-> p]]

\* Mutant: a later text of the same challenge replaces the bound one.
BindAgain(h, p) == SetRow(h, "reserved", p)

\* The first verified request of a challenge is reserved.
BindFirst(h, p) == row[h] = NoRow /\ SetRow(h, "reserved", p)

Reserve(p) ==
    /\ VerifyAuthorizeRequest(p)
    /\ BindFirst(ChallengeOf[p.tx], p)
    /\ UNCHANGED <<asserted, made, chain, call, sent, seen, reports>>

\* LocalSigner.Sign runs the authorization script, which checks the direct
\* signature, and signs with a deterministic nonce.
LocalSignature(tx, n) == [by |-> "vault", tx |-> tx, n |-> n]
LocalResponse(p, n) ==
    [p EXCEPT !.sigs = @ \cup {[key |-> "vault", leaf |-> "routine",
                               sighash |-> "default", bytes |-> LocalSignature(p.tx, n)]}]

\* The private stage: the key signs the stored request, and the result is
\* stored or lost.
VaultStage(h, n) ==
    LET submitted == row[h].psbt IN
    /\ row[h].state = "reserved"
    /\ submitted.tx \in DirectAuth
    /\ made' = made \cup {LocalSignature(submitted.tx, n)}
    /\ \/ \E out \in ImportExact(submitted, LocalResponse(submitted, n), "vault") :
            SetRow(h, "vault_signed", out)
       \/ UNCHANGED row
    /\ UNCHANGED <<asserted, chain, call, sent, seen, reports>>

\* Nobody forges the phone's or the private key's signature.
Forged(e) == e.bytes.by \in {"phone", "vault"} /\ e.bytes \notin made

\* The public stage: the signer returns any packet, over any transaction,
\* with entries dropped and added.  A response that is lost or refused leaves
\* the row as it is.
ArkadeStage(h, tx, drop, add) ==
    LET submitted == row[h].psbt
        wire == [tx |-> tx, sigs |-> (submitted.sigs \ drop) \cup add] IN
    /\ row[h].state = "vault_signed"
    /\ VerifyExactRoutineSignatures(submitted, {"phone", "vault"})
    /\ \A e \in add : ~Forged(e)
    /\ Parses(wire)
    /\ \E response \in SignExpected(submitted, wire, "arkade") :
       \E out \in ImportExact(submitted, response, "arkade") :
          /\ VerifyExactRoutineSignatures(out, Signer)
          /\ SetRow(h, "completed", out)
    /\ made' = made \cup {e.bytes : e \in {x \in add : x.bytes.by = "arkade"}}
    /\ UNCHANGED <<asserted, chain, call, sent, seen, reports>>

-----------------------------------------------------------------------------
(***************************************************************************)
(* Publication.                                                            *)
(***************************************************************************)
\* FinalizeRoutine: verifyRoutinePartials, then writeFinalWitness.
VerifyRoutinePartials(p) ==
    /\ Parses(p)
    /\ \A e \in p.sigs : OnRoutineLeaf(e) /\ e.key \in Signer
    /\ \A k \in Signer : \E e \in p.sigs : e.key = k /\ SignedBy(e.bytes, k, p.tx)

WitnessOf(p) == [k \in Signer |-> (CHOOSE e \in p.sigs : e.key = k).bytes]

\* The Bitcoin script engine on the routine leaf.
EngineAccepts(raw) == \A k \in Signer : SignedBy(raw.witness[k], k, raw.tx)

\* Ledger.Completed
Completed(h) == row[h].state = "completed"

\* The checks of preparePublication on the stored PSBT.
Publishable(h) ==
    LET p == row[h].psbt IN
    /\ p.tx \in Routine
    /\ ChallengeOf[p.tx] = h
    /\ p.tx \in DirectAuth
    /\ VerifyRoutinePartials(p)
    /\ EngineAccepts([tx |-> p.tx, witness |-> WitnessOf(p)])

PreparePublication(h) == [tx |-> row[h].psbt.tx, witness |-> WitnessOf(row[h].psbt)]

Publish(c, h) ==
    /\ call[c].pc = "idle"
    /\ Completed(h)
    /\ Publishable(h)
    /\ call' = [call EXCEPT ![c] = [pc |-> "lookup", raw |-> PreparePublication(h)]]
    /\ UNCHANGED <<asserted, made, row, chain, sent, seen, reports>>

Known(tx) == tx \in chain.mempool \cup chain.blocks

Finish(c) == call' = [call EXCEPT ![c] = Idle]
Report(tx) == reports' = reports \cup {tx}

\* The first Lookup: found, not found, or an error.
PublishLookup(c) ==
    LET tx == call[c].raw.tx IN
    /\ call[c].pc = "lookup"
    /\ \/ Known(tx) /\ Finish(c) /\ Report(tx)
       \/ ~Known(tx) /\ call' = [call EXCEPT ![c].pc = "broadcast"] /\ UNCHANGED reports
       \/ Finish(c) /\ UNCHANGED reports
    /\ UNCHANGED <<asserted, made, row, chain, sent, seen>>

\* The node accepts a transaction whose input no other one spends.
Conflicts(tx) == \E x \in chain.mempool \cup chain.blocks : Spends[x] = Spends[tx]
Accept(tx) ==
    /\ ~Conflicts(tx)
    /\ chain' = [chain EXCEPT !.mempool = @ \cup {tx}]
    /\ seen' = seen \cup {tx}

\* Broadcast failed or answered with the right txid: Lookup decides.
AfterBroadcast(c, tx) == call' = [call EXCEPT ![c].pc = "confirm"] /\ UNCHANGED reports

\* Broadcast: the call may be lost before or after the node has accepted, be
\* rejected, find the transaction there, or come back with another txid.
PublishBroadcast(c) ==
    LET tx == call[c].raw.tx IN
    /\ call[c].pc = "broadcast"
    /\ sent' = sent \cup {call[c].raw}
    /\ \/ Accept(tx) /\ AfterBroadcast(c, tx)
       \/ UNCHANGED <<chain, seen>> /\ AfterBroadcast(c, tx)
       \/ Accept(tx) /\ Finish(c) /\ UNCHANGED reports
       \/ UNCHANGED <<chain, seen, reports>> /\ Finish(c)
    /\ UNCHANGED <<asserted, made, row>>

\* Mutant: the call waits for the transaction to appear.
PublishConfirmWaits(c) ==
    LET tx == call[c].raw.tx IN
    /\ call[c].pc = "confirm"
    /\ Known(tx)
    /\ Finish(c)
    /\ Report(tx)
    /\ UNCHANGED <<asserted, made, row, chain, sent, seen>>

\* The second Lookup.
PublishConfirm(c) ==
    LET tx == call[c].raw.tx IN
    /\ call[c].pc = "confirm"
    /\ Finish(c)
    /\ \/ Known(tx) /\ Report(tx)
       \/ UNCHANGED reports
    /\ UNCHANGED <<asserted, made, row, chain, sent, seen>>

\* PublicationStatus answers only for a transaction the node knows.
PublicationStatus(h) ==
    /\ Completed(h)
    /\ Publishable(h)
    /\ Known(row[h].psbt.tx)
    /\ Report(row[h].psbt.tx)
    /\ UNCHANGED <<asserted, made, row, chain, call, sent, seen>>

\* The node's own steps: a block takes a transaction, the mempool drops one.
Mine(tx) ==
    /\ tx \in chain.mempool
    /\ chain' = [mempool |-> chain.mempool \ {tx}, blocks |-> chain.blocks \cup {tx}]
    /\ UNCHANGED <<asserted, made, row, call, sent, seen, reports>>

Evict(tx) ==
    /\ tx \in chain.mempool
    /\ chain' = [chain EXCEPT !.mempool = @ \ {tx}]
    /\ UNCHANGED <<asserted, made, row, call, sent, seen, reports>>

-----------------------------------------------------------------------------
Device == (\E h \in Challenge : Confirm(h)) \/ (\E tx \in Tx, n \in Nonce : PhoneSign(tx, n))

Authorize ==
    \/ \E tx \in Tx, e \in ClientEntry : Reserve([tx |-> tx, sigs |-> {e}])
    \/ \E h \in Challenge, n \in Nonce : VaultStage(h, n)
    \/ \E h \in Challenge, tx \in Tx, a, b \in Foreign :
         /\ row[h].state = "vault_signed"
         /\ \E drop \in SUBSET row[h].psbt.sigs : ArkadeStage(h, tx, drop, {a, b})

PublishStep(c) == PublishLookup(c) \/ PublishBroadcast(c) \/ PublishConfirm(c)

Publication ==
    \/ \E c \in Caller, h \in Challenge : Publish(c, h)
    \/ \E c \in Caller : PublishStep(c)
    \/ \E h \in Challenge : PublicationStatus(h)

Node == \E tx \in Tx : Mine(tx) \/ Evict(tx)

Next == Device \/ Authorize \/ Publication \/ Node

Spec == Init /\ [][Next]_vars

\* Every node call has a deadline (15 s for Esplora), so a Publish goes on.
FairSpec == Spec /\ \A c \in Caller : WF_vars(PublishStep(c))

-----------------------------------------------------------------------------
(***************************************************************************)
(* Properties.                                                             *)
(***************************************************************************)
\* The type invariant.
TypeOK ==
    /\ asserted \subseteq Challenge
    /\ made \subseteq Bytes
    /\ row \in [Challenge -> Row]
    /\ chain \in [mempool: SUBSET Tx, blocks: SUBSET Tx]
    /\ call \in [Caller -> {Idle} \cup ActiveCall]
    /\ sent \subseteq Raw
    /\ seen \subseteq Tx
    /\ reports \subseteq Tx

\* The private VaultCosigner key signs only transactions that are routine
\* spends, that the user confirmed with the passkey, that carry the direct
\* signature and that the phone key has signed (the order of the checks in
\* Authorize and of its signing closures).
VaultSignsOnlyApproved ==
    \A s \in made : s.by = "vault" =>
        /\ s.tx \in Routine \cap DirectAuth
        /\ ChallengeOf[s.tx] \in asserted
        /\ \E n \in Nonce : [by |-> "phone", tx |-> s.tx, n |-> n] \in made

\* Whatever the public signer answered, a completed row passes every check of
\* preparePublication, the independent FinalizeRoutine and the script engine
\* included: no allowance is spent on a PSBT that cannot be published.
CompletedPublishable == \A h \in Challenge : Completed(h) => Publishable(h)

\* The completed row of a transaction's challenge holds this transaction.
HoldsCompleted(tx) == Completed(ChallengeOf[tx]) /\ row[ChallengeOf[tx]].psbt.tx = tx

\* All broadcasts of one challenge are of one transaction, the one its
\* completed row holds, although transactions that differ in the packet
\* witness share a challenge.
OneSpendPerChallenge == \A r \in sent : HoldsCompleted(r.tx)

\* Publish and PublicationStatus report a txid only if the node has accepted
\* that transaction, whatever the outcome of the broadcast call was.
ReportedWasAccepted == reports \subseteq seen

\* A signing stage adds one signature, of the stage's own key, to the stored
\* packet and changes nothing else of it (the delta invariant of
\* signExactStage).
StageAddsOneSignature ==
    [][\A h \in Challenge : row[h] # NoRow /\ row'[h] # row[h] =>
         LET old == row[h].psbt
             new == row'[h].psbt
             key == IF row[h].state = "reserved" THEN "vault" ELSE "arkade" IN
         /\ new.tx = old.tx
         /\ \E e \in new.sigs :
               e.key = key /\ e \notin old.sigs /\ new.sigs = old.sigs \cup {e}]_vars

\* Every Publish returns.
PublishReturns == \A c \in Caller : call[c].pc # "idle" ~> call[c].pc = "idle"
=============================================================================
