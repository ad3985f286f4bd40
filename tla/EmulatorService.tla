-------------------------- MODULE EmulatorService --------------------------
(***************************************************************************)
(* The emulator service (internal/application): four operations that run   *)
(* the arkade scripts of a submitted transaction and sign with keys        *)
(* tweaked by them, and the calls to arkd that settle the result.          *)
(*                                                                         *)
(* A hash is the thing hashed: a txid is its transaction, a taproot output *)
(* script the set of leaves its tree commits, a tweaked key the pair of a  *)
(* signer and a script.  Inputs and outputs are numbered from 1, so input  *)
(* 1 of an intent proof is its message input.  Requests share nothing the  *)
(* service writes; one is in flight at a time.                             *)
(***************************************************************************)
EXTENDS Integers, Sequences

CONSTANTS
    Current,        \* the signer's key
    Deprecated,     \* sequence of the deprecated keys still configured
    Arkd,           \* arkd's key, as its GetInfo answers
    Cutoff,         \* deprecatedKeysValidUntil; 0 is unset
    MaxNow,         \* bound: the clock's last value
    MaxAttempts,    \* finalizeRetryConfig.MaxAttempts
    LookupAttempts, \* commitmentTxRetryConfig.MaxAttempts
    AnchorValue,    \* txutils.ANCHOR_VALUE
    Nil,            \* a nil pointer
    NoScript,       \* the tweak of an untweaked key
    MaxRequests,    \* bound: requests received in a behaviour
    Requests        \* the requests clients may submit

Elements(s) == {s[i] : i \in 1..Len(s)}

\* LoadConfig: the deprecated keys are distinct and exclude the current one.
ASSUME ConfigAssumption ==
    /\ Deprecated \in Seq(Elements(Deprecated))
    /\ \A i, j \in 1..Len(Deprecated) : i # j => Deprecated[i] # Deprecated[j]
    /\ \A i \in 1..Len(Deprecated) : Deprecated[i] # Current
    /\ Cutoff \in Nat /\ MaxNow \in Nat \ {0} /\ MaxRequests \in Nat
    /\ MaxAttempts \in Nat \ {0} /\ LookupAttempts \in Nat \ {0}

WellFormedInput(in) ==
    /\ in = [utxo |-> in.utxo, leaves |-> in.leaves, sighash |-> in.sighash,
             prev |-> in.prev, sigs |-> in.sigs]
    /\ \A l \in Elements(in.leaves) :
        l.leaf = [version |-> l.leaf.version, decodes |-> l.leaf.decodes, keys |-> l.leaf.keys]

\* What psbt.NewFromRawBytes returns: an input record per outpoint.
WellFormedPtx(ptx) ==
    /\ ptx = [tx |-> ptx.tx, inputs |-> ptx.inputs]
    /\ ptx.tx.packet \in Seq(Elements(ptx.tx.packet))
    /\ ptx.inputs \in Seq(Elements(ptx.inputs))
    /\ Len(ptx.inputs) = Len(ptx.tx.ins)
    /\ \A in \in Elements(ptx.inputs) : WellFormedInput(in)

\* The handlers decode every transaction of a request before the service
\* sees it; a commitment transaction is given or nil.
ASSUME RequestAssumption ==
    \A r \in Requests :
        /\ r.kind \in {"offchain", "intent", "onchain", "finalization"}
        /\ WellFormedPtx(r.ptx)
        /\ r.kind = "offchain" => \A c \in Elements(r.checkpoints) : WellFormedPtx(c)
        /\ r.kind = "finalization" =>
            /\ r = [kind |-> r.kind, ptx |-> r.ptx, forfeits |-> r.forfeits,
                    tree |-> r.tree, commitment |-> r.commitment]
            /\ \A f \in Elements(r.forfeits) : WellFormedPtx(f)
            /\ r.commitment # Nil => WellFormedPtx(r.commitment)

VARIABLES
    phase,      \* where the request in flight is
    req,        \* the request
    pos,        \* the packet entry the loop is at
    own,        \* the signatures put into the request's transactions so far
    lasts,      \* finalizerAccumulator.isLastByVin's values
    attempt,    \* retryWithBackoff's attempt
    started,    \* the clock when the request arrived
    now,        \* the clock
    executed,   \* [tx, input, script]: executions that succeeded
    released,   \* signatures that left the service
    finalized,  \* the FinalizeTx calls: the checkpoints with their signatures
    indexed,    \* commitment transactions arkd's indexer knows
    served      \* requests received

local == <<req, pos, own, lasts, attempt, started>>
vars == <<phase, local, now, executed, released, finalized, indexed, served>>
-----------------------------------------------------------------------------
(* Transactions *)

Anchor == [value |-> AnchorValue, pk |-> [kind |-> "anchor", leaves |-> {}]]

\* The output an outpoint names: what its txid hashes to.
OutputOf(op) == op.tx.outs[op.index]

Taproot(utxo) == utxo # Nil /\ utxo.pk.kind = "taproot"

\* VerifyTaprootLeafCommitment: the control block parses, carries the leaf's
\* version and proves the leaf under the output key.
Committed(in) ==
    /\ in.leaves[1].control = "ok"
    /\ in.leaves[1].leaf \in in.utxo.pk.leaves

TweakedKey(signer, script) == [signer |-> signer, script |-> script]

ArkdKey == TweakedKey(Arkd, NoScript)

\* computePrevoutFetcher: what the signature hash commits for every input.
Prevouts(ptx) == [i \in 1..Len(ptx.inputs) |-> ptx.inputs[i].utxo]

HasPrevouts(ptx) == \A i \in 1..Len(ptx.inputs) : ptx.inputs[i].utxo # Nil

\* Mutant: the amount is not compared.
ReconcileScriptOnly(prevTx, index, utxo) ==
    /\ utxo # Nil
    /\ index \in 1..Len(prevTx.outs)
    /\ prevTx.outs[index].pk = utxo.pk

reconcilePrevout(prevTx, index, utxo) ==
    /\ utxo # Nil
    /\ index \in 1..Len(prevTx.outs)
    /\ prevTx.outs[index] = utxo

\* decodePrevoutTxsFromField: one previous transaction per input, whose hash
\* is the one expected.
HasPrevTx(in, expected) == in.prev = <<expected>>

PrevOutTxsReal(ptx, from) ==
    \A i \in from..Len(ptx.inputs) :
        LET op == ptx.tx.ins[i] IN
        /\ HasPrevTx(ptx.inputs[i], op.tx)
        /\ reconcilePrevout(op.tx, op.index, ptx.inputs[i].utxo)

\* FindEmulatorPacket after Validate.
PacketUsable(tx) ==
    /\ tx.packet # <<>>
    /\ \A k \in 1..Len(tx.packet) :
        /\ tx.packet[k].script # NoScript
        /\ tx.packet[k].vin \in 1..Len(tx.ins)
        /\ \A l \in 1..Len(tx.packet) : tx.packet[k].vin = tx.packet[l].vin => k = l
-----------------------------------------------------------------------------
(* Reading a script and signing with its key *)

\* Mutant: the cutoff is honored a tick late.
CutoffLate(t) == IF Cutoff # 0 /\ t > Cutoff + 1 THEN <<>> ELSE Deprecated

\* The deprecated keys honored at a time: none once the cutoff has passed.
activeDeprecatedSigners(t) == IF Cutoff # 0 /\ t > Cutoff THEN <<>> ELSE Deprecated

\* ReadArkadeScript up to the search for the tweaked key.
Readable(in) ==
    /\ in.leaves # <<>>
    /\ in.leaves[1].leaf.version = "base"
    /\ in.leaves[1].leaf.decodes

ClosurePubKeys(in) == in.leaves[1].leaf.keys

HoldsKey(in, signer, script) == TweakedKey(signer, script) \in Elements(ClosurePubKeys(in))

\* resolveArkadeScriptSigner: the current key first, then the deprecated in
\* order; the empty set is ErrTweakedArkadePubKeyNotFound.
resolveArkadeScriptSigner(in, script, deprecated) ==
    LET signers == <<Current>> \o deprecated
    IN  {signers[c] : c \in {d \in 1..Len(signers) :
            /\ HoldsKey(in, signers[d], script)
            /\ \A e \in 1..(d - 1) : ~ HoldsKey(in, signers[e], script)}}

\* signInput's refusals.
CanSign(in) ==
    /\ in.sighash \in {"default", "all"}
    /\ Taproot(in.utxo)
    /\ Len(in.leaves) = 1
    /\ Committed(in)

\* The signature of signInput: over the whole transaction and every prevout,
\* for the input's leaf taken at the base version.
Signature(key, ptx, i) ==
    [key |-> key, leaf |-> [ptx.inputs[i].leaves[1].leaf EXCEPT !.version = "base"],
     tx |-> ptx.tx, input |-> i, prevouts |-> Prevouts(ptx)]

\* A signature verifies if it is over what it is checked against and its
\* holder made it: the service, for its own keys.
Made(s) == s.key.signer \in {Current} \union Elements(Deprecated) => s \in released \union own
-----------------------------------------------------------------------------
(* SubmitTx *)

\* indexCheckpoints
indexCheckpoints(r) ==
    LET N == 1..Len(r.ptx.tx.ins) IN
    /\ Len(r.checkpoints) = Len(r.ptx.tx.ins)
    /\ \A i, j \in N : i # j => r.checkpoints[i].tx # r.checkpoints[j].tx
    /\ \A i \in N : \E j \in N : r.ptx.tx.ins[i].tx = r.checkpoints[j].tx
    /\ \A i, j \in N : i # j => r.ptx.tx.ins[i].tx # r.ptx.tx.ins[j].tx

checkpointOf(r, i) ==
    CHOOSE c \in Elements(r.checkpoints) : c.tx = r.ptx.tx.ins[i].tx

prevOutFetcherForArkTx(r) ==
    /\ HasPrevouts(r.ptx)
    /\ \A i \in 1..Len(r.ptx.inputs) :
        LET op == r.ptx.tx.ins[i]
            c  == checkpointOf(r, i)
        IN  /\ Len(c.tx.ins) = 1
            /\ reconcilePrevout(c.tx, op.index, r.ptx.inputs[i].utxo)
            /\ HasPrevTx(r.ptx.inputs[i], c.tx.ins[1].tx)
            /\ reconcilePrevout(c.tx.ins[1].tx, c.tx.ins[1].index, c.inputs[1].utxo)

validateTaprootLeaf(in, leaf) ==
    /\ Taproot(in.utxo)
    /\ in.leaves # <<>>
    /\ in.leaves[1].leaf = leaf
    /\ Committed(in)

validateCheckpoint(r, i) ==
    LET c    == checkpointOf(r, i)
        op   == r.ptx.tx.ins[i]
        leaf == r.ptx.inputs[i].leaves[1].leaf
    IN  /\ Len(c.tx.ins) = 1 /\ Len(c.tx.outs) = 2
        /\ op.index = 1
        /\ r.ptx.inputs[i].utxo = c.tx.outs[1]
        /\ c.tx.outs[2] = Anchor
        /\ c.inputs[1].utxo = OutputOf(c.tx.ins[1])
        /\ c.tx.outs[1].value = OutputOf(c.tx.ins[1]).value
        /\ validateTaprootLeaf(r.ptx.inputs[i], leaf)
        /\ validateTaprootLeaf(c.inputs[1], leaf)

\* finalizerAccumulator.checkScript: the last signer that is not arkd.
LastSigner(keys) ==
    IF keys[Len(keys)] = ArkdKey THEN keys[Len(keys) - 1] ELSE keys[Len(keys)]

\* script.VerifyTapscriptSigs for one checkpoint.
SignedBy(c, key, sigs) ==
    \E s \in sigs :
        /\ s.key = key /\ s.tx = c.tx /\ s.input = 1 /\ s.prevouts = Prevouts(c)
        /\ s.leaf = c.inputs[1].leaves[1].leaf

\* Mutant: one signature is enough.
VerifySomeSignature(checkpoints, sigs) ==
    \A c \in Elements(checkpoints) :
        /\ c.inputs[1].leaves # <<>>
        /\ c.inputs[1].utxo # Nil
        /\ \E key \in Elements(c.inputs[1].leaves[1].leaf.keys) \ {ArkdKey} : SignedBy(c, key, sigs)

verifyNonArkdCheckpointSignatures(checkpoints, sigs) ==
    \A c \in Elements(checkpoints) :
        /\ c.inputs[1].leaves # <<>>
        /\ c.inputs[1].utxo # Nil
        /\ \A key \in Elements(c.inputs[1].leaves[1].leaf.keys) \ {ArkdKey} : SignedBy(c, key, sigs)
-----------------------------------------------------------------------------
(* SubmitIntent *)

\* validateMessage
WindowOpen(m, t) ==
    /\ m.expireAt > 0 => t <= m.expireAt
    /\ m.validAt > 0 => m.validAt <= t

\* The transaction whose output the message input spends.
ToSpend(m, pk) ==
    [ins |-> <<[tx |-> m, index |-> 0]>>, outs |-> <<[value |-> 0, pk |-> pk]>>, packet |-> <<>>]

validateIntentMessageCommitment(ptx, m) ==
    ptx.tx.ins[1] = [tx |-> ToSpend(m, ptx.inputs[2].utxo.pk), index |-> 1]

prevOutFetcherForIntent(ptx) ==
    /\ Len(ptx.inputs) >= 2
    /\ HasPrevouts(ptx)
    /\ Len(ptx.inputs[1].prev) <= 1
    /\ ptx.inputs[1].utxo = [value |-> 0, pk |-> ptx.inputs[2].utxo.pk]
    /\ PrevOutTxsReal(ptx, 2)
-----------------------------------------------------------------------------
(* SubmitFinalization *)

\* The first signature of an input made with the key.
FirstBy(sigs, key) ==
    {sigs[i] : i \in {j \in 1..Len(sigs) :
        sigs[j].key = key /\ \A k \in 1..(j - 1) : sigs[k].key # key}}

\* The candidates whose key getSignedInputAssociations finds in the leaf, and
\* those it finds among the signatures too.
LeafCandidates(ptx, k, signers) ==
    LET e == ptx.tx.packet[k] IN
    {c \in 1..Len(signers) : HoldsKey(ptx.inputs[e.vin], signers[c], e.script)}

SigningCandidates(ptx, k, signers) ==
    LET e == ptx.tx.packet[k] IN
    {c \in LeafCandidates(ptx, k, signers) :
        FirstBy(ptx.inputs[e.vin].sigs, TweakedKey(signers[c], e.script)) # {}}

\* The packet entries getSignedInputAssociations reads.
SignedEntries(ptx) ==
    {k \in 1..Len(ptx.tx.packet) :
        ptx.tx.packet[k].vin # 1 /\ ptx.inputs[ptx.tx.packet[k].vin].sigs # <<>>}

EntryOutpoint(ptx, k) == ptx.tx.ins[ptx.tx.packet[k].vin]

\* An earlier entry has put the outpoint into the map.
Associated(ptx, k, signers) ==
    \E l \in SignedEntries(ptx) :
        /\ l < k /\ EntryOutpoint(ptx, l) = EntryOutpoint(ptx, k)
        /\ SigningCandidates(ptx, l, signers) # {}

\* The candidate an entry is associated with: the loop ends at the first that
\* signed, or at the first in the leaf when the map has the outpoint already.
FirstCandidate(ptx, k, signers) ==
    LET ending == IF Associated(ptx, k, signers) THEN LeafCandidates(ptx, k, signers)
                  ELSE SigningCandidates(ptx, k, signers)
    IN  {c \in SigningCandidates(ptx, k, signers) : \A d \in 1..(c - 1) : d \notin ending}

\* The entries whose association stays in the map: the last of an outpoint.
LastEntries(ptx, signers) ==
    {k \in SignedEntries(ptx) : \A l \in SignedEntries(ptx) :
        (l > k /\ EntryOutpoint(ptx, l) = EntryOutpoint(ptx, k))
            => FirstCandidate(ptx, l, signers) = {}}

\* The associations [op, key, leaf, prevout] the map ends with.
Associations(ptx, signers) ==
    UNION {{[op |-> EntryOutpoint(ptx, k),
             key |-> TweakedKey(signers[c], ptx.tx.packet[k].script),
             leaf |-> ptx.inputs[ptx.tx.packet[k].vin].leaves[1].leaf,
             prevout |-> ptx.inputs[ptx.tx.packet[k].vin].utxo] :
                c \in FirstCandidate(ptx, k, signers)} : k \in LastEntries(ptx, signers)}

\* Every entry read decodes, and every signature taken verifies.
AssociationsValid(ptx, signers) ==
    /\ HasPrevouts(ptx)
    /\ PacketUsable(ptx.tx)
    /\ \A k \in SignedEntries(ptx) :
        /\ Readable(ptx.inputs[ptx.tx.packet[k].vin])
        /\ \A c \in FirstCandidate(ptx, k, signers) :
            LET vin == ptx.tx.packet[k].vin
                key == TweakedKey(signers[c], ptx.tx.packet[k].script)
            IN  \A s \in FirstBy(ptx.inputs[vin].sigs, key) :
                    s = Signature(key, ptx, vin) /\ Made(s)

validateFinalizationInput(a, in) ==
    /\ ArkdKey \in Elements(a.leaf.keys)
    /\ in.utxo = a.prevout
    /\ in.leaves # <<>>
    /\ in.leaves[1].leaf = a.leaf

\* leafOutput: a non-anchor output of a leaf of the connector tree.
leafOutput(tree, op) ==
    {op.tx.outs[op.index] : n \in {m \in tree :
        /\ m.tx = op.tx /\ m.children = {}
        /\ op.index \in 1..Len(op.tx.outs)
        /\ op.tx.outs[op.index].pk # Anchor.pk}}

validateForfeitOutputs(f, i, prevout, connector) ==
    /\ f.inputs[i].utxo = prevout
    /\ f.inputs[3 - i].utxo = connector
    /\ Len(f.tx.outs) = 2
    /\ f.tx.outs[2] = Anchor
    /\ f.tx.outs[1].value = prevout.value + connector.value - AnchorValue

\* The forfeit inputs that spend an associated coin; an association is
\* deleted when its forfeit is signed, so the first input per coin counts.
Slots(forfeits) ==
    {ki \in (1..Len(forfeits)) \X (1..2) : ki[2] <= Len(forfeits[ki[1]].tx.ins)}

OutpointAt(forfeits, ki) == forfeits[ki[1]].tx.ins[ki[2]]

Before(x, y) == x[1] < y[1] \/ (x[1] = y[1] /\ x[2] < y[2])

ForfeitSlots(forfeits, assocs) ==
    {ki \in Slots(forfeits) :
        /\ \E a \in assocs : a.op = OutpointAt(forfeits, ki)
        /\ \A kj \in Slots(forfeits) :
            Before(kj, ki) => OutpointAt(forfeits, kj) # OutpointAt(forfeits, ki)}

ForfeitValid(r, ki, a) ==
    LET f == r.forfeits[ki[1]]
        i == ki[2]
    IN  /\ validateFinalizationInput(a, f.inputs[i])
        /\ \E connector \in leafOutput(r.tree, f.tx.ins[3 - i]) :
            validateForfeitOutputs(f, i, a.prevout, connector)
        /\ HasPrevouts(f)
        /\ CanSign(f.inputs[i])

ForfeitsValid(r, assocs) ==
    /\ \A k \in 1..Len(r.forfeits) : Len(r.forfeits[k].tx.ins) = 2
    /\ \A ki \in ForfeitSlots(r.forfeits, assocs) : \A a \in assocs :
        a.op = OutpointAt(r.forfeits, ki) => ForfeitValid(r, ki, a)

ForfeitSignatures(r, assocs) ==
    UNION {{Signature(a.key, r.forfeits[ki[1]], ki[2]) :
                a \in {b \in assocs : b.op = OutpointAt(r.forfeits, ki)}} :
                    ki \in ForfeitSlots(r.forfeits, assocs)}

\* The associations no forfeit took: boarding inputs.
Boarding(r, assocs) ==
    {a \in assocs : \A ki \in ForfeitSlots(r.forfeits, assocs) : OutpointAt(r.forfeits, ki) # a.op}

BoardingValid(r, assocs) ==
    Boarding(r, assocs) # {} =>
        /\ HasPrevouts(r.commitment)
        /\ \A i \in 1..Len(r.commitment.tx.ins), a \in Boarding(r, assocs) :
            a.op = r.commitment.tx.ins[i] =>
                /\ validateFinalizationInput(a, r.commitment.inputs[i])
                /\ CanSign(r.commitment.inputs[i])

BoardingSignatures(r, assocs) ==
    UNION {{Signature(a.key, r.commitment, i) :
                a \in {b \in Boarding(r, assocs) : b.op = r.commitment.tx.ins[i]}} :
                    i \in 1..Len(r.commitment.tx.ins)}
-----------------------------------------------------------------------------
(* Actions *)

Init ==
    /\ phase = "boot" /\ req = Nil /\ pos = 1 /\ own = {} /\ lasts = {}
    /\ attempt = 1 /\ started = 1 /\ now = 1
    /\ executed = {} /\ released = {} /\ finalized = {} /\ indexed = {}
    /\ served = 0

\* The request is answered and forgotten; the signatures in the answer leave.
Return(sigs) ==
    /\ phase' = "idle"
    /\ req' = Nil /\ pos' = 1 /\ own' = {} /\ lasts' = {} /\ attempt' = 1 /\ started' = 1
    /\ released' = released \union sigs

Refuse == Return({}) /\ UNCHANGED <<now, executed, finalized, indexed, served>>

\* New: retried without a limit while arkd does not answer; arkd must name
\* its key.
Connect ==
    /\ phase = "boot"
    /\ \E answer \in {"key", "none"} : phase' = IF answer = "key" THEN "idle" ELSE "stopped"
    /\ UNCHANGED <<local, now, executed, released, finalized, indexed, served>>

\* The checks each operation makes before its first script runs.
Accepted(r) ==
    CASE r.kind = "offchain" ->
            indexCheckpoints(r) /\ prevOutFetcherForArkTx(r) /\ PacketUsable(r.ptx.tx)
      [] r.kind = "intent" ->
            /\ WindowOpen(r.message, now)
            /\ prevOutFetcherForIntent(r.ptx)
            /\ validateIntentMessageCommitment(r.ptx, r.message)
            /\ PacketUsable(r.ptx.tx)
      [] r.kind = "onchain" ->
            HasPrevouts(r.ptx) /\ PrevOutTxsReal(r.ptx, 1) /\ PacketUsable(r.ptx.tx)
      [] OTHER -> r.commitment # Nil

\* A signature of S for an input of the transaction, if there is one.
HeldSignature(tx, i, S) ==
    LET H == {s \in S : s.tx = tx /\ s.input = i}
    IN  IF H = {} THEN <<>> ELSE <<CHOOSE s \in H : TRUE>>

FilledInput(in, i, tx, S) == [in EXCEPT !.sigs = @ \o HeldSignature(tx, i, S)]

\* The client fills a finalization's intent proof with signatures it holds.
Filled(r, S) ==
    IF r.kind # "finalization" THEN r
    ELSE [r EXCEPT !.ptx.inputs = [i \in DOMAIN @ |-> FilledInput(@[i], i, r.ptx.tx, S)]]

Receive(r) ==
    /\ phase = "idle"
    /\ served < MaxRequests
    /\ Accepted(r)
    /\ phase' = IF r.kind = "finalization" THEN "lookup" ELSE "entries"
    /\ started' = now
    /\ req' = Filled(r, released)
    /\ served' = served + 1
    /\ UNCHANGED <<pos, own, lasts, attempt, now, executed, released, finalized, indexed>>

Entry == req.ptx.tx.packet[pos]

InLoop == phase = "entries" /\ pos <= Len(req.ptx.tx.packet)

\* SubmitIntent skips the entry of the message input.
SkipMessageEntry ==
    /\ InLoop
    /\ req.kind = "intent" /\ Entry.vin = 1
    /\ pos' = pos + 1
    /\ UNCHANGED <<phase, req, own, lasts, attempt, started, now, executed, released, finalized, indexed, served>>

ReadEntry == InLoop /\ (req.kind = "intent" => Entry.vin # 1)

EntryInput == req.ptx.inputs[Entry.vin]

\* SubmitTx and SubmitOnchainTx read the active signers at every entry,
\* SubmitIntent once.
EntrySigners ==
    resolveArkadeScriptSigner(EntryInput, Entry.script,
        activeDeprecatedSigners(IF req.kind = "intent" THEN started ELSE now))

\* An entry of another signer's is skipped, except in a lone input.
SkipForeignEntry ==
    /\ ReadEntry
    /\ Readable(EntryInput) /\ EntrySigners = {}
    /\ Len(req.ptx.inputs) > 1
    /\ pos' = pos + 1
    /\ UNCHANGED <<phase, req, own, lasts, attempt, started, now, executed, released, finalized, indexed, served>>

\* Mutant: SubmitOnchainTx accepts leaves that need arkd.
OnchainUnchecked == req.kind = "offchain" => validateCheckpoint(req, Entry.vin)

\* The checks between reading a script and running it.
EntryAllowed ==
    CASE req.kind = "offchain" -> validateCheckpoint(req, Entry.vin)
      [] req.kind = "onchain"  -> ArkdKey \notin Elements(ClosurePubKeys(EntryInput))
      [] OTHER                 -> TRUE

\* Mutant: the message input is signed with any input's script.
MessageAlwaysSigned ==
    {<<req.ptx, Entry.vin>>} \union
    CASE req.kind = "offchain" -> {<<checkpointOf(req, Entry.vin), 1>>}
      [] req.kind = "intent" -> {<<req.ptx, 1>>}
      [] OTHER -> {}

\* The inputs signed for the entry once its script has run.
EntryTargets ==
    {<<req.ptx, Entry.vin>>} \union
    CASE req.kind = "offchain" -> {<<checkpointOf(req, Entry.vin), 1>>}
      [] req.kind = "intent" /\ Entry.vin = 2 -> {<<req.ptx, 1>>}
      [] OTHER -> {}

EntrySignable ==
    /\ \A t \in EntryTargets : CanSign(t[1].inputs[t[2]])
    /\ req.kind = "offchain" => Len(ClosurePubKeys(EntryInput)) >= 2
    /\ (req.kind = "intent" /\ Entry.vin = 2) =>
            req.ptx.inputs[1].utxo.pk = req.ptx.inputs[2].utxo.pk

EntrySignatures(key) == {Signature(key, t[1], t[2]) : t \in EntryTargets}

\* One packet entry: its script is read, checked and run, and its inputs signed.
SignEntry(signer) ==
    LET key == TweakedKey(signer, Entry.script) IN
    /\ Readable(EntryInput) /\ signer \in EntrySigners
    /\ EntryAllowed /\ EntrySignable
    /\ executed' = executed \union
            {[tx |-> req.ptx.tx, input |-> Entry.vin, script |-> Entry.script]}
    /\ own' = own \union EntrySignatures(key)
    /\ lasts' = IF req.kind = "offchain"
                THEN lasts \union {LastSigner(ClosurePubKeys(EntryInput)) = key} ELSE lasts
    /\ pos' = pos + 1
    /\ UNCHANGED <<phase, req, attempt, started, now, released, finalized, indexed, served>>

SignEntryStep == ReadEntry /\ \E signer \in EntrySigners : SignEntry(signer)

\* The script fails, or a check around it: the request ends with an error.
FailEntry == ReadEntry /\ Refuse

LoopEnded == phase = "entries" /\ pos > Len(req.ptx.tx.packet)

isFinalizer == req.kind = "offchain" /\ lasts = {TRUE}

RefuseLoop ==
    /\ LoopEnded
    /\ own = {} \/ lasts = BOOLEAN
    /\ Refuse

\* Intents, onchain transactions, and offchain ones someone else finalizes.
AnswerSigned ==
    /\ LoopEnded
    /\ own # {} /\ lasts # BOOLEAN /\ ~ isFinalizer
    /\ Return(own)
    /\ UNCHANGED <<now, executed, finalized, indexed, served>>

RequestSignatures(r) ==
    {s \in UNION {Elements(c.inputs[1].sigs) : c \in Elements(r.checkpoints)} : Made(s)}

CheckpointsSigned ==
    verifyNonArkdCheckpointSignatures(req.checkpoints, RequestSignatures(req) \union own)

RefuseUnsigned ==
    /\ LoopEnded /\ own # {} /\ isFinalizer
    /\ ~ CheckpointsSigned
    /\ Refuse

\* arkdClient.SubmitTx is sent the signed transactions.
SubmitToArkd ==
    /\ LoopEnded /\ own # {} /\ isFinalizer
    /\ CheckpointsSigned
    /\ phase' = "submitted"
    /\ released' = released \union own
    /\ UNCHANGED <<local, now, executed, finalized, indexed, served>>

\* arkd's signature for a checkpoint it returns, if it signed it.
ArkdSignature(c) ==
    [key |-> ArkdKey, leaf |-> c.inputs[1].leaves[1].leaf,
     tx |-> c.tx, input |-> 1, prevouts |-> Prevouts(c)]

\* arkd accepts and returns checkpoints; a missing one is an error.  Whatever
\* signatures came back are appended and none is verified: arkd may have
\* signed all, some or none of them (one that verifies under no key counts as
\* none).
ArkdAccepts ==
    /\ phase = "submitted"
    /\ \E back \in SUBSET Elements(req.checkpoints) : \E signed \in SUBSET back :
        IF back = Elements(req.checkpoints)
        THEN /\ phase' = "finalize"
             /\ own' = own \union {ArkdSignature(c) : c \in signed}
             /\ UNCHANGED <<req, pos, lasts, attempt, started, now, executed, released, finalized, indexed, served>>
        ELSE Refuse

ArkdRefuses == phase = "submitted" /\ Refuse

\* retryWithBackoff: an error at the last attempt ends the loop.
RetryExhausted(max) == attempt >= max

\* Mutant: the attempts are not counted.
SameAttempt == attempt

NextAttempt == attempt + 1

\* One attempt fails: the loop goes around or gives up.
RetryOrGiveUp(max, again) ==
    \/ RetryExhausted(max) /\ Refuse
    \/ /\ ~ RetryExhausted(max)
       /\ phase' = again
       /\ attempt' = NextAttempt
       /\ UNCHANGED <<req, pos, own, lasts, started, now, executed, released, finalized, indexed, served>>

\* retryFinalize: a FinalizeTx call leaves for arkd.
CallFinalizeTx ==
    /\ phase = "finalize"
    /\ phase' = "finalizing"
    /\ finalized' = finalized \union
            {[checkpoints |-> req.checkpoints, sigs |-> RequestSignatures(req) \union own]}
    /\ UNCHANGED <<local, now, executed, released, indexed, served>>

\* The call returns: the request ends, or the call is repeated.
FinalizeTxReturns ==
    /\ phase = "finalizing"
    /\ Refuse \/ RetryOrGiveUp(MaxAttempts, "finalize")

\* SubmitFinalization asks the indexer for the commitment transaction.
CallGetCommitmentTx ==
    /\ phase = "lookup"
    /\ phase' = "looking"
    /\ UNCHANGED <<local, now, executed, released, finalized, indexed, served>>

GetCommitmentTxReturns ==
    /\ phase = "looking"
    /\ \/ /\ req.commitment.tx \in indexed
          /\ phase' = "settle"
          /\ UNCHANGED <<local, now, executed, released, finalized, indexed, served>>
       \/ RetryOrGiveUp(LookupAttempts, "lookup")

\* The context ends between two attempts, or the next delay would pass
\* MaxElapsed.
AbandonRetry == phase \in {"finalize", "lookup"} /\ Refuse

Signers == <<Current>> \o activeDeprecatedSigners(now)

\* The rest of SubmitFinalization.
Settle ==
    LET assocs == Associations(req.ptx, Signers) IN
    /\ phase = "settle"
    /\ IF /\ AssociationsValid(req.ptx, Signers)
          /\ assocs # {}
          /\ ForfeitsValid(req, assocs)
          /\ BoardingValid(req, assocs)
       THEN Return(ForfeitSignatures(req, assocs) \union BoardingSignatures(req, assocs))
       ELSE Return({})
    /\ UNCHANGED <<now, executed, finalized, indexed, served>>

\* arkd finalizes a round and its indexer learns the commitment transaction.
Index(tx) ==
    /\ tx \notin indexed
    /\ indexed' = indexed \union {tx}
    /\ UNCHANGED <<phase, local, now, executed, released, finalized, served>>

Tick ==
    /\ now < MaxNow
    /\ now' = now + 1
    /\ UNCHANGED <<phase, local, executed, released, finalized, indexed, served>>

Serve ==
    \/ SkipMessageEntry \/ SkipForeignEntry \/ SignEntryStep \/ FailEntry
    \/ RefuseLoop \/ AnswerSigned \/ RefuseUnsigned \/ SubmitToArkd
    \/ CallFinalizeTx \/ CallGetCommitmentTx \/ Settle

\* A call to arkd or its indexer returns, with an answer or an error.
RemoteReturns == ArkdAccepts \/ ArkdRefuses \/ FinalizeTxReturns \/ GetCommitmentTxReturns

Next ==
    \/ Connect
    \/ \E r \in Requests : Receive(r)
    \/ Serve \/ RemoteReturns \/ AbandonRetry
    \/ \E r \in Requests : r.kind = "finalization" /\ r.commitment # Nil /\ Index(r.commitment.tx)
    \/ Tick

Spec == Init /\ [][Next]_vars

\* The goroutine of a request runs on.  Nothing makes a call to arkd return:
\* SubmitTx, FinalizeTx and GetCommitmentTx are made with the handler's
\* context, which has no deadline.
FairSpec == Spec /\ WF_vars(Serve)
-----------------------------------------------------------------------------
(* Properties *)

Phases == {"boot", "stopped", "idle", "entries", "submitted", "finalize", "finalizing",
           "lookup", "looking", "settle"}

\* Type invariant: the attempt stays within its limit and no request starts
\* after the clock.
TypeOK ==
    /\ phase \in Phases
    /\ pos \in Nat \ {0}
    /\ lasts \subseteq BOOLEAN
    /\ attempt \in 1..MaxAttempts \union 1..LookupAttempts
    /\ started \in 1..now /\ now \in 1..MaxNow /\ served \in 0..MaxRequests

\* What the service promises, whatever it is sent (CovenantSigner): every
\* signature that leaves it is justified by a script it ran, or by an
\* earlier signature for the same coin (tx.go:26-27, finalization.go:20-22).
Covenant == INSTANCE CovenantSigner

RefinesCovenant == Covenant!Spec

\* Input 1 of an intent proof: its outpoint is the message's.
IsProof(tx) ==
    /\ tx.ins[1].tx.ins # <<>>
    /\ tx.ins[1].tx.ins[1].index = 0

\* A signature is over the output its outpoint really names, for a leaf that
\* output commits and that lists the signing key (the message input of a
\* proof carries another leaf at will): reconcilePrevout and signInput, and
\* for a batch the prevout carried over from an earlier request.
SpendsWhatItSays ==
    \A s \in released :
        /\ s.prevouts[s.input] = OutputOf(s.tx.ins[s.input])
        /\ ~ (IsProof(s.tx) /\ s.input = 1) =>
            /\ s.leaf \in s.prevouts[s.input].pk.leaves
            /\ s.key \in Elements(s.leaf.keys)

IsCheckpoint(tx) ==
    /\ Len(tx.ins) = 1 /\ Len(tx.outs) = 2
    /\ tx.outs[1].value = OutputOf(tx.ins[1]).value
    /\ tx.outs[2] = Anchor

IsForfeit(tx) ==
    /\ Len(tx.ins) = 2 /\ Len(tx.outs) = 2
    /\ tx.outs[2] = Anchor
    /\ \E i \in 1..2 : tx.outs[1].value =
            OutputOf(tx.ins[i]).value + OutputOf(tx.ins[3 - i]).value - AnchorValue

\* A coin whose leaf needs arkd's key is signed for only in transactions arkd
\* can follow: a proof, a checkpoint that keeps the value, the transaction
\* that spends one, a forfeit that pays all of it, or a commitment
\* transaction arkd indexed (onchain.go:18-22, finalization.go:24-29, 85-88).
ArkdLeafStaysOffchain ==
    \A s \in released : ArkdKey \in Elements(s.leaf.keys) =>
        \/ IsProof(s.tx)
        \/ IsCheckpoint(s.tx)
        \/ s.tx.ins[s.input].index = 1 /\ IsCheckpoint(s.tx.ins[s.input].tx)
        \/ IsForfeit(s.tx)
        \/ s.tx \in indexed

\* arkd is never asked to finalize a checkpoint that lacks the signature of a
\* key of its leaf other than arkd's: the check is made before SubmitTx, and
\* what arkd returns and the retries of FinalizeTx lose none of them
\* (tx.go:119-121, 152-180).  Nothing is said of arkd's own: the service
\* does not look at it.
FinalizedComplete ==
    \A f \in finalized : \A c \in Elements(f.checkpoints) :
        \A key \in Elements(c.inputs[1].leaves[1].leaf.keys) \ {ArkdKey} : SignedBy(c, key, f.sigs)

\* A request that arrives after the cutoff gets no signature with a
\* deprecated key, and SubmitIntent's answer is for a proof whose committed
\* message was in its window on arrival, however long the request then
\* takes (service.go:82-92, intent.go:32-38).
ReleasedInTime ==
    [][\A s \in released' \ released :
        /\ s.key.signer # Current => (Cutoff = 0 \/ started <= Cutoff)
        /\ req.kind = "intent" =>
            IsProof(s.tx) /\ WindowOpen(s.tx.ins[1].tx.ins[1].tx, started)]_vars

InArkdCall == phase \in {"submitted", "finalizing", "looking"}

\* Every request is answered, unless one call to arkd never returns: the
\* retry loops end by themselves, however often arkd answers with an error
\* (tx.go:453-463).
RequestReturns == []<>(req = Nil) \/ <>[]InArkdCall

\* finalizeRetryConfig's comment: its caps hold "even when the caller passes a
\* context without deadline, so the signer can never be wedged by an
\* unresponsive arkd" (tx.go:417-419).
NeverWedged == (phase = "finalize") ~> (req = Nil)
=============================================================================
