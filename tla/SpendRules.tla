----------------------------- MODULE SpendRules -----------------------------
(***************************************************************************)
(* What a routine spend of the vault may look like, as the code says it    *)
(* twice: provider/classify.go, which the authorizer runs before it        *)
(* reserves allowance, and the Arkade script of vault/script.go, which     *)
(* both cosigners run before they sign.  With them the builders of         *)
(* vault/tx.go, the Arkade sighash that the user's device signs, and the   *)
(* checks of LocalSigner.                                                  *)
(*                                                                         *)
(* An operator that can fail is a predicate, or returns the set of its     *)
(* results: {} is the error.  Script texts are records; what matters of    *)
(* the bytes (their length, whether an encoding is the canonical one) is a *)
(* field.                                                                  *)
(***************************************************************************)
EXTENDS Integers, Sequences

CONSTANTS
    MaxSatoshi,  \* btcutil.MaxSatoshi
    MaxInt64,
    DustSats,    \* fixture.DustSats, of the paths without a stored policy
    NULL

ASSUME MoneyAssumption ==
    /\ MaxSatoshi \in Nat \ {0}
    /\ MaxInt64 \in Nat
    /\ 3 * MaxSatoshi <= MaxInt64
    /\ DustSats \in Nat \ {0}

\* int64 arithmetic wraps.
Int64(x) == ((x + MaxInt64 + 1) % (2 * (MaxInt64 + 1))) - (MaxInt64 + 1)

RoutineWitnessBytes == 399

-----------------------------------------------------------------------------
(***************************************************************************)
(* Scripts, packets and sizes.                                             *)
(***************************************************************************)
\* AuthorizationPolicy.validate
ValidPolicy(policy) ==
    /\ policy.dust > 0
    /\ policy.cap >= policy.dust
    /\ policy.feeCeiling >= 0
    /\ policy.feerate > 0

IsWitnessProgram(script) == script.kind \in {"p2tr", "p2wpkh", "p2a"}
IsExtension(script) == script.kind = "extension"
IsOpReturn(script) == script.kind \in {"opreturn", "extension"}

\* varintSize, for the lengths below 2^32 that a transaction has.
varintSize(n) == IF n < 253 THEN 1 ELSE IF n <= 65535 THEN 3 ELSE 5

\* The sum of a sequence of integers.
Total(s) ==
    LET sum[n \in 0 .. Len(s)] == IF n = 0 THEN 0 ELSE sum[n - 1] + s[n]
    IN sum[Len(s)]

Prefixed(n) == varintSize(n) + n
WitnessLen(w) == 1 + Total([i \in 1 .. Len(w) |-> Prefixed(w[i].len)])

\* EmulatorPacket.Serialize; pad counts the bytes of a longer encoding.
EntryLen(e) == 2 + Prefixed(e.script.len) + Prefixed(WitnessLen(e.witness))
ContentLen(pkt) ==
    1 + pkt.pad + Total([i \in 1 .. Len(pkt.entries) |-> EntryLen(pkt.entries[i])])

\* extension.Serialize: OP_RETURN, one push, magic and the typed packets.
PushOpcodeLen(n) == IF n <= 75 THEN 1 ELSE IF n <= 255 THEN 2 ELSE 3
PayloadLen(s) ==
    3 + s.pad + Total([i \in 1 .. Len(s.packets) |-> 1 + Prefixed(ContentLen(s.packets[i]))])
ExtensionLen(s) == 1 + PushOpcodeLen(PayloadLen(s)) + PayloadLen(s)
ScriptLen(s) == IF IsExtension(s) THEN ExtensionLen(s) ELSE s.len

\* MsgTx.SerializeSizeStripped
OutputLen(out) == 8 + Prefixed(ScriptLen(out.script))
StrippedSize(tx) == 10 + 41 * tx.ins + Total([i \in 1 .. Len(tx.outs) |-> OutputLen(tx.outs[i])])

\* estimatedWitnessBytes: marker and flag, five items, three signatures.
estimatedWitnessBytes(op) ==
    2 + varintSize(5) + 3 * Prefixed(64)
      + Prefixed(op.routine.script.len) + Prefixed(op.routine.control.len)

\* estimatedVBytes
estimatedVBytes(tx, op) ==
    (3 * StrippedSize(tx) + (StrippedSize(tx) + estimatedWitnessBytes(op)) + 3) \div 4

-----------------------------------------------------------------------------
(***************************************************************************)
(* What decodes as a PSBT: wire.MsgTx, the extension TLV and psbt.Packet.  *)
(***************************************************************************)
IsTuple(s) == Len(s) \in Nat /\ s = [i \in 1 .. Len(s) |-> s[i]]

EntryShape(e) ==
    /\ e = [vin |-> e.vin, script |-> e.script, witness |-> e.witness]
    /\ e.script # NULL
    /\ e.script.len \in Nat
    /\ IsTuple(e.witness)
    /\ \A i \in DOMAIN e.witness : e.witness[i].len \in Nat
PacketShape(pkt) ==
    /\ pkt = [type |-> pkt.type, pad |-> pkt.pad, entries |-> pkt.entries]
    /\ pkt.pad \in Nat
    /\ IsTuple(pkt.entries)
    /\ \A i \in DOMAIN pkt.entries : EntryShape(pkt.entries[i])
ScriptShape(s) ==
    IF IsExtension(s)
    THEN /\ s = [kind |-> s.kind, pad |-> s.pad, packets |-> s.packets]
         /\ s.pad \in Nat
         /\ IsTuple(s.packets)
         /\ \A i \in DOMAIN s.packets : PacketShape(s.packets[i])
    ELSE s.len \in Nat
OutputShape(out) ==
    /\ out = [value |-> out.value, script |-> out.script]
    /\ out.value \in Int
    /\ ScriptShape(out.script)
TxShape(tx) ==
    /\ tx = [version |-> tx.version, locktime |-> tx.locktime, ins |-> tx.ins,
             outpoint |-> tx.outpoint, sequence |-> tx.sequence, outs |-> tx.outs]
    /\ IsTuple(tx.outs)
    /\ \A i \in DOMAIN tx.outs : OutputShape(tx.outs[i])
PSBTShape(p) ==
    /\ p = [tx |-> p.tx, utxo |-> p.utxo, sighash |-> p.sighash, leaves |-> p.leaves,
            prevs |-> p.prevs, final |-> p.final]
    /\ p.final \in BOOLEAN
    /\ TxShape(p.tx)
    /\ p.utxo # NULL => OutputShape(p.utxo)
    /\ IsTuple(p.leaves)

\* psbt.Packet.B64Encode of one input: next to a final script sig or witness
\* neither the leaf scripts and their signatures nor the sighash type are
\* written; the output spent and PrevoutTxField are.
Encoded(p) == IF p.final THEN [p EXCEPT !.leaves = <<>>, !.sighash = "default"] ELSE p

-----------------------------------------------------------------------------
(***************************************************************************)
(* The vault: NewFromRecord and build.                                     *)
(***************************************************************************)
\* requireIndependentXOnly
Independent(keys) == \A i, j \in 1 .. Len(keys) : keys[i] = keys[j] => i = j

\* ComputeArkadeScriptPublicKey
BaseKey(id) == [id |-> id, tweak |-> NULL]
Tweaked(key, script) == [key EXCEPT !.tweak = script]

\* The tapscripts of ark-lib: 34 bytes per key, and a delay.
Multisig(keys) == [keys |-> keys, csv |-> 0, len |-> 34 * Len(keys)]
CSVMultisig(keys, csv) == [keys |-> keys, csv |-> csv, len |-> 34 * Len(keys) + 3]

\* A leaf with its merkle path: the routine and admin leaves share a branch.
Leaf(script, root, depth) ==
    [script |-> script, control |-> [root |-> root, len |-> 33 + 32 * depth], version |-> "base"]

\* AuthorizationScript: the policy, the direct key, and the one packet
\* envelope, which the length of the script itself determines.
AuthScript(policy, direct, len) == [policy |-> policy, key |-> direct, len |-> len]

NewFromRecord(rec) ==
    LET auth == AuthScript(rec.policy, rec.direct, rec.scriptLen)
        vaultKey == Tweaked(rec.vaultBase, auth)
        arkadeKey == Tweaked(rec.arkadeBase, auth)
        bases == <<rec.phone, rec.owner, rec.recovery, rec.vaultBase, rec.arkadeBase>>
        routine == Multisig(<<rec.phone, vaultKey, arkadeKey>>)
        admin == Multisig(<<rec.owner, rec.recovery>>)
        recovery == CSVMultisig(<<rec.recovery>>, rec.csv)
        root == <<routine, admin, recovery>>
    IN {[policy |-> rec.policy, auth |-> auth, vaultBase |-> rec.vaultBase, csv |-> rec.csv,
         pkScript |-> [kind |-> "p2tr", id |-> root, len |-> 34],
         routine |-> Leaf(routine, root, 2), admin |-> Leaf(admin, root, 2),
         recovery |-> Leaf(recovery, root, 1)] :
           x \in {y \in {rec} : /\ ValidPolicy(rec.policy)
                                /\ rec.csv # 0
                                /\ Independent(bases \o <<vaultKey, arkadeKey>>)
                                /\ rec.auth \in {NULL, auth}}}

-----------------------------------------------------------------------------
(***************************************************************************)
(* Packets and the Arkade sighash.                                         *)
(***************************************************************************)
Extensions(tx) == {i \in 1 .. Len(tx.outs) : IsExtension(tx.outs[i].script)}
FirstOf(S) == CHOOSE i \in S : \A j \in S : i <= j

\* EmulatorPacket.Validate, and the range of vin (FindEmulatorPacket).
PacketValid(tx, pkt) ==
    /\ pkt.entries # <<>>
    /\ \A i \in 1 .. Len(pkt.entries) :
          pkt.entries[i].script.len > 0 /\ pkt.entries[i].vin < tx.ins
    /\ \A i, j \in 1 .. Len(pkt.entries) : pkt.entries[i].vin = pkt.entries[j].vin => i = j

\* FindEmulatorPacket: the emulator packet of the first extension.
EmulatorPackets(ext) == {i \in 1 .. Len(ext.packets) : ext.packets[i].type = 1}
FindEmulatorPacket(tx) ==
    IF Extensions(tx) = {} THEN {}
    ELSE LET ext == tx.outs[FirstOf(Extensions(tx))].script
         IN {p \in {ext.packets[i] : i \in EmulatorPackets(ext)} : PacketValid(tx, p)}

\* packetEntry: the entry of a packet that has exactly one.
PacketEntry(tx) == {p.entries[1] : p \in {q \in FindEmulatorPacket(tx) : Len(q.entries) = 1}}

\* maskExtensionOutput: the packet is parsed and written again without the
\* witnesses, so that a longer encoding of it masks to the same bytes.
MaskedPacket(pkt) ==
    [pkt EXCEPT !.pad = 0,
                !.entries = [i \in 1 .. Len(pkt.entries) |->
                                [pkt.entries[i] EXCEPT !.witness = <<>>]]]
MaskedExtension(s) ==
    [s EXCEPT !.pad = 0,
              !.packets = [i \in 1 .. Len(s.packets) |->
                              IF s.packets[i].type = 1 THEN MaskedPacket(s.packets[i])
                              ELSE s.packets[i]]]
MaskedOuts(tx) ==
    [i \in 1 .. Len(tx.outs) |->
        IF IsExtension(tx.outs[i].script) /\ i = FirstOf(Extensions(tx))
        THEN [tx.outs[i] EXCEPT !.script = MaskedExtension(@)]
        ELSE tx.outs[i]]

\* Mutant: the packet witness is part of the digest.
ChallengeUnmasked(p, leaf) == [tx |-> p.tx, utxo |-> p.utxo, leaf |-> leaf]

\* Challenge and OP_SIGHASH (buildArkadeSigMsg with SIGHASH_DEFAULT): every
\* field of the transaction, the prevouts and the tapscript leaf.
Challenge(p, leaf) ==
    [tx |-> [p.tx EXCEPT !.outs = MaskedOuts(p.tx)], utxo |-> p.utxo, leaf |-> leaf]

\* verifyDirectAuth: one 64-byte item, the direct key's signature.
DirectItem(challenge) == [len |-> 64, signs |-> challenge]
DirectSigned(witness, challenge) == witness = <<DirectItem(challenge)>>

-----------------------------------------------------------------------------
(***************************************************************************)
(* The classifier.                                                         *)
(***************************************************************************)
\* RequireVerifiedPrevout
RequireVerifiedPrevout(p) ==
    /\ p.tx.ins = 1
    /\ p.utxo # NULL
    /\ Len(p.prevs) = 1
    /\ p.prevs[1].txid = p.tx.outpoint.txid
    /\ p.tx.outpoint.index < Len(p.prevs[1].outs)
    /\ p.utxo = p.prevs[1].outs[p.tx.outpoint.index + 1]

MoneyRange(v) == v \in 0 .. MaxSatoshi

\* Mutant: an encoding other than the canonical one passes.
PacketOutputLoose(tx, i, op) ==
    /\ i = Len(tx.outs)
    /\ tx.outs[i].value = 0
    /\ \E e \in PacketEntry(tx) : e.vin = 0 /\ e.script = op.auth

\* The extension output: last, without value, one canonical type 1 packet
\* with one entry, this vault's script for input 0.
PacketOutput(tx, i, op) ==
    LET ext == tx.outs[i].script IN
    /\ i = Len(tx.outs)
    /\ tx.outs[i].value = 0
    /\ ext.pad = 0
    /\ Len(ext.packets) = 1
    /\ ext.packets[1].type = 1
    /\ ext.packets[1].pad = 0
    /\ \E e \in PacketEntry(tx) : e.vin = 0 /\ e.script = op.auth

\* Change to this vault, second of three outputs.
ChangeOutput(tx, i, op) ==
    /\ i = 2
    /\ Len(tx.outs) = 3
    /\ tx.outs[i].value >= op.policy.dust

\* Mutant: any standard output may be the recipient.
RecipientAnyScript(tx, i, op) ==
    /\ ~IsOpReturn(tx.outs[i].script)
    /\ i = 1
    /\ tx.outs[i].value >= op.policy.dust

RecipientOutput(tx, i, op) ==
    /\ IsWitnessProgram(tx.outs[i].script)
    /\ ~IsOpReturn(tx.outs[i].script)
    /\ tx.outs[i].script.kind # "p2a"
    /\ i = 1
    /\ tx.outs[i].value >= op.policy.dust

IsChange(out, op) == out.script = op.pkScript
IsRecipient(out, op) == ~IsExtension(out.script) /\ ~IsChange(out, op)

\* The loop over the outputs; a second one of a kind is refused.
OutputsClassified(tx, op) ==
    LET at(K(_)) == {i \in 1 .. Len(tx.outs) : K(tx.outs[i])}
        packets == Extensions(tx)
        changes == at(LAMBDA o : IsChange(o, op))
        recipients == at(LAMBDA o : IsRecipient(o, op))
    IN /\ \A i \in packets : PacketOutput(tx, i, op)
       /\ \A i \in changes : ChangeOutput(tx, i, op)
       /\ \A i \in recipients : RecipientOutput(tx, i, op)
       /\ \A S \in {packets, changes, recipients} : \E i \in S : S = {i}

\* The sum of the outputs: addSats refuses one that does not fit.
OutSum(tx) == Total([i \in 1 .. Len(tx.outs) |-> tx.outs[i].value])
SpendFee(p) == p.utxo.value - OutSum(p.tx)

classify(p, op) ==
    /\ RequireVerifiedPrevout(p)
    /\ p.tx.version = 2
    /\ p.tx.locktime = 0
    /\ p.tx.sequence = "final"
    /\ p.sighash = "default"
    /\ p.utxo.script = op.pkScript
    /\ MoneyRange(p.utxo.value)
    /\ p.leaves = <<op.routine>>
    /\ OutputsClassified(p.tx, op)
    /\ \A i \in 1 .. Len(p.tx.outs) : MoneyRange(p.tx.outs[i].value)
    /\ OutSum(p.tx) <= MaxInt64
    /\ SpendFee(p) >= 0

\* enforceStaticPolicy
enforceStaticPolicy(p, op) ==
    LET vbytes == estimatedVBytes(p.tx, op) IN
    /\ p.tx.outs[1].value <= op.policy.cap
    /\ SpendFee(p) <= op.policy.feeCeiling
    /\ SpendFee(p) <= Int64(op.policy.feerate * vbytes)

classifySpend(p, op) == classify(p, op) /\ enforceStaticPolicy(p, op)

\* verifyAuthorization after the assertion: the packet witness is the direct
\* signature over the challenge.
Authorizable(p, op) ==
    /\ classifySpend(p, op)
    /\ \E e \in PacketEntry(p.tx) : DirectSigned(e.witness, Challenge(p, op.routine))

-----------------------------------------------------------------------------
(***************************************************************************)
(* The authorization script, run by both cosigners.                        *)
(***************************************************************************)
\* OP_INSPECTINPUTSCRIPTPUBKEY, OP_INSPECTOUTPUTSCRIPTPUBKEY: the version of
\* a witness program and the program, or -1 and the hash of the script.
Inspect(script) ==
    IF IsWitnessProgram(script)
    THEN [version |-> IF script.kind = "p2wpkh" THEN 0 ELSE 1, of |-> script]
    ELSE [version |-> -1, of |-> script]

\* exactPacketOutputPrefix with OP_INSPECTPACKET, OP_CAT and OP_SHA256: the
\* output is the one packet in its canonical envelope, whose length bytes are
\* those of a 64-byte witness.
ExactPacketOutput(tx, script) ==
    \E pkt \in FindEmulatorPacket(tx) :
        /\ Inspect(script).version = -1
        /\ IsExtension(script)
        /\ script.pad = 0
        /\ script.packets = <<pkt>>
        /\ ContentLen(pkt) =
              ContentLen([type |-> 1, pad |-> 0,
                          entries |-> <<[pkt.entries[1] EXCEPT !.witness = <<DirectItem(NULL)>>]>>])

\* Mutant: change below the dust limit, none included, is accepted.
ScriptOutputsNoChange(p, policy) ==
    LET outs == p.tx.outs IN
    /\ Len(outs) = 3
    /\ outs[1].value >= policy.dust
    /\ outs[1].value <= policy.cap
    /\ Inspect(outs[1].script).version >= 0
    /\ outs[3].value = 0
    /\ ExactPacketOutput(p.tx, outs[3].script)

ScriptOutputs(p, policy) ==
    LET outs == p.tx.outs IN
    /\ Len(outs) = 3
    /\ outs[1].value >= policy.dust
    /\ outs[1].value <= policy.cap
    /\ Inspect(outs[1].script).version >= 0
    /\ outs[2].value >= policy.dust
    /\ Inspect(outs[2].script).version = 1
    /\ Inspect(p.utxo.script).version = 1
    /\ Inspect(outs[2].script).of = Inspect(p.utxo.script).of
    /\ outs[3].value = 0
    /\ ExactPacketOutput(p.tx, outs[3].script)

\* OP_TXWEIGHT of the unsigned transaction, the expected witness added.
ScriptVBytes(tx) == (4 * StrippedSize(tx) + RoutineWitnessBytes + 3) \div 4

\* Mutant: the ceiling is not checked.
ScriptFeeRateOnly(p, policy) ==
    LET fee == p.utxo.value - p.tx.outs[1].value - p.tx.outs[2].value IN
    /\ fee >= 0
    /\ fee <= policy.feerate * ScriptVBytes(p.tx)

ScriptFee(p, policy) ==
    LET fee == p.utxo.value - p.tx.outs[1].value - p.tx.outs[2].value IN
    /\ fee >= 0
    /\ fee <= policy.feeCeiling
    /\ fee <= policy.feerate * ScriptVBytes(p.tx)

\* buildAuthorizationScript
ScriptAccepts(p, auth, leaf, witness) ==
    /\ p.tx.version = 2
    /\ p.tx.locktime = 0
    /\ p.tx.ins = 1
    /\ p.tx.sequence = "final"
    /\ ScriptOutputs(p, auth.policy)
    /\ ScriptFee(p, auth.policy)
    /\ DirectSigned(witness, Challenge(p, leaf))

\* VerifyTaprootLeafCommitment: the leaf with its merkle path is one of the
\* tree that the output commits to, and of no other leaf version.
CommittedLeaf(script, leaf) ==
    /\ script.kind = "p2tr"
    /\ leaf.control.root = script.id
    /\ \E k \in 1 .. Len(script.id) :
          leaf = Leaf(script.id[k], script.id, IF k = 3 THEN 1 ELSE 2)

\* LocalSigner.Sign.  The leaf must hold the key tweaked by the script
\* (ReadArkadeScript) and be committed to by the output that is spent.
LocalSigns(p, op) ==
    /\ RequireVerifiedPrevout(p)
    /\ p.leaves # <<>>
    /\ p.leaves[1].version = "base"
    /\ \E e \in PacketEntry(p.tx) :
          /\ e.vin = 0
          /\ \E k \in 1 .. Len(p.leaves[1].script.keys) :
                p.leaves[1].script.keys[k] = Tweaked(op.vaultBase, e.script)
          /\ MoneyRange(p.utxo.value)
          /\ ScriptAccepts(p, e.script, p.leaves[1], e.witness)
    /\ p.sighash = "default"
    /\ CommittedLeaf(p.utxo.script, p.leaves[1])

-----------------------------------------------------------------------------
(***************************************************************************)
(* The builders.                                                           *)
(***************************************************************************)
\* checkedPrevout
CheckedPrevout(prev, outpoint, op) ==
    {prev.outs[i] : i \in {j \in 1 .. Len(prev.outs) :
        /\ prev.txid = outpoint.txid
        /\ j = outpoint.index + 1
        /\ prev.outs[j].script = op.pkScript
        /\ MoneyRange(prev.outs[j].value)}}

\* Mutant: the fee is left to the change output.
RemainingWithoutFee(input, amount, fee) ==
    {input - amount : x \in {y \in {0} : input >= amount}}

\* remainingAfter over requireSats and subSats
RemainingAfter(input, amount, fee) ==
    {input - amount - fee : x \in {y \in {0} :
        /\ MoneyRange(input) /\ MoneyRange(amount) /\ MoneyRange(fee)
        /\ input >= amount
        /\ input - amount >= fee}}

\* attachPacket and SetPacketWitness write the one canonical encoding.
PacketScript(vin, auth, witness) ==
    [kind |-> "extension", pad |-> 0,
     packets |-> <<[type |-> 1, pad |-> 0,
                    entries |-> <<[vin |-> vin, script |-> auth, witness |-> witness]>>]>>]

Output(value, script) == [value |-> value, script |-> script]
NewTx(outpoint, sequence, outs) ==
    [version |-> 2, locktime |-> 0, ins |-> 1, outpoint |-> outpoint, sequence |-> sequence,
     outs |-> outs]
NewPSBT(tx, utxo, leaf, prevs) ==
    [tx |-> tx, utxo |-> utxo, sighash |-> "default", leaves |-> <<leaf>>, prevs |-> prevs,
     final |-> FALSE]

\* BuildRoutineSpend with the final sequence, as Draft calls it.
BuildRoutineSpend(op, prev, outpoint, dest, amount, fee) ==
    UNION {{NewPSBT(NewTx(outpoint, "final",
                          <<Output(amount, dest), Output(change, op.pkScript),
                            Output(0, PacketScript(0, op.auth, <<>>))>>),
                    utxo, op.routine, <<prev>>) :
              change \in {c \in RemainingAfter(utxo.value, amount, fee) : c >= op.policy.dust}} :
           utxo \in {u \in CheckedPrevout(prev, outpoint, op) :
               /\ IsWitnessProgram(dest)
               /\ fee >= 0
               /\ amount > 0
               /\ amount >= op.policy.dust}}

\* SetPacketWitness: the first extension output is written anew.
SetPacketWitness(tx, witness) ==
    {[tx EXCEPT !.outs[FirstOf(Extensions(tx))] = Output(0, PacketScript(e.vin, e.script, witness))] :
        e \in PacketEntry(tx)}

\* AdminSpend: a sweep, or a payment with change to this vault.
AdminOuts(op, dest, amount, change) ==
    IF change = 0 THEN <<Output(amount, dest)>>
    ELSE <<Output(amount, dest), Output(change, op.pkScript)>>
AdminSpend(op, prev, outpoint, dest, amount, fee) ==
    UNION {{NewPSBT(NewTx(outpoint, "final", AdminOuts(op, dest, amount, change)),
                    utxo, op.admin, <<prev>>) :
              change \in {c \in RemainingAfter(utxo.value, amount, fee) :
                  c = 0 \/ (c >= DustSats /\ dest # op.pkScript)}} :
           utxo \in {u \in CheckedPrevout(prev, outpoint, op) : amount >= DustSats /\ fee >= 0}}

\* RecoverySpend: the whole input after the delay, without PrevoutTxField.
RecoverySpend(op, prev, outpoint, dest, amount, fee) ==
    {NewPSBT(NewTx(outpoint, "csv", <<Output(amount, dest)>>), utxo, op.recovery, <<>>) :
        utxo \in {u \in CheckedPrevout(prev, outpoint, op) :
            /\ amount >= DustSats
            /\ fee >= 0
            /\ 0 \in RemainingAfter(u.value, amount, fee)}}
=============================================================================
