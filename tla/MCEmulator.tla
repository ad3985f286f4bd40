----------------------------- MODULE MCEmulator -----------------------------
(* Requests for the emulator service: well-formed ones, and for each check    *)
(* one that only that check refuses.                                          *)
EXTENDS EmulatorService

CONSTANTS Other, User, Old1, ScriptA, ScriptB

MCDeprecated == <<Old1>>

-----------------------------------------------------------------------------
UserKey == TweakedKey(User, NoScript)
OtherKey == TweakedKey(Other, ScriptB)
KeyA == TweakedKey(Current, ScriptA)
DepB == TweakedKey(Deprecated[1], ScriptB)

Leaf(keys) == [version |-> "base", decodes |-> TRUE, keys |-> keys]
Covenant1 == Leaf(<<UserKey, KeyA, ArkdKey>>)
Old == Leaf(<<DepB, ArkdKey>>)
SharedLeaf == Leaf(<<KeyA, OtherKey, ArkdKey>>)
Plain == Leaf(<<UserKey, KeyA>>)
Foreign == Leaf(<<OtherKey, UserKey>>)
Uncovenanted == Leaf(<<KeyA, KeyA>>)

Pay(value, leaves) == [value |-> value, pk |-> [kind |-> "taproot", leaves |-> leaves]]
Tx(ins, outs, packet) == [ins |-> ins, outs |-> outs, packet |-> packet]
Out(tx, i) == [tx |-> tx, index |-> i]
Run(vin, script) == [vin |-> vin, script |-> script]

\* The outputs everything spends: two covenants, one shared with another
\* emulator, and two no arkd key guards.
Fund == Tx(<<>>, <<Pay(3, {Covenant1, Plain}), Pay(2, {Old}), Pay(3, {SharedLeaf}),
                   Pay(3, {Plain}), Pay(2, {Foreign})>>, <<>>)

In(utxo, leaf, prev) ==
    [utxo |-> utxo, leaves |-> <<[leaf |-> leaf, control |-> "ok"]>>,
     sighash |-> "default", prev |-> prev, sigs |-> <<>>]

Ptx(tx, inputs) == [tx |-> tx, inputs |-> inputs]
Signed(ptx, keys) ==
    [ptx EXCEPT !.inputs[1].sigs = [i \in 1..Len(keys) |-> Signature(keys[i], ptx, 1)]]
-----------------------------------------------------------------------------
(* Offchain transactions *)

CheckpointOf(i, leaf, value) ==
    Ptx(Tx(<<Out(Fund, i)>>, <<Pay(value, {leaf}), Anchor>>, <<>>), <<In(Fund.outs[i], leaf, <<>>)>>)

C1 == Signed(CheckpointOf(1, Covenant1, 3), <<UserKey>>)
C2 == CheckpointOf(2, Old, 2)
C3 == CheckpointOf(3, SharedLeaf, 3)

ArkTx(cs, packet) ==
    Ptx(Tx([i \in 1..Len(cs) |-> Out(cs[i].tx, 1)], <<Pay(1, {Plain})>>, packet),
        [i \in 1..Len(cs) |-> In(cs[i].tx.outs[1], cs[i].inputs[1].leaves[1].leaf, <<Fund>>)])

Offchain(ptx, cs) == [kind |-> "offchain", ptx |-> ptx, checkpoints |-> cs]
Ark(cs, packet) == Offchain(ArkTx(cs, packet), cs)

A1 == Ark(<<C1>>, <<Run(1, ScriptA)>>)
A12 == Ark(<<C1, C2>>, <<Run(1, ScriptA), Run(2, ScriptB)>>)
Shrunk == CheckpointOf(1, Covenant1, 1)
Bare == [C1 EXCEPT !.tx.outs[2].value = AnchorValue + 1]
Claimed == [C1 EXCEPT !.inputs[1].utxo.value = 9]

OffchainRequests ==
    {A1, A12,
     Ark(<<C3>>, <<Run(1, ScriptA)>>),                                \* another finalizes
     Ark(<<C1, C3>>, <<Run(1, ScriptA), Run(2, ScriptA)>>),           \* finalizers differ
     Ark(<<C1, C2>>, <<Run(1, ScriptA), Run(2, ScriptA)>>),           \* a foreign entry
     Ark(<<CheckpointOf(1, Covenant1, 3)>>, <<Run(1, ScriptA)>>),     \* no user signature
     Ark(<<Signed(Shrunk, <<UserKey>>)>>, <<Run(1, ScriptA)>>),       \* value lost
     Ark(<<Bare>>, <<Run(1, ScriptA)>>),                              \* no anchor
     [A1 EXCEPT !.checkpoints = <<Claimed>>],                         \* coin misstated
     [A1 EXCEPT !.ptx.inputs[1].utxo.value = 9],
     [A1 EXCEPT !.ptx.inputs[1].prev = <<>>],
     [A1 EXCEPT !.ptx.inputs[1].sighash = "single"],
     [A1 EXCEPT !.ptx.inputs[1].leaves[1].leaf = Uncovenanted],       \* leaf not committed
     [A12 EXCEPT !.checkpoints = <<C1, C1>>]}
-----------------------------------------------------------------------------
(* Intents *)

Message(validAt, expireAt) == [validAt |-> validAt, expireAt |-> expireAt]

Proof(m, coins, packet) ==
    LET first == Fund.outs[Head(coins)]
        leaf(o) == CHOOSE l \in o.pk.leaves : o.pk.leaves = {l, Plain}
    IN  Ptx(Tx(<<Out(ToSpend(m, first.pk), 1)>> \o [i \in 1..Len(coins) |-> Out(Fund, coins[i])],
               <<Pay(0, {})>>, packet),
            <<In([value |-> 0, pk |-> first.pk], leaf(first), <<>>)>> \o
            [i \in 1..Len(coins) |-> In(Fund.outs[coins[i]],
                 IF coins[i] = 2 THEN Old ELSE leaf(Fund.outs[coins[i]]), <<Fund>>)])

Intent(m, ptx) == [kind |-> "intent", message |-> m, ptx |-> ptx]

Register == Message(1, 2)
P1 == Proof(Register, <<1>>, <<Run(1, ScriptA), Run(2, ScriptA)>>)
P12 == Proof(Message(0, 0), <<1, 2>>, <<Run(2, ScriptA), Run(3, ScriptB)>>)
P11 == Proof(Register, <<1, 1>>, <<Run(3, ScriptA), Run(2, ScriptA)>>)

IntentRequests ==
    {Intent(Register, P1), Intent(Message(0, 0), P12),
     Intent(Message(2, 0), Proof(Message(2, 0), <<1>>, <<Run(2, ScriptA)>>)),  \* early at first
     Intent(Message(0, 0), P1),                                       \* another message
     Intent(Register, P11),                                           \* one coin twice
     Intent(Register, [P1 EXCEPT !.inputs[2].utxo.value = 9]),
     Intent(Register, [P1 EXCEPT !.inputs[1].utxo.value = 1]),
     Intent(Register, [P1 EXCEPT !.inputs[1].leaves[1].leaf = Plain])} \* message leaf at will
-----------------------------------------------------------------------------
(* Onchain transactions *)

Spend(coins, leaves, packet) ==
    Ptx(Tx([i \in 1..Len(coins) |-> Out(Fund, coins[i])], <<Pay(2, {})>>, packet),
        [i \in 1..Len(coins) |-> In(Fund.outs[coins[i]], leaves[i], <<Fund>>)])

Onchain(ptx) == [kind |-> "onchain", ptx |-> ptx]
O4 == Spend(<<4, 5>>, <<Plain, Foreign>>, <<Run(1, ScriptA), Run(2, ScriptA)>>)

OnchainRequests ==
    {Onchain(O4),
     Onchain(Spend(<<5>>, <<Foreign>>, <<Run(1, ScriptA)>>)),         \* not ours
     Onchain(Spend(<<1>>, <<Covenant1>>, <<Run(1, ScriptA)>>)),       \* needs arkd
     Onchain([O4 EXCEPT !.inputs[1].utxo.value = 9])}
-----------------------------------------------------------------------------
(* Batches *)

Connectors == Tx(<<>>, <<Pay(1, {}), Anchor>>, <<>>)
Tree == {[tx |-> Connectors, children |-> {}], [tx |-> Fund, children |-> {Connectors}]}

Forfeit(coin, leaf, value) ==
    Ptx(Tx(<<Out(Fund, coin), Out(Connectors, 1)>>, <<Pay(value, {}), Anchor>>, <<>>),
        <<In(Fund.outs[coin], leaf, <<>>), In(Connectors.outs[1], leaf, <<>>)>>)

F1 == Forfeit(1, Covenant1, 4 - AnchorValue)
F2 == Forfeit(2, Old, 3 - AnchorValue)

Commitment(outs) == Ptx(Tx(<<Out(Fund, 1), Out(Fund, 5)>>, outs, <<>>),
                        <<In(Fund.outs[1], Covenant1, <<>>), In(Fund.outs[5], Foreign, <<>>)>>)

Batch(ptx, forfeits, commitment) ==
    [kind |-> "finalization", ptx |-> ptx, forfeits |-> forfeits, tree |-> Tree,
     commitment |-> commitment]

Round == Commitment(<<Pay(4, {})>>)
Forged == Signature(KeyA, F1, 1)

BatchRequests ==
    {Batch(P1, <<F1>>, Round), Batch(P12, <<F1, F2>>, Round), Batch(P12, <<F2>>, Round),
     Batch(P1, <<>>, Nil),
     Batch(P11, <<F1>>, Round), Batch([P11 EXCEPT !.inputs[3].leaves[1].leaf = Plain], <<F1>>, Round),
     Batch(P1, <<Forfeit(1, Covenant1, 1)>>, Round),                  \* value lost
     Batch(P1, <<[F1 EXCEPT !.inputs[1].utxo.value = 9]>>, Round),    \* coin misstated
     Batch([P1 EXCEPT !.inputs[2].utxo.value = 9],                    \* in the proof too
           <<[F1 EXCEPT !.inputs[1].utxo.value = 9, !.tx.outs[1].value = 10 - AnchorValue]>>, Round),
     Batch(P1, <<[F1 EXCEPT !.tx.ins[2].index = 2, !.inputs[2].utxo = Anchor]>>, Round),
     Batch(P1, <<Forfeit(1, Plain, 4 - AnchorValue)>>, Round),        \* another leaf
     Batch([P1 EXCEPT !.inputs[2].sigs = <<Forged>>], <<F1>>, Round),
     Batch(O4, <<Forfeit(4, Plain, 4 - AnchorValue)>>, Round),        \* no arkd key
     Batch(A12.ptx, <<>>, Round)}

MCRequests == OffchainRequests \union IntentRequests \union OnchainRequests \union BatchRequests
=============================================================================
