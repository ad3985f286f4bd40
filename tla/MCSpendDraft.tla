---------------------------- MODULE MCSpendDraft ----------------------------
(***************************************************************************)
(* The instance of SpendDraft for TLC.  Sizes are those of the real        *)
(* template; money is scaled down to TLC's integers.  The fees lie around  *)
(* the three limits: the ceiling, and the fee rate at the size before and  *)
(* after the witness is written.                                           *)
(***************************************************************************)
EXTENDS SpendDraft

\* The second fee rate's product with the size wraps once the spend is signed,
\* and its vault has a higher ceiling.
MCPolicy(feerate) ==
    [dust |-> 330, cap |-> 1000, feeCeiling |-> IF feerate = 130 THEN 10670 ELSE 5185,
     feerate |-> feerate]
MCRecord(feerate) ==
    [phone |-> BaseKey("phone"), owner |-> BaseKey("owner"), recovery |-> BaseKey("recovery"),
     vaultBase |-> BaseKey("vault"), arkadeBase |-> BaseKey("arkade"), direct |-> "direct",
     csv |-> 6, scriptLen |-> 200, auth |-> NULL, policy |-> MCPolicy(feerate)]
MCRecords == {MCRecord(10), MCRecord(130), [MCRecord(11) EXCEPT !.recovery = BaseKey("owner")],
              [MCRecord(12) EXCEPT !.auth = AuthScript(MCPolicy(12), "other", 200)], MCRecord(0)}

OpsOf == UNION {NewFromRecord(r) : r \in MCRecords}
Script(kind, id, len) == [kind |-> kind, id |-> <<id>>, len |-> len]
Wallet == Script("p2wpkh", "w", 22)
OtherScripts == {Wallet, Script("p2tr", "w", 34), Script("p2pkh", "w", 25),
                 Script("p2a", "a", 4), Script("opreturn", "r", 2)}
\* One vault pays itself and the other one pays it.
MCDests == {Wallet, Script("p2pkh", "w", 25)} \cup {o.pkScript : o \in NewFromRecord(MCRecord(10))}

MCPrevs == {[txid |-> "t", outs |-> <<Output(12000, o.pkScript), Output(1000, o.pkScript)>>] :
               o \in OpsOf}
MCAmounts == {329, 1000, 1001}

\* At 10 per byte 4480 and 5180 are the limits without and with the signature,
\* and 5190 with a witness of one more byte.
MCFees == {0, 4480, 5186}

-----------------------------------------------------------------------------
(***************************************************************************)
(* One change of a PSBT.                                                   *)
(***************************************************************************)
EditOuts(p, outs) == [p EXCEPT !.tx.outs = outs]
Without(s, i) == SubSeq(s, 1, i - 1) \o SubSeq(s, i + 1, Len(s))

EditedFields(p) ==
    {[p EXCEPT !.tx.version = 1], [p EXCEPT !.tx.locktime = 1], [p EXCEPT !.tx.ins = 2],
     [p EXCEPT !.tx.sequence = "csv"], [p EXCEPT !.tx.outpoint.index = 1 - @],
     [p EXCEPT !.tx.outpoint.txid = "u"], [p EXCEPT !.sighash = "all"], [p EXCEPT !.prevs = <<>>],
     [p EXCEPT !.final = TRUE]}
    \cup {[p EXCEPT !.utxo = u] : u \in {NULL, Output(12001, p.utxo.script), Output(12000, Wallet)}}
    \cup {[p EXCEPT !.prevs = <<q>>, !.utxo = q.outs[1]] :
             q \in {[txid |-> p.tx.outpoint.txid, outs |-> <<Output(v, p.utxo.script)>>] :
                       v \in {MaxSatoshi, MaxSatoshi + 1}}}
    \cup {[p EXCEPT !.leaves = s] : s \in {<<>>, p.leaves \o p.leaves} \cup
             {<<[p.leaves[i] EXCEPT !.version = "other"]>> : i \in DOMAIN p.leaves} \cup
             UNION {{<<o.admin>>, <<o.routine>>} : o \in OpsOf}}

EditedValues(p) ==
    {EditOuts(p, [p.tx.outs EXCEPT ![i].value = v]) :
        i \in DOMAIN p.tx.outs, v \in {-1, 0, 329, 330, 1000, 1001, MaxSatoshi + 1}}
    \cup {EditOuts(p, [p.tx.outs EXCEPT ![i].value = @ + d]) : i \in DOMAIN p.tx.outs, d \in {-1, 1}}
    \cup {EditOuts(p, [p.tx.outs EXCEPT ![i].value = 5815]) : i \in {2} \cap DOMAIN p.tx.outs}

EditedOutputs(p) ==
    LET outs == p.tx.outs IN
    {EditOuts(p, [outs EXCEPT ![i].script = s]) :
        i \in DOMAIN outs, s \in OtherScripts \cup {p.utxo.script}}
    \cup {EditOuts(p, Without(outs, i)) : i \in DOMAIN outs}
    \cup {EditOuts(p, Append(outs, outs[i])) : i \in DOMAIN outs}
    \cup {EditOuts(p, <<outs[i]>> \o Without(outs, i)) : i \in DOMAIN outs}

Witnesses == {<<>>, <<[len |-> 64, signs |-> NULL]>>, <<[len |-> 65, signs |-> NULL]>>,
              <<[len |-> 30, signs |-> NULL], [len |-> 33, signs |-> NULL]>>}
EditedPackets(p) ==
    UNION {LET ext == p.tx.outs[i].script
               put(s) == EditOuts(p, [p.tx.outs EXCEPT ![i].script = s])
               pkt == ext.packets[1]
               with(q) == put([ext EXCEPT !.packets[1] = q])
           IN {put([ext EXCEPT !.pad = 2 - @]),
               put([ext EXCEPT !.packets = <<pkt, [type |-> 0, pad |-> 0, entries |-> <<>>]>>]),
               put([ext EXCEPT !.packets[1].type = 0]),
               with([pkt EXCEPT !.pad = 2 - @]),
               with([pkt EXCEPT !.entries[1].vin = 1]),
               with([pkt EXCEPT !.entries = @ \o <<[@[1] EXCEPT !.vin = 1]>>]),
               with([pkt EXCEPT !.entries = <<>>])}
              \cup {with([pkt EXCEPT !.entries[1].script = o.auth]) : o \in OpsOf}
              \cup {with([pkt EXCEPT !.entries[1].witness = w]) :
                       w \in Witnesses \cup {<<pkt.entries[1].witness[1], pkt.entries[1].witness[1]>> :
                                                x \in {1} \cap DOMAIN pkt.entries[1].witness}} :
           i \in {k \in Extensions(p.tx) : p.tx.outs[k].script.packets[1].entries # <<>>}}

\* The same spend of another vault's coin.
Retargeted(p) ==
    {LET move(out) == IF out.script = p.utxo.script THEN [out EXCEPT !.script = o.pkScript]
                      ELSE IF IsExtension(out.script) THEN Output(0, PacketScript(0, o.auth, <<>>))
                      ELSE out
         outs(s) == [i \in DOMAIN s |-> move(s[i])]
     IN [p EXCEPT !.tx.outs = outs(@), !.utxo = move(@), !.leaves = <<o.routine>>,
                  !.prevs = [i \in DOMAIN @ |-> [@[i] EXCEPT !.outs = outs(@)]]] :
        o \in {q \in OpsOf : q.pkScript # p.utxo.script}}

\* The fields that the classifier and LocalSigner both test on their own: with
\* another value both refuse, whatever else changes.
TemplateFields(p) ==
    /\ p.tx.version = 2 /\ p.tx.locktime = 0 /\ p.tx.ins = 1 /\ p.tx.sequence = "final"
    /\ p.sighash = "default" /\ p.prevs # <<>> /\ p.utxo # NULL

\* Only what can still be accepted and has a packet is changed further.  A final
\* field is set last, as it commutes with the other changes.
MCEdited(p) ==
    IF ~TemplateFields(p) \/ Extensions(p.tx) = {} \/ p.final THEN {}
    ELSE EditedFields(p) \cup EditedValues(p) \cup EditedOutputs(p) \cup EditedPackets(p)
         \cup Retargeted(p)
=============================================================================
