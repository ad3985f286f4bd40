---------------------------- MODULE AssetOpcodes ----------------------------
(***************************************************************************)
(* The asset opcodes of the Arkade script engine (asset_opcodes.go): what  *)
(* a script sees of the asset packet of the spending transaction.  A group *)
(* has an explicit asset id or is a fresh issuance of this transaction,    *)
(* named by the transaction and the group's position.                      *)
(*                                                                         *)
(* Optional values are sets with at most one member.  An AssetId is        *)
(* [txid: Element, index: Nat].                                            *)
(***************************************************************************)
EXTENDS ScriptNum, ScriptStack, FiniteSets

CONSTANTS
    Tx,                  \* the spending transaction, its prevouts and packets
    HashLen,             \* bytes of a hash (32)
    Crypto(_, _),        \* the cryptographic libraries
    maxAssetGroupIndex   \* 65535

Groups == Tx.assets      \* the asset packet: a sequence of groups

-----------------------------------------------------------------------------
(***************************************************************************)
(* Reading operands.                                                       *)
(***************************************************************************)
\* The k-th group (from 0), when the popped index names one.
GroupIndex(e) == {k \in MakeScriptNum(e) : k >= 0 /\ k < Len(Groups)}

\* resolveAssetID: explicit ids and fresh issuances must stay apart.
ResolveAssetID(k) ==
    IF Groups[k + 1].id # {} THEN {id \in Groups[k + 1].id : id.txid # Tx.txid}
    ELSE IF k > maxAssetGroupIndex THEN {} ELSE {[txid |-> Tx.txid, index |-> k]}

\* The loops over the packet fail at the first group whose id does not
\* resolve, unless they return before it.
AllResolve(upto) == \A k \in 0 .. upto : ResolveAssetID(k) # {}
IDOf(k) == CHOOSE id \in ResolveAssetID(k) : TRUE

\* popAssetID
PopAssetID(txid, gidx) ==
    {[txid |-> txid, index |-> g] :
        g \in {x \in MakeScriptNum(gidx) : Len(txid) = HashLen /\ x \in 0 .. maxAssetGroupIndex}}

PushID(id) == <<id.txid, Encode(id.index)>>
PushAmount(x) == BigNumBytes(BigNumFromUint64(x))

-----------------------------------------------------------------------------
(***************************************************************************)
(* Opcodes about one group.                                                *)
(***************************************************************************)
\* opcodeInspectAssetGroupCtrl
ControlAsset(k) ==
    LET c == Groups[k + 1].control
    IN IF c = {} THEN {<< <<>>, Encode(0), Encode(0) >>}
       ELSE {Append(PushID(id), Encode(1)) :
                id \in UNION {IF r.byGroup
                              THEN IF r.group < Len(Groups) THEN ResolveAssetID(r.group) ELSE {}
                              ELSE {r.id} : r \in c}}

\* computeMetadataMerkleRoot: an odd hash moves up a level unpaired.
MetadataRoot(leaves) ==
    LET up(h) == [i \in 1 .. (Len(h) + 1) \div 2 |->
                    IF 2 * i <= Len(h)
                    THEN CHOOSE x \in Crypto("sha256", <<h[2 * i - 1] \o h[2 * i]>>) : TRUE
                    ELSE h[2 * i - 1]]
        level[n \in 0 .. Len(leaves)] == IF n = 0 THEN leaves ELSE up(level[n - 1])
    IN IF leaves = <<>> THEN Bytes(HashLen, LAMBDA i : 0) ELSE level[Len(leaves)][1]

\* safeSumInputs and safeSumOutputs: a big integer, never a wrapped uint64.
AmountSum(entries) ==
    LET sum[i \in 0 .. Len(entries)] == IF i = 0 THEN 0 ELSE sum[i - 1] + entries[i].amount
    IN sum[Len(entries)]

\* The entries of a group that source names: 0 inputs, 1 outputs.
Side(k, source) == IF source = 0 THEN Groups[k + 1].ins ELSE Groups[k + 1].outs

\* opcodeInspectAssetGroup
GroupEntry(k, j, source) ==
    IF source \notin {0, 1} \/ j \notin 0 .. Len(Side(k, source)) - 1 THEN {}
    ELSE LET e == Side(k, source)[j + 1]
             head == IF source = 1 THEN <<Encode(1)>>
                     ELSE IF e.intent # {} THEN <<Encode(2), CHOOSE t \in e.intent : TRUE>>
                     ELSE <<Encode(1)>>
         IN {head \o <<Encode(e.at), a>> : a \in PushAmount(e.amount)}

\* opcodeInspectAssetGroupNum and opcodeInspectAssetGroupSum
PerSide(k, source, F(_)) ==
    CASE source \in {0, 1} -> {<<x>> : x \in F(Side(k, source))}
      [] source = 2 -> {<<x, y>> : x \in F(Side(k, 0)), y \in F(Side(k, 1))}
      [] OTHER -> {}
Count(entries) == {Encode(Len(entries))}
Sum(entries) == BigNumBytes(Big(AmountSum(entries)))

GroupOpcode(op, s) ==
    CASE op = "OP_INSPECTASSETGROUPASSETID" ->
             Take1(s, LAMBDA a : UNION {{PushID(id) : id \in ResolveAssetID(k)} : k \in GroupIndex(a)})
      [] op = "OP_INSPECTASSETGROUPCTRL" ->
             Take1(s, LAMBDA a : UNION {ControlAsset(k) : k \in GroupIndex(a)})
      [] op = "OP_INSPECTASSETGROUPMETADATAHASH" ->
             Take1(s, LAMBDA a : {<<MetadataRoot(Groups[k + 1].metadata)>> : k \in GroupIndex(a)})
      [] op = "OP_INSPECTASSETGROUPNUM" ->
             Take2(s, LAMBDA a, b : UNION {PerSide(k, src, Count) : k \in GroupIndex(a), src \in MakeScriptNum(b)})
      [] op = "OP_INSPECTASSETGROUPSUM" ->
             Take2(s, LAMBDA a, b : UNION {PerSide(k, src, Sum) : k \in GroupIndex(a), src \in MakeScriptNum(b)})
      [] op = "OP_INSPECTASSETGROUP" ->
             Take3(s, LAMBDA a, b, c : UNION {GroupEntry(k, j, src) : k \in GroupIndex(a),
                                          j \in MakeScriptNum(b), src \in MakeScriptNum(c)})

-----------------------------------------------------------------------------
(***************************************************************************)
(* Opcodes about one input or output: the entries of all groups at it, in  *)
(* packet order.                                                           *)
(***************************************************************************)
EntriesIn(k, source, at) ==
    LET entries == Side(k, source)
        list[n \in 0 .. Len(entries)] ==
            IF n = 0 THEN <<>>
            ELSE IF entries[n].at = at
                 THEN Append(list[n - 1], [group |-> k, amount |-> entries[n].amount])
                 ELSE list[n - 1]
    IN list[Len(entries)]
EntriesAt(source, at) ==
    LET list[n \in 0 .. Len(Groups)] ==
            IF n = 0 THEN <<>> ELSE list[n - 1] \o EntriesIn(n - 1, source, at)
    IN list[Len(Groups)]

\* opcodeInspectOutAssetAt and opcodeInspectInAssetAt
AssetAt(source, at, t) ==
    LET list == EntriesAt(source, at)
    IN IF t < 0 \/ t >= Len(list) THEN {}
       ELSE IF ~AllResolve(list[t + 1].group) THEN {}
       ELSE {Append(PushID(IDOf(list[t + 1].group)), a) : a \in PushAmount(list[t + 1].amount)}

\* Mutant: the lookup compares the issuing transaction only.
LookupByTxid(source, at, want) ==
    LET hits == {n \in 1 .. Len(EntriesAt(source, at)) :
                    /\ AllResolve(EntriesAt(source, at)[n].group)
                    /\ IDOf(EntriesAt(source, at)[n].group).txid = want.txid}
    IN IF hits # {} THEN {<<a, Encode(1)>> : a \in PushAmount(
                EntriesAt(source, at)[CHOOSE n \in hits : \A m \in hits : n <= m].amount)}
       ELSE IF AllResolve(Len(Groups) - 1) THEN {<<Encode(0), Encode(0)>>} ELSE {}

\* opcodeInspectOutAssetLookup and opcodeInspectInAssetLookup: the first entry
\* of the wanted asset.
AssetLookup(source, at, want) ==
    LET list == EntriesAt(source, at)
        hits == {n \in 1 .. Len(list) : AllResolve(list[n].group) /\ IDOf(list[n].group) = want}
    IN IF hits # {}
       THEN {<<a, Encode(1)>> : a \in PushAmount(list[CHOOSE n \in hits : \A m \in hits : n <= m].amount)}
       ELSE IF AllResolve(Len(Groups) - 1) THEN {<<Encode(0), Encode(0)>>} ELSE {}

\* opcodeFindAssetGroupByAssetId
FindGroup(want) ==
    LET hits == {k \in 0 .. Len(Groups) - 1 : AllResolve(k) /\ IDOf(k) = want}
    IN IF hits # {} THEN {<<Encode(CHOOSE k \in hits : \A m \in hits : k <= m), Encode(1)>>}
       ELSE IF AllResolve(Len(Groups) - 1) THEN {<<Encode(0), Encode(0)>>} ELSE {}

InputSideOpcodes == {"OP_INSPECTINASSETCOUNT", "OP_INSPECTINASSETAT", "OP_INSPECTINASSETLOOKUP"}
OutputSideOpcodes == {"OP_INSPECTOUTASSETCOUNT", "OP_INSPECTOUTASSETAT", "OP_INSPECTOUTASSETLOOKUP"}

EntryOpcode(op, s) ==
    LET source == IF op \in InputSideOpcodes THEN 0 ELSE 1
    IN CASE op \in {"OP_INSPECTINASSETCOUNT", "OP_INSPECTOUTASSETCOUNT"} ->
             Take1(s, LAMBDA a : {<<Encode(Len(EntriesAt(source, n)))>> : n \in MakeScriptNum(a)})
         [] op \in {"OP_INSPECTINASSETAT", "OP_INSPECTOUTASSETAT"} ->
             Take2(s, LAMBDA a, b : UNION {AssetAt(source, n, t) : n \in MakeScriptNum(a), t \in MakeScriptNum(b)})
         [] op \in {"OP_INSPECTINASSETLOOKUP", "OP_INSPECTOUTASSETLOOKUP"} ->
             Take3(s, LAMBDA a, b, c : UNION {AssetLookup(source, n, id) :
                                           n \in MakeScriptNum(a), id \in PopAssetID(b, c)})

\* Every asset opcode fails without an asset packet.
GroupOpcodes == {"OP_INSPECTASSETGROUPASSETID", "OP_INSPECTASSETGROUPCTRL", "OP_INSPECTASSETGROUP",
                 "OP_INSPECTASSETGROUPMETADATAHASH", "OP_INSPECTASSETGROUPNUM", "OP_INSPECTASSETGROUPSUM"}
AssetOpcode(op, s) ==
    IF Tx.noAssets THEN {}
    ELSE CASE op = "OP_INSPECTNUMASSETGROUPS" -> {Append(s, Encode(Len(Groups)))}
           [] op = "OP_FINDASSETGROUPBYASSETID" ->
                  Take2(s, LAMBDA a, b : UNION {FindGroup(id) : id \in PopAssetID(a, b)})
           [] op \in InputSideOpcodes \cup OutputSideOpcodes -> EntryOpcode(op, s)
           [] op \in GroupOpcodes -> GroupOpcode(op, s)
=============================================================================
