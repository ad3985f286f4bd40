---------------------------- MODULE ScriptMachine ----------------------------
(***************************************************************************)
(* The Arkade script engine with its real opcodes: ScriptEngine run with   *)
(* Effect <- OpcodeEffect.  The properties compare what an opcode does to  *)
(* a reachable stack with a definition that knows nothing of how the code  *)
(* computes it.                                                            *)
(***************************************************************************)
EXTENDS ScriptEngine, ScriptOpcodes

Executing == status = "running" /\ isBranchExecuting
Top(s, n) == SubSeq(s, Len(s) - n + 1, Len(s))

\* The integers a stack element of at most maxBigNumLen bytes can hold.
Representable(v) == Magnitude(v) < SignBit * Weight(maxBigNumLen - 1)
Numeric(e) == Len(e) <= maxBigNumLen /\ CheckMinimalDataEncoding(e)

-----------------------------------------------------------------------------
(***************************************************************************)
(* What an engine is given.                                                *)
(***************************************************************************)
\* The elements an opcode may make, and the numbers that fit one.
Short == {e \in Element : Len(e) <= MaxScriptElementSize}
Number(v) == v \in Int /\ Representable(v)

\* The code's limits: a BigNum, a hash and the depth of a full stack are
\* elements, and one more than a script number is a BigNum.
ASSUME SizeAssumption ==
    /\ maxBigNumLen <= MaxScriptElementSize
    /\ maxScriptNumLen < maxBigNumLen
    /\ HashLen \in 1 .. MaxScriptElementSize
    /\ Number(MaxStackSize) /\ Number(NumInputs)
    /\ maxAssetGroupIndex \in Nat /\ Number(maxAssetGroupIndex)

\* Scripts and witnesses are byte strings.
ASSUME ScriptAssumption ==
    /\ \A tok \in Tokens :
          /\ tok.data \in Element
          /\ tok.op \in Opcodes \cup CondOps \cup
                {"OP_TOALTSTACK", "OP_FROMALTSTACK", "OP_VERIF", "OP_VERNOTIF"}
    /\ \A w \in Witnesses : w \in Seq(Element)
    /\ \A tw \in TxWitnesses : tw.stack \in Seq(Element)

\* A parsed transaction: hashes and witness programs are short, and its counts
\* and positions are numbers of a few bytes.
PacketsType(packets) == \A t \in DOMAIN packets : packets[t] \in Element
ScriptType(x) ==
    /\ Number(x.version) /\ x.program \in Element
    /\ x.version >= 0 => x.program \in Short
ASSUME TxAssumption ==
    /\ Tx.txid \in Short /\ Tx.version \in MinInt64 .. MaxInt64
    /\ Tx.locktime \in Nat /\ Tx.weight \in Nat
    /\ Number(Len(Tx.ins)) /\ Number(Len(Tx.outs)) /\ PacketsType(Tx.packets)
    /\ \A n \in 1 .. Len(Tx.ins) :
          /\ Tx.ins[n].txid \in Short /\ Number(Tx.ins[n].vout)
          /\ Tx.ins[n].value \in Int /\ Tx.ins[n].sequence \in Nat
          /\ ScriptType(Tx.ins[n].script)
          /\ \A p \in Tx.ins[n].arkTx : PacketsType(p)
    /\ \A n \in 1 .. Len(Tx.outs) : Tx.outs[n].value \in Int /\ ScriptType(Tx.outs[n].script)
    /\ \A e \in Tx.entries : e.scriptHash \in Short /\ e.witnessHash \in Short

\* A parsed asset packet.
AssetIDType(id) == id \in [txid : Short, index : Nat] /\ Number(id.index)
EntryType(e) == Number(e.at) /\ e.amount \in Nat /\ Number(e.amount)
ScriptNumbers == LET most == SignBit * Weight(maxScriptNumLen - 1) - 1 IN -most .. most
ASSUME AssetAssumption ==
    /\ Len(Groups) \in Nat /\ Number(Len(Groups))
    /\ \A k \in 1 .. Len(Groups) :
          /\ \A id \in Groups[k].id : AssetIDType(id)
          /\ \A r \in Groups[k].control : r.group \in Nat /\ AssetIDType(r.id)
          /\ Groups[k].metadata \in Seq(Short)
          /\ Len(Groups[k].ins) \in Nat /\ Number(Len(Groups[k].ins))
          /\ Len(Groups[k].outs) \in Nat /\ Number(Len(Groups[k].outs))
          /\ \A n \in 1 .. Len(Groups[k].ins) :
                EntryType(Groups[k].ins[n]) /\ Groups[k].ins[n].intent \subseteq Short
          /\ \A n \in 1 .. Len(Groups[k].outs) : EntryType(Groups[k].outs[n])
    /\ \A source \in {0, 1}, at \in ScriptNumbers : Number(Len(EntriesAt(source, at)))

-----------------------------------------------------------------------------
(***************************************************************************)
(* Numbers.                                                                *)
(***************************************************************************)
\* Division with the remainder on the side of the dividend.
Truncated(x, y) ==
    CHOOSE q \in -Magnitude(x) .. Magnitude(x) :
        LET r == x - q * y IN Magnitude(r) < Magnitude(y) /\ (r = 0 \/ (r < 0) = (x < 0))
BooleanValue(b) == {IF b THEN 1 ELSE 0}

UnaryValue(op, x) ==
    CASE op = "OP_1ADD" -> {x + 1}
      [] op = "OP_1SUB" -> {x - 1}
      [] op = "OP_2MUL" -> {2 * x}
      [] op = "OP_2DIV" -> {Truncated(x, 2)}
      [] op = "OP_NEGATE" -> {-x}
      [] op = "OP_ABS" -> {Magnitude(x)}
      [] op = "OP_NOT" -> BooleanValue(x = 0)
      [] op = "OP_0NOTEQUAL" -> BooleanValue(x # 0)

BinaryValue(op, x, y) ==
    CASE op = "OP_ADD" -> {x + y}
      [] op = "OP_SUB" -> {x - y}
      [] op = "OP_MUL" -> {x * y}
      [] op = "OP_DIV" -> IF y = 0 THEN {} ELSE {Truncated(x, y)}
      [] op = "OP_MOD" -> IF y = 0 THEN {} ELSE {x - y * Truncated(x, y)}
      [] op = "OP_BOOLAND" -> BooleanValue(x # 0 /\ y # 0)
      [] op = "OP_BOOLOR" -> BooleanValue(x # 0 \/ y # 0)
      [] op = "OP_NUMEQUAL" -> BooleanValue(x = y)
      [] op = "OP_NUMNOTEQUAL" -> BooleanValue(x # y)
      [] op = "OP_LESSTHAN" -> BooleanValue(x < y)
      [] op = "OP_GREATERTHAN" -> BooleanValue(x > y)
      [] op = "OP_LESSTHANOREQUAL" -> BooleanValue(x <= y)
      [] op = "OP_GREATERTHANOREQUAL" -> BooleanValue(x >= y)
      [] op = "OP_MIN" -> {IF x <= y THEN x ELSE y}
      [] op = "OP_MAX" -> {IF x <= y THEN y ELSE x}

\* The int64 values that arithmetic meets: those on the stack, and the two
\* ends of the range, which the methods must handle as well.
Operands64 == {MinInt64, MaxInt64} \cup
              {v \in MinInt64 .. MaxInt64 : \E i \in 1 .. Len(dstack) : Decode(dstack[i]) = v}

\* The numeric opcodes compute on the integers: the result is the exact value
\* whenever 520 bytes can hold it and an error otherwise, never a wrapped or
\* truncated int64, whichever of the two representations of BigNum is used.
\* In particular the overflow tests of the int64 fast path let a result
\* through only when it did not wrap (-1 times MinInt64, which the test by
\* division alone would accept, included).
NumericExact ==
    /\ \A x, y \in Operands64 : ExactAt(x, y)
    /\ Executing =>
        /\ \A op \in UnaryNumericOps : Len(dstack) >= 1 =>
              LET a == Last(dstack)
              IN NumericOpcode(op, dstack) =
                    {Append(Below(dstack, 1), Encode(v)) :
                        v \in {w \in UnaryValue(op, Decode(a)) : Numeric(a) /\ Representable(w)}}
        /\ \A op \in BinaryNumericOps \cup ComparisonOps :
              Len(dstack) >= 2 =>
              LET a == Last(Front(dstack))
                  b == Last(dstack)
              IN NumericOpcode(op, dstack) =
                    {Append(Below(dstack, 2), Encode(v)) :
                        v \in {w \in BinaryValue(op, Decode(a), Decode(b)) :
                                  Numeric(a) /\ Numeric(b) /\ Representable(w)}}

\* A number has exactly one element that the numeric opcodes accept.
NumbersCanonical ==
    \A i \in 1 .. Len(dstack) :
        LET e == dstack[i]
        IN /\ CheckMinimalDataEncoding(e) <=> Encode(Decode(e)) = e
           /\ Decode(Encode(Decode(e))) = Decode(e)

\* OP_NUM2BIN then OP_BIN2NUM restores a number at every width that holds it,
\* and OP_BIN2NUM keeps the value of every element.
ConversionsExact ==
    Executing /\ dstack # <<>> =>
        LET e == Last(dstack)
        IN Len(e) <= maxBigNumLen =>
           /\ \A s \in NumConversion("OP_BIN2NUM", dstack) :
                 Numeric(Last(s)) /\ Decode(Last(s)) = Decode(e)
           /\ Numeric(e) => \A size \in 0 .. maxBigNumLen :
                 LET wide == NumConversion("OP_NUM2BIN", Append(dstack, Encode(size)))
                 IN /\ wide # {} <=> Len(e) <= size
                    /\ \A s \in wide : /\ Len(Last(s)) = size
                                       /\ NumConversion("OP_BIN2NUM", s) = {dstack}

\* Every element that fits has exactly one push that an executing script may
\* use (checkMinimalDataPush over all push opcodes).
PushesCanonical ==
    \A i \in 1 .. Len(dstack) :
        LET e == dstack[i]
            push(op) == [op |-> op, data |-> IF op \in PushDataOps THEN e ELSE <<>>]
            accepted == {op \in PushOnlyOps \ {"OP_RESERVED"} :
                            /\ op \in PushDataOps => checkMinimalDataPush(op, push(op).data)
                            /\ PushOpcode(op, push(op).data, <<>>) = {<<e>>}}
        IN Len(e) <= MaxScriptElementSize => \E op \in accepted : accepted = {op}

\* One value, one byte string: equal numbers are equal bytes to OP_EQUAL and
\* every number an opcode pushes is accepted by the next, whatever conversions
\* it went through, and a script has one form.
EncodingCanonical == NumbersCanonical /\ ConversionsExact /\ PushesCanonical

-----------------------------------------------------------------------------
(***************************************************************************)
(* Stacks and elements.                                                    *)
(***************************************************************************)
\* The transformations that the comments of opcode.go document: the elements
\* that replace the top n, by their position among them.
Transformation ==
    [op \in {"OP_2DROP", "OP_2DUP", "OP_3DUP", "OP_2OVER", "OP_2ROT", "OP_2SWAP", "OP_DROP",
             "OP_DUP", "OP_NIP", "OP_OVER", "OP_ROT", "OP_SWAP", "OP_TUCK"} |->
        CASE op = "OP_2DROP" -> [n |-> 2, to |-> <<>>]
          [] op = "OP_2DUP" -> [n |-> 2, to |-> <<1, 2, 1, 2>>]
          [] op = "OP_3DUP" -> [n |-> 3, to |-> <<1, 2, 3, 1, 2, 3>>]
          [] op = "OP_2OVER" -> [n |-> 4, to |-> <<1, 2, 3, 4, 1, 2>>]
          [] op = "OP_2ROT" -> [n |-> 6, to |-> <<3, 4, 5, 6, 1, 2>>]
          [] op = "OP_2SWAP" -> [n |-> 4, to |-> <<3, 4, 1, 2>>]
          [] op = "OP_DROP" -> [n |-> 1, to |-> <<>>]
          [] op = "OP_DUP" -> [n |-> 1, to |-> <<1, 1>>]
          [] op = "OP_NIP" -> [n |-> 2, to |-> <<2>>]
          [] op = "OP_OVER" -> [n |-> 2, to |-> <<1, 2, 1>>]
          [] op = "OP_ROT" -> [n |-> 3, to |-> <<2, 3, 1>>]
          [] op = "OP_SWAP" -> [n |-> 2, to |-> <<2, 1>>]
          [] op = "OP_TUCK" -> [n |-> 2, to |-> <<2, 1, 2>>]]

\* The stack opcodes, loops of nipN and push in stack.go, do what their
\* comments say, at every depth, and fail exactly when elements are missing.
StackTransformations ==
    \A op \in DOMAIN Transformation :
        LET t == Transformation[op]
            n == Len(dstack) - t.n
        IN StackOpcode(op, dstack) =
              IF n < 0 THEN {}
              ELSE {SubSeq(dstack, 1, n) \o [k \in 1 .. Len(t.to) |-> dstack[n + t.to[k]]]}

\* No opcode makes an element longer than MaxScriptElementSize: only a longer
\* element of the packet's witness leads to one.
LongestElement(s) ==
    LET long[n \in 0 .. Len(s)] ==
            IF n = 0 THEN 0 ELSE IF Len(s[n]) > long[n - 1] THEN Len(s[n]) ELSE long[n - 1]
    IN long[Len(s)]
ElementsStayBounded ==
    [][status = "running" /\ input' = input =>
          \/ LongestElement(dstack') <= MaxScriptElementSize
          \/ LongestElement(dstack') <= LongestElement(dstack \o astack)]_vars

-----------------------------------------------------------------------------
(***************************************************************************)
(* Assets.                                                                 *)
(***************************************************************************)
\* A packet whose groups resolve, each to an asset of its own.
AssetsDistinct ==
    /\ AllResolve(Len(Groups) - 1)
    /\ \A j, k \in 0 .. Len(Groups) - 1 : IDOf(j) = IDOf(k) => j = k

\* What a group holds on one side, and the entries the packet has at a place.
Total(entries) == SumOver([i \in 1 .. Len(entries) |-> entries[i].amount], 1 .. Len(entries))
Places(source, at) ==
    UNION {{k} \X {n \in 1 .. Len(Side(k, source)) : Side(k, source)[n].at = at} :
              k \in 0 .. Len(Groups) - 1}

\* The views of the asset packet agree: an input or output counts every entry
\* that any group has there, has an entry at t exactly for t below its count,
\* the lookup finds an asset exactly when one of those entries holds it, with
\* the amount of the first, an asset is found in its own group, and the sum of
\* a group is what its entries hold together, never a wrapped one.
AssetViewsAgree ==
    Executing /\ dstack = <<>> /\ AssetsDistinct =>
        \A source \in {0, 1}, at \in (0 .. Len(Tx.ins)) \cup (0 .. Len(Tx.outs)) :
            LET count == Len(EntriesAt(source, at))
                entry(t) == AssetAt(source, at, t)
                holds(t, id) == \E r \in entry(t) : SubSeq(r, 1, 2) = PushID(id)
                ids == {IDOf(k) : k \in 0 .. Len(Groups) - 1} \cup
                       {[txid |-> Tx.txid, index |-> maxAssetGroupIndex]}
            IN /\ count = Cardinality(Places(source, at))
               /\ \A t \in 0 .. count : entry(t) # {} <=> t < count
               /\ \A id \in ids :
                     LET at0 == {t \in 0 .. count : holds(t, id)}
                     IN AssetLookup(source, at, id) =
                           IF at0 = {} THEN {<< <<>>, <<>> >>}
                           ELSE {<<r[3], <<1>> >> :
                                    r \in entry(CHOOSE t \in at0 : \A u \in at0 : t <= u)}
               /\ \A k \in 0 .. Len(Groups) - 1 :
                     /\ FindGroup(IDOf(k)) = {<<Encode(k), <<1>> >>}
                     /\ Sum(Side(k, source)) =
                           {Encode(v) : v \in {w \in {Total(Side(k, source))} : Representable(w)}}
=============================================================================
