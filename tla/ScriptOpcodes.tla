---------------------------- MODULE ScriptOpcodes ----------------------------
(***************************************************************************)
(* What every opcode of the Arkade script engine does to the data stack    *)
(* (opcode.go and the crypto opcodes of ec_ops.go).  OpcodeEffect(i, op,   *)
(* data, s) is the set of stacks that opcode op can leave of s at input i: *)
(* empty is a script error.  The conditionals and the alt stack are in     *)
(* ScriptEngine, the asset opcodes in AssetOpcodes.                        *)
(*                                                                         *)
(* Cryptography is external: Crypto(f, args) is the set of the results of  *)
(* function f, empty when it refuses its arguments.  Tx is the spending    *)
(* transaction with its previous outputs and packets.                      *)
(***************************************************************************)
EXTENDS AssetOpcodes

CONSTANTS
    Lock,                 \* locktime constants of txscript and wire
    maxModexpOperandLen,  \* 64
    maxECPairingCount,    \* 16
    MaxSatoshi,
    Curve                 \* curve id -> [p: field modulus, n: order, pairing: BOOLEAN]

-----------------------------------------------------------------------------
(***************************************************************************)
(* Numeric opcodes.  F maps BigNums to the set of BigNums to push.         *)
(***************************************************************************)
PushNums(N) == {<<b>> : b \in UNION {BigNumBytes(n) : n \in N}}
Bool(b) == {Small(IF b THEN 1 ELSE 0)}

Num1(s, F(_)) == Take1(s, LAMBDA a : PushNums(UNION {F(x) : x \in BigNumFromBytes(a)}))
Num2(s, F(_, _)) ==
    Take2(s, LAMBDA a, b : PushNums(UNION {F(x, y) : x \in BigNumFromBytes(a),
                                                     y \in BigNumFromBytes(b)}))
Num3(s, F(_, _, _)) ==
    Take3(s, LAMBDA a, b, c : PushNums(UNION {F(x, y, z) : x \in BigNumFromBytes(a),
                                               y \in BigNumFromBytes(b),
                                               z \in BigNumFromBytes(c)}))

\* The shift count is a script number, the shifted value a BigNum.
Shift(s, F(_, _)) ==
    Take2(s, LAMBDA a, b : PushNums(UNION {F(x, k) : x \in BigNumFromBytes(a),
                                                     k \in MakeScriptNum(b) \cap Nat}))

ModexpOperand(n) == Len(Encode(n.val)) <= maxModexpOperandLen

UnaryNumeric(op, x) ==
    CASE op = "OP_1ADD" -> {Add(x, Small(1))}
      [] op = "OP_1SUB" -> {Sub(x, Small(1))}
      [] op = "OP_2MUL" -> {Add(x, x)}
      [] op = "OP_2DIV" -> Div(x, Small(2))
      [] op = "OP_NEGATE" -> {Negate(x)}
      [] op = "OP_ABS" -> {AbsValue(x)}
      [] op = "OP_NOT" -> Bool(x.val = 0)
      [] op = "OP_0NOTEQUAL" -> Bool(x.val # 0)

BinaryNumeric(op, x, y) ==
    CASE op = "OP_ADD" -> {Add(x, y)}
      [] op = "OP_SUB" -> {Sub(x, y)}
      [] op = "OP_MUL" -> {Mul(x, y)}
      [] op = "OP_DIV" -> Div(x, y)
      [] op = "OP_MOD" -> Mod(x, y)

ShiftNumeric(op, x, k) == IF op = "OP_LSHIFT" THEN Lshift(x, k) ELSE {Rshift(x, k)}

Comparison(op, x, y) ==
    CASE op = "OP_BOOLAND" -> Bool(x.val # 0 /\ y.val # 0)
      [] op = "OP_BOOLOR" -> Bool(x.val # 0 \/ y.val # 0)
      [] op = "OP_NUMEQUAL" -> Bool(x.val = y.val)
      [] op = "OP_NUMNOTEQUAL" -> Bool(x.val # y.val)
      [] op = "OP_LESSTHAN" -> Bool(x.val < y.val)
      [] op = "OP_GREATERTHAN" -> Bool(x.val > y.val)
      [] op = "OP_LESSTHANOREQUAL" -> Bool(x.val <= y.val)
      [] op = "OP_GREATERTHANOREQUAL" -> Bool(x.val >= y.val)
      [] op = "OP_MIN" -> {IF x.val < y.val THEN x ELSE y}
      [] op = "OP_MAX" -> {IF x.val > y.val THEN x ELSE y}

\* opcodeWithin: the lower end belongs to the range.
InRange(x, lo, hi) == Bool(x.val >= lo.val /\ x.val < hi.val)

TernaryNumeric(op, x, y, z) ==
    CASE op = "OP_WITHIN" -> InRange(x, y, z)
      [] op = "OP_MODEXP" -> IF \A n \in {x, y, z} : ModexpOperand(n) THEN Modexp(x, y, z) ELSE {}

\* opcodeNum2Bin and opcodeBin2Num
NumConversion(op, s) ==
    CASE op = "OP_NUM2BIN" ->
             Take2(s, LAMBDA a, b :
                 {<<r>> : r \in UNION {FixedBytes(x, k) : x \in BigNumFromBytes(a),
                              k \in MakeScriptNum(b) \cap 0 .. maxBigNumLen}})
      [] op = "OP_BIN2NUM" ->
             Take1(s, LAMBDA a : IF Len(a) > maxBigNumLen THEN {} ELSE {<<MinimallyEncode(a)>>})

-----------------------------------------------------------------------------
(***************************************************************************)
(* Push, verify and locktime opcodes.                                      *)
(***************************************************************************)
Push(s, e) == {Append(s, e)}

\* opcodeFalse, opcodePushData, opcode1Negate and opcodeN
PushOpcode(op, data, s) ==
    CASE op = "OP_0" -> Push(s, <<>>)
      [] op \in {"OP_DATA", "OP_PUSHDATA1", "OP_PUSHDATA2", "OP_PUSHDATA4"} -> Push(s, data)
      [] op = "OP_1NEGATE" -> Push(s, Encode(-1))
      [] op \in SmallIntOps -> {Append(s, Encode(n)) : n \in {k \in 1 .. SmallIntMax : SmallIntOp[k] = op}}

\* abstractVerify
Verify(S) == UNION {Take1(s, LAMBDA a : IF AsBool(a) THEN {<<>>} ELSE {}) : s \in S}

\* verifyLockTime
VerifyLockTime(txLock, threshold, lock) ==
    (txLock < threshold) = (lock < threshold) /\ lock <= txLock

HasBit(x, b) == (x \div b) % 2 = 1

\* The bits of a sequence number that are compared.
SequenceMask(x) == (x % Lock.mask) + (IF HasBit(x, Lock.seconds) THEN Lock.seconds ELSE 0)

\* The operand of a locktime opcode stays on the stack.
LockOperand(s) ==
    {n.val : n \in {x \in UNION {BigNumFromBytes(e) : e \in Peek(s, 0)} :
                        x.val >= 0 /\ ~x.useBig /\ x.val <= Lock.maxUint32}}

\* opcodeCheckLockTimeVerify and opcodeCheckSequenceVerify
LockTimeVerify(i, op, s) ==
    LET seq == Tx.ins[i].sequence
        cltv(n) == VerifyLockTime(Tx.locktime, Lock.threshold, n) /\ seq # Lock.maxUint32
        csv(n) == \/ HasBit(n, Lock.disabled)
                  \/ /\ Tx.version >= 2
                     /\ ~HasBit(seq, Lock.disabled)
                     /\ VerifyLockTime(SequenceMask(seq), Lock.seconds, SequenceMask(n))
    IN {s : n \in {k \in LockOperand(s) :
            IF op = "OP_CHECKLOCKTIMEVERIFY" THEN cltv(k) ELSE csv(k)}}

-----------------------------------------------------------------------------
(***************************************************************************)
(* Stack, splice and bitwise opcodes.                                      *)
(***************************************************************************)
StackOpcode(op, s) ==
    CASE op = "OP_2DROP" -> DropN(s, 2)
      [] op = "OP_2DUP" -> DupN(s, 2)
      [] op = "OP_3DUP" -> DupN(s, 3)
      [] op = "OP_2OVER" -> OverN(s, 2)
      [] op = "OP_2ROT" -> RotN(s, 2)
      [] op = "OP_2SWAP" -> SwapN(s, 2)
      [] op = "OP_IFDUP" -> {IF AsBool(e) THEN Append(s, e) ELSE s : e \in Peek(s, 0)}
      [] op = "OP_DEPTH" -> Push(s, Encode(Depth(s)))
      [] op = "OP_DROP" -> DropN(s, 1)
      [] op = "OP_DUP" -> DupN(s, 1)
      [] op = "OP_NIP" -> NipN(s, 1)
      [] op = "OP_OVER" -> OverN(s, 1)
      [] op = "OP_PICK" -> UNION {UNION {PickN(Below(s, 1), n) : n \in MakeScriptNum(e)} : e \in Peek(s, 0)}
      [] op = "OP_ROLL" -> UNION {UNION {RollN(Below(s, 1), n) : n \in MakeScriptNum(e)} : e \in Peek(s, 0)}
      [] op = "OP_ROT" -> RotN(s, 1)
      [] op = "OP_SWAP" -> SwapN(s, 1)
      [] op = "OP_TUCK" -> Tuck(s)
      [] op = "OP_SIZE" -> {Append(s, Encode(Len(e))) : e \in Peek(s, 0)}

\* A script number in 0 .. Len(e), the bounds of LEFT and RIGHT.
Within(a, n) == MakeScriptNum(a) \cap 0 .. n

\* Mutant: the length of a concatenation is not tested.
CatUnbounded(s) == Take2(s, LAMBDA a, b : {<<a \o b>>})

\* opcodeCat: the result is at most MaxScriptElementSize (520) bytes long.
Cat(s) == Take2(s, LAMBDA a, b : IF Len(a) + Len(b) > maxBigNumLen THEN {} ELSE {<<a \o b>>})

SpliceOpcode(op, s) ==
    CASE op = "OP_CAT" -> Cat(s)
      [] op = "OP_SUBSTR" ->
             Take3(s, LAMBDA e, a, b : {<<SubSeq(e, r[1] + 1, r[1] + r[2])>> :
                 r \in {q \in Within(a, Len(e)) \X Within(b, Len(e)) : q[1] + q[2] <= Len(e)}})
      [] op = "OP_LEFT" -> Take2(s, LAMBDA e, a : {<<SubSeq(e, 1, n)>> : n \in Within(a, Len(e))})
      [] op = "OP_RIGHT" ->
             Take2(s, LAMBDA e, a : {<<SubSeq(e, Len(e) - n + 1, Len(e))>> : n \in Within(a, Len(e))})
      [] op = "OP_REVERSEBYTES" -> Take1(s, LAMBDA e : {<<Bytes(Len(e), LAMBDA i : e[Len(e) + 1 - i])>>})

\* A byte as the set of its bits, and back.
BitsOf(x) == {n \in 0 .. ByteBits - 1 : (x \div Pow2[n]) % 2 = 1}
FromBits(B) ==
    LET sum[n \in 0 .. ByteBits] ==
            IF n = 0 THEN 0 ELSE sum[n - 1] + (IF n - 1 \in B THEN Pow2[n - 1] ELSE 0)
    IN sum[ByteBits]

\* F byte by byte over two elements of one length
Bytewise(s, F(_, _)) ==
    Take2(s, LAMBDA a, b : IF Len(a) # Len(b) THEN {}
                           ELSE {<<Bytes(Len(a), LAMBDA i : F(a[i], b[i]))>>})

BitwiseOpcode(op, s) ==
    CASE op = "OP_INVERT" -> Take1(s, LAMBDA e : {<<Bytes(Len(e), LAMBDA i : Radix - 1 - e[i])>>})
      [] op = "OP_AND" -> Bytewise(s, LAMBDA x, y : FromBits(BitsOf(x) \cap BitsOf(y)))
      [] op = "OP_OR" -> Bytewise(s, LAMBDA x, y : FromBits(BitsOf(x) \cup BitsOf(y)))
      [] op = "OP_XOR" -> Bytewise(s, LAMBDA x, y : FromBits((BitsOf(x) \cup BitsOf(y)) \ (BitsOf(x) \cap BitsOf(y))))
      [] op = "OP_EQUAL" -> Take2(s, LAMBDA a, b : {<<FromBool(a = b)>>})

-----------------------------------------------------------------------------
(***************************************************************************)
(* Hash and signature opcodes.                                             *)
(***************************************************************************)
ZeroHash == Bytes(HashLen, LAMBDA i : 0)
HashOf(f, e) == {<<h>> : h \in Crypto(f, <<e>>)}

\* opcodeDigest's hash types
DigestType == <<"sha256", "sha1", "ripemd160", "keccak256", "sha3_256">>

\* opcodeMerkleBranchVerify: the siblings of a proof, sorted pairwise.
Lesser(a, b) == \E i \in 1 .. Len(a) : a[i] < b[i] /\ \A j \in 1 .. i - 1 : a[j] = b[j]
MerkleRoot(branchTag, leaf, proof) ==
    LET node[n \in 0 .. Len(proof) \div HashLen] ==
            IF n = 0 THEN leaf
            ELSE LET sibling == SubSeq(proof, (n - 1) * HashLen + 1, n * HashLen)
                     pair == IF Lesser(node[n - 1], sibling)
                             THEN node[n - 1] \o sibling ELSE sibling \o node[n - 1]
                 IN CHOOSE h \in Crypto("tagged", <<branchTag, pair>>) : TRUE
    IN node[Len(proof) \div HashLen]
MerkleBranch(leafTag, branchTag, proof, leafData) ==
    IF Len(proof) % HashLen # 0 \/ branchTag = <<>> THEN {}
    ELSE LET leaf == IF leafTag # <<>> THEN Crypto("tagged", <<leafTag, leafData>>)
                     ELSE IF Len(leafData) = HashLen THEN {leafData} ELSE {}
         IN {<<MerkleRoot(branchTag, h, proof)>> : h \in leaf}

\* opcodeRipemd160, opcodeSha1, opcodeSha256, opcodeHash160 and opcodeHash256:
\* the hash of an element, or of its sha256.
OuterHash == [OP_RIPEMD160 |-> "ripemd160", OP_SHA1 |-> "sha1", OP_SHA256 |-> "sha256",
              OP_HASH160 |-> "ripemd160", OP_HASH256 |-> "sha256"]
Preimage(op, e) == IF op \in {"OP_HASH160", "OP_HASH256"} THEN Crypto("sha256", <<e>>) ELSE {e}

HashOpcode(op, s) ==
    CASE op \in DOMAIN OuterHash ->
             Take1(s, LAMBDA e : UNION {HashOf(OuterHash[op], p) : p \in Preimage(op, e)})
      [] op = "OP_DIGEST" ->
             Take2(s, LAMBDA e, a : UNION {HashOf(DigestType[n], e) : n \in MakeScriptNum(a) \cap 1 .. 5})
      [] op = "OP_MERKLEBRANCHVERIFY" -> Take4(s, MerkleBranch)

\* The streaming opcodes: "absorb" takes a state (decodeSha256State refuses an
\* element that is not one) and data, "finish" ends a state.
StreamOpcode(op, s) ==
    CASE op = "OP_SHA256INITIALIZE" ->
             Take1(s, LAMBDA e : {<<st>> : st \in UNION {Crypto("absorb", <<i, e>>) : i \in Crypto("init", <<>>)}})
      [] op = "OP_SHA256UPDATE" -> Take2(s, LAMBDA st, e : {<<t>> : t \in Crypto("absorb", <<st, e>>)})
      [] op = "OP_SHA256FINALIZE" ->
             Take2(s, LAMBDA st, e : {<<h>> : h \in UNION {Crypto("finish", <<t>>) : t \in Crypto("absorb", <<st, e>>)}})

\* The signature check of input i's transaction: an empty key is an error, an
\* empty signature is "false", and any other signature must verify: a key or
\* signature that does not parse, and one that fails, are errors (NULLFAIL).
Signature(i, pk, sig) ==
    IF pk = <<>> THEN {}
    ELSE IF sig = <<>> THEN {FALSE}
    ELSE IF Crypto("verifytx", <<i, pk, sig>>) # {} THEN {TRUE} ELSE {}

CheckSig(i, s) == Take2(s, LAMBDA sig, pk : {<<FromBool(b)>> : b \in Signature(i, pk, sig)})

\* isValidTaprootSigHash and the range test of opcodeSighash; the low bits 3
\* are SIGHASH_SINGLE, which needs an output at the input's index.
SigHashOpcode(i, s) ==
    Take1(s, LAMBDA a : {<<h>> : h \in UNION {Crypto("sighash", <<i, n>>) :
        n \in {t \in MakeScriptNum(a) : /\ t \in Tx.sigHashTypes
                                        /\ t \in Tx.sigHashSingle => i <= Len(Tx.outs)}}})

SignatureOpcode(i, op, s) ==
    CASE op = "OP_CHECKSIG" -> CheckSig(i, s)
      [] op = "OP_CHECKSIGVERIFY" -> Verify(CheckSig(i, s))
      [] op = "OP_CHECKSIGADD" ->
             Take3(s, LAMBDA sig, acc, pk : {<<Encode(n + (IF b THEN 1 ELSE 0))>> :
                 n \in MakeScriptNum(acc), b \in Signature(i, pk, sig)})
      [] op = "OP_CHECKSIGFROMSTACK" ->
             Take3(s, LAMBDA sig, msg, pk :
                 IF sig = <<>> THEN {<< <<>> >>}
                 ELSE IF Crypto("verify", <<pk, msg, sig>>) # {} THEN {<<Encode(1)>>} ELSE {})
      [] op = "OP_SIGHASH" -> SigHashOpcode(i, s)
      [] op = "OP_CODESEPARATOR" -> {s}

-----------------------------------------------------------------------------
(***************************************************************************)
(* Elliptic curves.  The operands are BigNums in the field or the group.   *)
(***************************************************************************)
CurveID(e) == {n.val : n \in {x \in BigNumFromBytes(e) : x.val \in DOMAIN Curve}}
InField(e, m) == {n.val : n \in {x \in BigNumFromBytes(e) : x.val >= 0 /\ x.val < m}}
PushPoint(P) == {<<x, y>> : x \in BigNumBytes(Big(P[1])), y \in BigNumBytes(Big(P[2]))}

\* The top n elements below the curve id, as numbers below the modulus m(k).
Operands(s, n, Modulus(_)) ==
    IF Len(s) < n THEN {}
    ELSE LET operand(k) == InField(s[Len(s) - n + k], Modulus(k))
         IN IF \A k \in 1 .. n : operand(k) # {}
            THEN {[k \in 1 .. n |-> CHOOSE v \in operand(k) : TRUE]} ELSE {}

\* opcodeECAdd and opcodeECMul
PointOpcode(op, s) ==
    UNION {UNION {
        LET below == Below(s, 1)
            mul == op = "OP_ECMUL"
            n == IF mul THEN 3 ELSE 4
            modulus(k) == IF mul /\ k = 3 THEN Curve[c].n ELSE Curve[c].p
        IN {Below(below, n) \o r : r \in UNION {UNION {PushPoint(P) :
                P \in Crypto(IF mul THEN "ecmul" ELSE "ecadd", <<c, v>>)} :
                v \in Operands(below, n, modulus)}}
        : c \in CurveID(e)} : e \in Peek(s, 0)}

\* opcodeECPairing: count pairs of six coordinates each
PairingOpcode(s) ==
    IF Len(s) < 2 THEN {}
    ELSE UNION {UNION {
        LET below == Below(s, 2)
            modulus(k) == Curve[c].p
        IN {Append(Below(below, 6 * n), FromBool(b)) :
                b \in UNION {Crypto("pairing", v) : v \in Operands(below, 6 * n, modulus)}}
        : n \in {x.val : x \in BigNumFromBytes(s[Len(s) - 1])} \cap 1 .. maxECPairingCount}
        : c \in {x \in CurveID(s[Len(s)]) : Curve[x].pairing}}

\* opcodeECMulScalarVerify and opcodeTweakVerify compare with the last operand.
CurveOpcode(op, s) ==
    CASE op \in {"OP_ECADD", "OP_ECMUL"} -> PointOpcode(op, s)
      [] op = "OP_ECPAIRING" -> PairingOpcode(s)
      [] op = "OP_ECMULSCALARVERIFY" ->
             Take3(s, LAMBDA k, P, Q : IF Len(k) = HashLen /\ Q \in Crypto("kP", <<k, P>>) THEN {<<>>} ELSE {})
      [] op = "OP_TWEAKVERIFY" ->
             Take3(s, LAMBDA P, k, Q : IF Len(P) = HashLen /\ Len(k) = HashLen /\ Q \in Crypto("P+kG", <<P, k>>)
                                       THEN {<<>>} ELSE {})

-----------------------------------------------------------------------------
(***************************************************************************)
(* Introspection of the spending transaction.                              *)
(***************************************************************************)
AtIndex(s, seq, F(_)) ==
    Take1(s, LAMBDA a : UNION {F(n + 1) : n \in {k \in MakeScriptNum(a) : k >= 0 /\ k < Len(seq)}})

\* pushSatoshiValue
PushSatoshi(v) == IF v < 0 \/ v > MaxSatoshi THEN {} ELSE PushNums({BigNumFromUint64(v)})

\* pushScriptPubKey: a witness program and its version, or a hash and -1.
PushScript(script) ==
    IF script.version >= 0 THEN {<<script.program, Encode(script.version)>>}
    ELSE {<<h, Encode(-1)>> : h \in Crypto("sha256", <<script.program>>)}

InputOpcode(i, op, s) ==
    CASE op = "OP_INSPECTINPUTOUTPOINT" ->
             AtIndex(s, Tx.ins, LAMBDA n : {<<Tx.ins[n].txid, Encode(Tx.ins[n].vout)>>})
      [] op = "OP_INSPECTINPUTVALUE" -> AtIndex(s, Tx.ins, LAMBDA n : PushSatoshi(Tx.ins[n].value))
      [] op = "OP_INSPECTINPUTSCRIPTPUBKEY" -> AtIndex(s, Tx.ins, LAMBDA n : PushScript(Tx.ins[n].script))
      [] op = "OP_INSPECTINPUTSEQUENCE" ->
             AtIndex(s, Tx.ins, LAMBDA n : PushNums({BigNumFromUint64(Tx.ins[n].sequence)}))
      [] op = "OP_PUSHCURRENTINPUTINDEX" -> Push(s, Encode(i - 1))

TxOpcode(op, s) ==
    CASE op = "OP_INSPECTOUTPUTVALUE" -> AtIndex(s, Tx.outs, LAMBDA n : PushSatoshi(Tx.outs[n].value))
      [] op = "OP_INSPECTOUTPUTSCRIPTPUBKEY" -> AtIndex(s, Tx.outs, LAMBDA n : PushScript(Tx.outs[n].script))
      [] op = "OP_INSPECTVERSION" -> {s \o r : r \in PushNums({Small(Tx.version)})}
      [] op = "OP_INSPECTLOCKTIME" -> {s \o r : r \in PushNums({BigNumFromUint64(Tx.locktime)})}
      [] op = "OP_INSPECTNUMINPUTS" -> Push(s, Encode(Len(Tx.ins)))
      [] op = "OP_INSPECTNUMOUTPUTS" -> Push(s, Encode(Len(Tx.outs)))
      [] op = "OP_TXWEIGHT" -> {s \o r : r \in PushNums({BigNumFromUint64(Tx.weight)})}
      [] op = "OP_TXID" -> Push(s, Tx.txid)

\* findPacketByType over the packets of a transaction: type -> content
Packet(packets, t) ==
    IF t \notin DOMAIN packets THEN {<< <<>>, Encode(0) >>}
    ELSE IF Len(packets[t]) > maxBigNumLen THEN {} ELSE {<<packets[t], Encode(1)>>}

PacketType(a) == MakeScriptNum(a) \cap 0 .. Radix - 1

PacketOpcode(op, s) ==
    CASE op = "OP_INSPECTPACKET" ->
             Take1(s, LAMBDA a : UNION {Packet(Tx.packets, t) : t \in PacketType(a)})
      [] op = "OP_INSPECTINPUTPACKET" ->
             Take2(s, LAMBDA a, b : UNION {UNION {Packet(p, t) : p \in Tx.ins[n + 1].arkTx} :
                 t \in PacketType(a), n \in {k \in MakeScriptNum(b) : k >= 0 /\ k < Len(Tx.ins)}})
      [] op = "OP_INSPECTINPUTARKADESCRIPTHASH" ->
             AtIndex(s, Tx.ins, LAMBDA n : {<<e.scriptHash>> : e \in {x \in Tx.entries : x.vin = n - 1}})
      [] op = "OP_INSPECTINPUTARKADEWITNESSHASH" ->
             AtIndex(s, Tx.ins, LAMBDA n : {<<IF e.witness = <<>> THEN ZeroHash ELSE e.witnessHash>> :
                                               e \in {x \in Tx.entries : x.vin = n - 1}})

-----------------------------------------------------------------------------
(***************************************************************************)
(* The opcode table.                                                       *)
(***************************************************************************)
UnaryNumericOps == {"OP_1ADD", "OP_1SUB", "OP_2MUL", "OP_2DIV", "OP_NEGATE", "OP_ABS", "OP_NOT",
                    "OP_0NOTEQUAL"}
BinaryNumericOps == {"OP_ADD", "OP_SUB", "OP_MUL", "OP_DIV", "OP_MOD"}
ShiftOps == {"OP_LSHIFT", "OP_RSHIFT"}
ComparisonOps == {"OP_BOOLAND", "OP_BOOLOR", "OP_NUMEQUAL", "OP_NUMNOTEQUAL", "OP_LESSTHAN",
                  "OP_GREATERTHAN", "OP_LESSTHANOREQUAL", "OP_GREATERTHANOREQUAL", "OP_MIN", "OP_MAX"}
TernaryNumericOps == {"OP_WITHIN", "OP_MODEXP"}
NumericOps == UnaryNumericOps \cup BinaryNumericOps \cup ShiftOps \cup ComparisonOps \cup TernaryNumericOps
PushOps == {"OP_0", "OP_DATA", "OP_PUSHDATA1", "OP_PUSHDATA2", "OP_PUSHDATA4", "OP_1NEGATE"}
           \cup SmallIntOps
StackOps == {"OP_2DROP", "OP_2DUP", "OP_3DUP", "OP_2OVER", "OP_2ROT", "OP_2SWAP", "OP_IFDUP",
             "OP_DEPTH", "OP_DROP", "OP_DUP", "OP_NIP", "OP_OVER", "OP_PICK", "OP_ROLL", "OP_ROT",
             "OP_SWAP", "OP_TUCK", "OP_SIZE"}
SpliceOps == {"OP_CAT", "OP_SUBSTR", "OP_LEFT", "OP_RIGHT", "OP_REVERSEBYTES"}
BitwiseOps == {"OP_INVERT", "OP_AND", "OP_OR", "OP_XOR", "OP_EQUAL"}
HashOps == {"OP_RIPEMD160", "OP_SHA1", "OP_SHA256", "OP_HASH160", "OP_HASH256", "OP_DIGEST",
            "OP_MERKLEBRANCHVERIFY"}
StreamOps == {"OP_SHA256INITIALIZE", "OP_SHA256UPDATE", "OP_SHA256FINALIZE"}
SignatureOps == {"OP_CHECKSIG", "OP_CHECKSIGVERIFY", "OP_CHECKSIGADD", "OP_CHECKSIGFROMSTACK",
                 "OP_SIGHASH", "OP_CODESEPARATOR"}
CurveOps == {"OP_ECADD", "OP_ECMUL", "OP_ECPAIRING", "OP_ECMULSCALARVERIFY", "OP_TWEAKVERIFY"}
InputOps == {"OP_INSPECTINPUTOUTPOINT", "OP_INSPECTINPUTVALUE", "OP_INSPECTINPUTSCRIPTPUBKEY",
             "OP_INSPECTINPUTSEQUENCE", "OP_PUSHCURRENTINPUTINDEX"}
TxOps == {"OP_INSPECTOUTPUTVALUE", "OP_INSPECTOUTPUTSCRIPTPUBKEY", "OP_INSPECTVERSION",
          "OP_INSPECTLOCKTIME", "OP_INSPECTNUMINPUTS", "OP_INSPECTNUMOUTPUTS", "OP_TXWEIGHT", "OP_TXID"}
PacketOps == {"OP_INSPECTPACKET", "OP_INSPECTINPUTPACKET", "OP_INSPECTINPUTARKADESCRIPTHASH",
              "OP_INSPECTINPUTARKADEWITNESSHASH"}
AssetOps == GroupOpcodes \cup InputSideOpcodes \cup OutputSideOpcodes \cup
            {"OP_INSPECTNUMASSETGROUPS", "OP_FINDASSETGROUPBYASSETID"}
LockTimeOps == {"OP_CHECKLOCKTIMEVERIFY", "OP_CHECKSEQUENCEVERIFY"}
VerifyOps == {"OP_VERIFY", "OP_EQUALVERIFY", "OP_NUMEQUALVERIFY"}

\* Reserved, invalid and disabled opcodes, OP_RETURN and the upgradable NOPs
\* always fail.
FailingOps == {"OP_RETURN", "OP_NOP1", "OP_CHECKMULTISIG", "OP_CHECKMULTISIGVERIFY",
               "OP_RESERVED", "OP_INVALIDOPCODE"}

\* Every opcode that works on the data stack alone.
Opcodes == {"OP_NOP", "OP_NUM2BIN", "OP_BIN2NUM"} \cup PushOps \cup FailingOps \cup VerifyOps
           \cup LockTimeOps \cup NumericOps \cup StackOps \cup SpliceOps \cup BitwiseOps
           \cup HashOps \cup StreamOps \cup SignatureOps \cup CurveOps \cup InputOps \cup TxOps
           \cup PacketOps \cup AssetOps

VerifyOpcode(op, s) ==
    Verify(CASE op = "OP_VERIFY" -> {s}
             [] op = "OP_EQUALVERIFY" -> BitwiseOpcode("OP_EQUAL", s)
             [] op = "OP_NUMEQUALVERIFY" -> Num2(s, LAMBDA x, y : Comparison("OP_NUMEQUAL", x, y)))

NumericOpcode(op, s) ==
    CASE op \in UnaryNumericOps -> Num1(s, LAMBDA x : UnaryNumeric(op, x))
      [] op \in BinaryNumericOps -> Num2(s, LAMBDA x, y : BinaryNumeric(op, x, y))
      [] op \in ComparisonOps -> Num2(s, LAMBDA x, y : Comparison(op, x, y))
      [] op \in ShiftOps -> Shift(s, LAMBDA x, k : ShiftNumeric(op, x, k))
      [] op \in TernaryNumericOps -> Num3(s, LAMBDA x, y, z : TernaryNumeric(op, x, y, z))

OpcodeEffect(i, op, data, s) ==
    CASE op \in PushOps -> PushOpcode(op, data, s)
      [] op = "OP_NOP" -> {s}
      [] op \in FailingOps -> {}
      [] op \in VerifyOps -> VerifyOpcode(op, s)
      [] op \in LockTimeOps -> LockTimeVerify(i, op, s)
      [] op \in NumericOps -> NumericOpcode(op, s)
      [] op \in {"OP_NUM2BIN", "OP_BIN2NUM"} -> NumConversion(op, s)
      [] op \in StackOps -> StackOpcode(op, s)
      [] op \in SpliceOps -> SpliceOpcode(op, s)
      [] op \in BitwiseOps -> BitwiseOpcode(op, s)
      [] op \in HashOps -> HashOpcode(op, s)
      [] op \in StreamOps -> StreamOpcode(op, s)
      [] op \in SignatureOps -> SignatureOpcode(i, op, s)
      [] op \in CurveOps -> CurveOpcode(op, s)
      [] op \in InputOps -> InputOpcode(i, op, s)
      [] op \in TxOps -> TxOpcode(op, s)
      [] op \in PacketOps -> PacketOpcode(op, s)
      [] op \in AssetOps -> AssetOpcode(op, s)
=============================================================================
