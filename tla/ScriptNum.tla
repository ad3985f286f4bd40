------------------------------ MODULE ScriptNum ------------------------------
(***************************************************************************)
(* Numbers of the Arkade script engine (scriptnum.go, bignum.go, and the   *)
(* booleans of stack.go): the little-endian sign-magnitude encoding, the   *)
(* int64 fast path of BigNum with its overflow tests, and the promotion to *)
(* big integers.                                                           *)
(*                                                                         *)
(* A stack element is a sequence of bytes.  The widths are parameters: a   *)
(* byte has ByteBits bits (8 in the code), an int64 has int64ByteCap bytes *)
(* (8), a script number at most maxScriptNumLen (4) and a BigNum at most   *)
(* maxBigNumLen (520).  An operation that can fail returns the set of its  *)
(* results: empty on an error, one member on success.                      *)
(***************************************************************************)
EXTENDS Integers, Sequences

CONSTANTS
    ByteBits, int64ByteCap, maxScriptNumLen, maxBigNumLen,
    SmallIntMax    \* the largest n with an OP_n (16)

\* The powers of two.
Pow2[n \in Nat] == IF n = 0 THEN 1 ELSE 2 * Pow2[n - 1]

Radix == Pow2[ByteBits]
SignBit == Pow2[ByteBits - 1]
Byte == 0 .. Radix - 1
Element == Seq(Byte)

\* What a byte with i bytes below it counts.
Weight(i) == Pow2[ByteBits * i]

\* A script number holds every size of a BigNum, and one byte every OP_n.
ASSUME WidthAssumption ==
    /\ ByteBits \in Nat \ {0, 1}
    /\ int64ByteCap \in Nat \ {0}
    /\ maxScriptNumLen \in Nat \ {0}
    /\ maxBigNumLen \in Nat \ {0}
    /\ maxScriptNumLen <= int64ByteCap
    /\ int64ByteCap <= maxBigNumLen
    /\ maxBigNumLen < SignBit * Weight(maxScriptNumLen - 1)
    /\ SmallIntMax \in 2 .. 16
    /\ SmallIntMax < SignBit

\* The two's-complement range of int64.
Half == Pow2[ByteBits * int64ByteCap - 1]
MaxInt64 == Half - 1
MinInt64 == -Half

\* What an int64 operation leaves of an integer.
Wrap(x) == ((x + Half) % (2 * Half)) - Half

Magnitude(x) == IF x < 0 THEN -x ELSE x

\* The opcodes that push a number of their own.
SmallIntOp == <<"OP_1", "OP_2", "OP_3", "OP_4", "OP_5", "OP_6", "OP_7", "OP_8", "OP_9", "OP_10",
                "OP_11", "OP_12", "OP_13", "OP_14", "OP_15", "OP_16">>
SmallIntOps == {SmallIntOp[n] : n \in 1 .. SmallIntMax}

-----------------------------------------------------------------------------
(***************************************************************************)
(* Encoding.                                                               *)
(***************************************************************************)
\* The byte count of a magnitude, and its bytes, least significant first.
ByteCount(m) == CHOOSE k \in 0 .. m : m < Weight(k) /\ (k > 0 => m >= Weight(k - 1))
Bytes(n, F(_)) == SubSeq([i \in 1 .. n |-> F(i)], 1, n)
LittleEndian(m) == Bytes(ByteCount(m), LAMBDA i : (m \div Weight(i - 1)) % Radix)

\* scriptNum.Bytes, encodeInt64 and encodeBig: one encoding, with an extra
\* byte for the sign when the top byte has its high bit set.
Encode(v) ==
    IF v = 0 THEN <<>>
    ELSE LET le == LittleEndian(Magnitude(v))
             n == Len(le)
         IN IF le[n] >= SignBit THEN Append(le, IF v < 0 THEN SignBit ELSE 0)
            ELSE [le EXCEPT ![n] = IF v < 0 THEN @ + SignBit ELSE @]

\* The value of the lowest bytes of e: of none, of the first, and so on.
LowBytes(e) ==
    LET sum[i \in 0 .. Len(e)] == IF i = 0 THEN 0 ELSE sum[i - 1] + e[i] * Weight(i - 1)
    IN sum

\* decodeInt64, decodeBig and the end of MakeScriptNum
Decode(e) ==
    IF e = <<>> THEN 0
    ELSE LET top == e[Len(e)]
             m == LowBytes(e)[Len(e) - 1] + (top % SignBit) * Weight(Len(e) - 1)
         IN IF top >= SignBit THEN -m ELSE m

\* Mutant: a zero top byte is never refused.
TopByteIgnored(e) == TRUE

\* checkMinimalDataEncoding
CheckMinimalDataEncoding(e) ==
    \/ e = <<>>
    \/ e[Len(e)] % SignBit # 0
    \/ Len(e) > 1 /\ e[Len(e) - 1] >= SignBit

\* MakeScriptNum, as PopInt calls it
MakeScriptNum(e) ==
    IF Len(e) <= maxScriptNumLen /\ CheckMinimalDataEncoding(e) THEN {Decode(e)} ELSE {}

\* Trailing zero bytes removed.
TrimRight(e) ==
    LET n == CHOOSE k \in 0 .. Len(e) :
                 /\ k > 0 => e[k] # 0
                 /\ \A i \in k + 1 .. Len(e) : e[i] = 0
    IN SubSeq(e, 1, n)

\* minimallyEncode
MinimallyEncode(e) ==
    IF e = <<>> THEN <<>>
    ELSE LET n == Len(e)
             sign == IF e[n] >= SignBit THEN SignBit ELSE 0
             m == TrimRight([e EXCEPT ![n] = @ % SignBit])
         IN IF m = <<>> THEN <<>>
            ELSE IF m[Len(m)] >= SignBit THEN Append(m, sign)
            ELSE [m EXCEPT ![Len(m)] = @ + sign]

\* asBool: any nonzero byte, except that a sign bit alone is negative zero.
AsBool(e) == \E i \in 1 .. Len(e) : e[i] # 0 /\ ~(i = Len(e) /\ e[i] = SignBit)

\* fromBool
FromBool(b) == IF b THEN <<1>> ELSE <<>>

-----------------------------------------------------------------------------
(***************************************************************************)
(* BigNum: a value held as an int64 or, when useBig, as a big integer.     *)
(***************************************************************************)
Small(x) == [useBig |-> FALSE, val |-> x]
Big(x) == [useBig |-> TRUE, val |-> x]
BothSmall(n, m) == ~n.useBig /\ ~m.useBig

\* BigNumFromBytes
BigNumFromBytes(e) ==
    IF Len(e) > maxBigNumLen \/ ~CheckMinimalDataEncoding(e) THEN {}
    ELSE IF Len(e) <= int64ByteCap THEN {Small(Decode(e))} ELSE {Big(Decode(e))}

\* BigNumFromUint64
BigNumFromUint64(x) == IF x <= MaxInt64 THEN Small(x) ELSE Big(x)

\* BigNum.Bytes
BigNumBytes(n) == IF Len(Encode(n.val)) <= maxBigNumLen THEN {Encode(n.val)} ELSE {}

\* BigNum.FixedBytes: the sign moves to the last of size bytes.
FixedBytes(n, size) ==
    {LET body(i) == IF i < Len(b) THEN b[i] ELSE IF i = Len(b) THEN b[i] % SignBit ELSE 0
         sign == IF b # <<>> /\ b[Len(b)] >= SignBit THEN SignBit ELSE 0
     IN Bytes(size, LAMBDA i : IF i = size THEN body(i) + sign ELSE body(i))
     : b \in {x \in BigNumBytes(n) : Len(x) <= size}}

\* BigNum.Add: (r ^ n) & (r ^ m) is negative iff r has neither operand's sign.
Add(n, m) ==
    LET r == Wrap(n.val + m.val)
        overflow == (r < 0) # (n.val < 0) /\ (r < 0) # (m.val < 0)
    IN IF BothSmall(n, m) /\ ~overflow THEN Small(r) ELSE Big(n.val + m.val)

\* BigNum.Sub
Sub(n, m) ==
    LET r == Wrap(n.val - m.val)
        overflow == (n.val < 0) # (m.val < 0) /\ (n.val < 0) # (r < 0)
    IN IF BothSmall(n, m) /\ ~overflow THEN Small(r) ELSE Big(n.val - m.val)

\* Go's and big.Int's quotient, truncated toward zero, and remainder.
Quo(a, b) ==
    LET q == Magnitude(a) \div Magnitude(b)
    IN IF (a < 0) = (b < 0) THEN q ELSE -q
Rem(a, b) == a - b * Quo(a, b)

\* Mutant: the product is divided back without the guard for -1 * MinInt64.
MulUnguarded(n, m) ==
    IF BothSmall(n, m) /\ (n.val = 0 \/ m.val = 0) THEN Small(0)
    ELSE LET r == Wrap(n.val * m.val)
         IN IF BothSmall(n, m) /\ Wrap(Quo(r, n.val)) = m.val THEN Small(r)
            ELSE Big(n.val * m.val)

\* BigNum.Mul: the int64 quotient of MinInt64 and -1 wraps too.
Mul(n, m) ==
    IF BothSmall(n, m) /\ (n.val = 0 \/ m.val = 0) THEN Small(0)
    ELSE LET r == Wrap(n.val * m.val)
         IN IF /\ BothSmall(n, m)
               /\ n.val # -1 \/ m.val # MinInt64
               /\ Wrap(Quo(r, n.val)) = m.val
            THEN Small(r)
            ELSE Big(n.val * m.val)

\* BigNum.Div and BigNum.Mod
FitsQuotient(n, m) == BothSmall(n, m) /\ (n.val # MinInt64 \/ m.val # -1)

Div(n, m) ==
    IF m.val = 0 THEN {}
    ELSE IF FitsQuotient(n, m) THEN {Small(Quo(n.val, m.val))} ELSE {Big(Quo(n.val, m.val))}
Mod(n, m) ==
    IF m.val = 0 THEN {}
    ELSE IF FitsQuotient(n, m) THEN {Small(Rem(n.val, m.val))} ELSE {Big(Rem(n.val, m.val))}

\* BigNum.Negate and BigNum.Abs
Negate(n) == IF ~n.useBig /\ n.val # MinInt64 THEN Small(-n.val) ELSE Big(-n.val)
AbsValue(n) == IF ~n.useBig /\ n.val >= 0 THEN n
               ELSE IF ~n.useBig /\ n.val # MinInt64 THEN Small(-n.val)
               ELSE Big(Magnitude(n.val))

\* BigNum.Modexp.  BigNumFromBytes has bounded the operands' size.
Modexp(base, exp, modulus) ==
    IF modulus.val <= 0 \/ exp.val < 0 THEN {}
    ELSE LET power[k \in 0 .. exp.val] ==
                 IF k = 0 THEN 1 % modulus.val ELSE (power[k - 1] * base.val) % modulus.val
         IN {Big(power[exp.val])}

\* BigNum.Lshift and BigNum.Rshift: on the signed integer, right rounds down.
Lshift(n, shift) ==
    IF n.val = 0 THEN {n}
    ELSE IF shift > maxBigNumLen * ByteBits THEN {}
    ELSE {x \in {Big(n.val * Pow2[shift])} : BigNumBytes(x) # {}}
Rshift(n, shift) == IF n.val = 0 THEN n ELSE Big(n.val \div Pow2[shift])

-----------------------------------------------------------------------------
\* A BigNum that holds exactly the integer v, as an int64 only if it is one.
Holds(n, v) == n.val = v /\ (~n.useBig => v \in MinInt64 .. MaxInt64)

\* The arithmetic of the int64 fast path at one pair of operands.
ExactAt(x, y) ==
    /\ Holds(Add(Small(x), Small(y)), x + y)
    /\ Holds(Sub(Small(x), Small(y)), x - y)
    /\ Holds(Mul(Small(x), Small(y)), x * y)
    /\ Holds(Negate(Small(x)), -x)
    /\ Holds(AbsValue(Small(x)), Magnitude(x))
=============================================================================
