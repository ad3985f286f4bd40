------------------------------ MODULE MCScript ------------------------------
(***************************************************************************)
(* Instances of the Arkade script engine for TLC.  A byte has 3 bits, an   *)
(* int64 two bytes (-32 .. 31), a script number one (-3 .. 3) and an       *)
(* element or a BigNum three, so that every boundary of the encodings, of  *)
(* the fast path and of the size limits is within reach of one opcode.     *)
(***************************************************************************)
EXTENDS ScriptMachine, TLC

\* A toy hash that depends on the order of the bytes.
Mix(e, seed) ==
    LET mix[n \in 0 .. Len(e)] == IF n = 0 THEN seed ELSE (mix[n - 1] * 3 + e[n] + n) % Radix
    IN mix[Len(e)]
Seed == [sha256 |-> 1, sha1 |-> 2, ripemd160 |-> 3, keccak256 |-> 4, sha3_256 |-> 5]

\* A toy curve: the points <<n, n>> under addition modulo p.
OnCurve(x, y) == x = y

MCCrypto(f, a) ==
    CASE f \in DOMAIN Seed -> {<<Mix(a[1], Seed[f])>>}
      [] f = "tagged" -> {<<Mix(a[1] \o a[2], 6)>>}
      [] f = "init" -> {<<6, 1>>}
      [] f = "absorb" -> IF Len(a[1]) = 2 /\ a[1][1] = 6 THEN {<<6, Mix(a[2], a[1][2])>>} ELSE {}
      [] f = "finish" -> IF Len(a[1]) = 2 /\ a[1][1] = 6 THEN {<<a[1][2]>>} ELSE {}
      [] f = "verifytx" -> IF Len(a[2]) = 1 /\ Len(a[3]) = 1 /\ (a[2][1] + a[3][1] + a[1]) % 4 = 0
                           THEN {TRUE} ELSE {}
      [] f = "verify" -> IF Len(a[1]) = 1 /\ Len(a[3]) = 1 /\ (a[1][1] + a[3][1] + Mix(a[2], 0)) % 4 = 0
                         THEN {TRUE} ELSE {}
      [] f = "sighash" -> {<<(a[1] + a[2]) % Radix>>}
      [] f = "ecadd" -> IF OnCurve(a[2][1], a[2][2]) /\ OnCurve(a[2][3], a[2][4])
                        THEN {LET z == (a[2][1] + a[2][3]) % 3 IN <<z, z>>} ELSE {}
      [] f = "ecmul" -> IF OnCurve(a[2][1], a[2][2])
                        THEN {LET z == (a[2][1] * a[2][3]) % 3 IN <<z, z>>} ELSE {}
      [] f = "pairing" -> IF OnCurve(a[1], a[2]) THEN {a[1] * a[3] = 0} ELSE {}
      [] f = "kP" -> {<<(a[1][1] * a[2][n]) % Radix>> : n \in {k \in {1} : Len(a[2]) = 1}}
      [] f = "P+kG" -> {<<(a[1][1] + a[2][1]) % Radix>>}

MCLock == [maxUint32 |-> 31, threshold |-> 8, disabled |-> 16, seconds |-> 4, mask |-> 4]
MCCurve == 0 :> [p |-> 3, n |-> 3, pairing |-> FALSE] @@ 1 :> [p |-> 3, n |-> 3, pairing |-> TRUE]

Asset(txid, index) == [txid |-> txid, index |-> index]
MCTx ==
    [version |-> 2, locktime |-> 7, weight |-> 40, txid |-> <<6>>,
     ins |-> << [txid |-> <<2>>, vout |-> 1, sequence |-> 5, value |-> 20,
                 script |-> [version |-> 1, program |-> <<3>>], arkTx |-> {1 :> <<7>>}],
                [txid |-> <<3>>, vout |-> 0, sequence |-> 31, value |-> 3,
                 script |-> [version |-> -1, program |-> <<3, 4>>], arkTx |-> {}] >>,
     outs |-> << [value |-> 21, script |-> [version |-> 1, program |-> <<5>>]],
                 [value |-> 5, script |-> [version |-> -1, program |-> <<5>>]] >>,
     packets |-> 1 :> <<2, 2>> @@ 3 :> <<1, 1, 1, 1>>,
     entries |-> {[vin |-> 0, scriptHash |-> <<4>>, witness |-> <<>>, witnessHash |-> <<1>>]},
     noAssets |-> FALSE,
     assets |-> <<
        [id |-> {Asset(<<5>>, 1)}, control |-> {}, metadata |-> <<>>,
         ins |-> <<[at |-> 0, amount |-> 3, intent |-> {<<5>>}], [at |-> 1, amount |-> 4, intent |-> {}]>>,
         outs |-> <<[at |-> 0, amount |-> 7]>>],
        [id |-> {}, control |-> {[byGroup |-> TRUE, group |-> 0, id |-> Asset(<<5>>, 1)]},
         metadata |-> << <<1>>, <<2>>, <<3>> >>,
         ins |-> <<>>, outs |-> <<[at |-> 0, amount |-> 60], [at |-> 1, amount |-> 50]>>],
        [id |-> {Asset(<<5>>, 0)}, control |-> {}, metadata |-> << <<4>> >>,
         ins |-> <<[at |-> 0, amount |-> 2, intent |-> {}]>>,
         outs |-> <<[at |-> 0, amount |-> 1], [at |-> 0, amount |-> 1]>>] >>,
     sigHashTypes |-> {0, 1, 2, 3}, sigHashSingle |-> {3}]

-----------------------------------------------------------------------------
(***************************************************************************)
(* One opcode on every stack: the boundary elements and some deep stacks.  *)
(***************************************************************************)
NoWitness == [kind |-> "none", stack |-> <<>>]
OnlyNoWitness == {NoWitness}

\* 0, 1, 3, -1, -3, a negative zero; 31, -31; -32, 255 and a padded zero.
Boundary == {<<>>, <<1>>, <<3>>, <<5>>, <<7>>, <<4>>, <<7, 3>>, <<7, 7>>, <<0, 4, 4>>,
             <<7, 7, 3>>, <<0, 0>>}
Few == {<<>>, <<1>>, <<3>>}
Deep == {<< <<1>>, <<2>>, <<3>>, <<>>, <<5>>, <<7>> >>,
         << <<1>>, <<1>>, <<2>>, <<2>>, <<>> >>,
         << <<1>>, <<1>>, <<2>>, <<>> >>, << <<1>>, <<2>>, <<2>>, <<>> >>,
         << <<1>>, <<1>>, <<>>, <<>>, <<1>>, <<2>>, <<1>>, <<1>> >>,
         << <<>>, <<1>>, <<2>>, <<3>> >>, << <<6, 2>>, <<1>> >>}
OpcodeStacks == Deep \cup {<<>>} \cup {<<a>> : a \in Boundary \cup {<<1, 1, 1, 1>>}}
                \cup {<<a, b>> : a, b \in Boundary}
                \cup {<<a, b, c>> : a, b, c \in Few}

AllOps == (Opcodes \ PushDataOps) \cup CondOps \cup {"OP_TOALTSTACK", "OP_FROMALTSTACK", "OP_VERIF"}
Tok(op, data) == [op |-> op, data |-> data]
OpcodeTokens == {Tok(op, <<>>) : op \in AllOps \cup PushDataOps}
                \cup {Tok(op, d) : op \in PushDataOps \ {"OP_0"},
                         d \in {<<1>>, <<5>>, <<6>>, <<6, 1>>, <<6, 1, 1>>, <<1, 1, 1, 1>>}}
MCProgram == << Tok("OP_1", <<>>), Tok("OP_DATA", <<6>>) >>
NoLimits == [op \in {} |-> 0]
OpcodeScripts == {"plain"}
NoSigScript == {FALSE}

-----------------------------------------------------------------------------
(***************************************************************************)
(* Control: conditionals, the alt stack, limits, and several inputs.       *)
(***************************************************************************)
ControlTokens == {Tok(op, <<>>) : op \in CondOps \cup
                     {"OP_1", "OP_0", "OP_TOALTSTACK", "OP_FROMALTSTACK", "OP_CHECKSIGVERIFY",
                      "OP_NOP", "OP_VERIF"}}
                 \cup {Tok("OP_DATA", <<6>>)}
ControlLimits == "OP_NOP" :> 1 @@ "OP_TOALTSTACK" :> 2
ControlWitnesses == {<<>>, << <<1>> >>}
ControlTxWitnesses == {NoWitness, [kind |-> "key", stack |-> <<>>], [kind |-> "invalid", stack |-> <<>>],
                       [kind |-> "leaf", stack |-> << <<1>> >>],
                       [kind |-> "emptyleaf", stack |-> << <<1>> >>],
                       [kind |-> "leaf", stack |-> << <<1, 1, 1, 1>> >>]}
BothSig == BOOLEAN
AllScripts == {"empty", "plain", "program"}
=============================================================================
