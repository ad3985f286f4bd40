------------------------- MODULE ScriptMachineProofs -------------------------
(***************************************************************************)
(* Proofs about the Arkade script engine.  The first part is about         *)
(* ScriptEngine: it holds for any set of opcodes and their effects, any    *)
(* limits, any number of inputs and scripts of any length.  The second is  *)
(* about the opcodes of ScriptOpcodes, for every width of a byte, an int64 *)
(* and a BigNum and for every stack: numbers and their encoding, the       *)
(* stack, then what each opcode may leave of a stack, and from that the    *)
(* properties of ScriptMachine in every reachable state.                   *)
(***************************************************************************)
EXTENDS ScriptMachine, BasicLemmas

-----------------------------------------------------------------------------
(***************************************************************************)
(* The condition stack.                                                    *)
(***************************************************************************)
\* The entries of both stacks say the same: True is a block that executes,
\* Skip a block inside one that does not.
Mirrors(c, v) ==
    /\ Len(c) = Len(v)
    /\ \A k \in 1 .. Len(c) :
          /\ c[k] = "True" <=> \A j \in 1 .. k : v[j]
          /\ c[k] = "Skip" <=> \E j \in 1 .. k - 1 : ~v[j]

Executes(c) == c = <<>> \/ c[Len(c)] = "True"

\* A block opened inside a branch that does not execute is skipped, whatever
\* its own condition.
LEMMA SkipPushed ==
  ASSUME NEW c \in Seq(OpCond), NEW v \in Seq(BOOLEAN), NEW b \in BOOLEAN,
         Mirrors(c, v), ~Executes(c)
  PROVE  Mirrors(Append(c, "Skip"), Append(v, b))
<1> DEFINE n == Len(c)
<1>1. n \in Nat \ {0} /\ Len(v) = n
  BY DEF Executes, Mirrors
<1>2. \E j \in 1 .. n : ~v[j]
  BY <1>1 DEF Executes, Mirrors
<1>3. /\ Len(Append(c, "Skip")) = n + 1 /\ Len(Append(v, b)) = n + 1
      /\ \A k \in 1 .. n : Append(c, "Skip")[k] = c[k] /\ Append(v, b)[k] = v[k]
      /\ Append(c, "Skip")[n + 1] = "Skip"
  BY <1>1
<1>4. ASSUME NEW k \in 1 .. n + 1
      PROVE  /\ Append(c, "Skip")[k] = "True" <=> \A j \in 1 .. k : Append(v, b)[j]
             /\ Append(c, "Skip")[k] = "Skip" <=> \E j \in 1 .. k - 1 : ~Append(v, b)[j]
  <2>1. CASE k = n + 1
    BY <1>1, <1>2, <1>3, <2>1
  <2>2. CASE k \in 1 .. n
    BY <1>1, <1>3, <2>2 DEF Mirrors
  <2> QED BY <1>1, <2>1, <2>2
<1> QED BY <1>1, <1>3, <1>4 DEF Mirrors

\* A block opened where the branch executes has the value of its condition.
LEMMA ValuePushed ==
  ASSUME NEW c \in Seq(OpCond), NEW v \in Seq(BOOLEAN), NEW b \in BOOLEAN,
         NEW x \in {"True", "False"}, x = "True" <=> b,
         Mirrors(c, v), Executes(c)
  PROVE  Mirrors(Append(c, x), Append(v, b))
<1> DEFINE n == Len(c)
<1>1. n \in Nat /\ Len(v) = n
  BY DEF Mirrors
<1>2. \A j \in 1 .. n : v[j]
  BY <1>1 DEF Executes, Mirrors
<1>3. /\ Len(Append(c, x)) = n + 1 /\ Len(Append(v, b)) = n + 1
      /\ \A k \in 1 .. n : Append(c, x)[k] = c[k] /\ Append(v, b)[k] = v[k]
      /\ Append(c, x)[n + 1] = x /\ Append(v, b)[n + 1] = b
  BY <1>1
<1>4. ASSUME NEW k \in 1 .. n + 1
      PROVE  /\ Append(c, x)[k] = "True" <=> \A j \in 1 .. k : Append(v, b)[j]
             /\ Append(c, x)[k] = "Skip" <=> \E j \in 1 .. k - 1 : ~Append(v, b)[j]
  <2>1. CASE k = n + 1
    <3>1. (\A j \in 1 .. k : Append(v, b)[j]) <=> b
      BY <1>1, <1>2, <1>3, <2>1
    <3> QED BY <1>1, <1>2, <1>3, <2>1, <3>1
  <2>2. CASE k \in 1 .. n
    BY <1>1, <1>3, <2>2 DEF Mirrors
  <2> QED BY <1>1, <2>1, <2>2
<1> QED BY <1>1, <1>3, <1>4 DEF Mirrors

\* Closing a block leaves the ones around it.
LEMMA BlockPopped ==
  ASSUME NEW c \in Seq(OpCond), NEW v \in Seq(BOOLEAN), Mirrors(c, v), c # <<>>
  PROVE  /\ Front(c) \in Seq(OpCond) /\ Front(v) \in Seq(BOOLEAN)
         /\ Mirrors(Front(c), Front(v))
<1> DEFINE n == Len(c) - 1
<1>1. Len(c) \in Nat \ {0} /\ Len(v) = Len(c) /\ n \in Nat
  BY DEF Mirrors
<1>2. /\ Front(c) \in Seq(OpCond) /\ Front(v) \in Seq(BOOLEAN)
      /\ Len(Front(c)) = n /\ Len(Front(v)) = n
      /\ \A k \in 1 .. n : Front(c)[k] = c[k] /\ Front(v)[k] = v[k]
  BY <1>1 DEF Front
<1>3. ASSUME NEW k \in 1 .. n
      PROVE  /\ Front(c)[k] = "True" <=> \A j \in 1 .. k : Front(v)[j]
             /\ Front(c)[k] = "Skip" <=> \E j \in 1 .. k - 1 : ~Front(v)[j]
  <2>1. k \in 1 .. Len(c) /\ Front(c)[k] = c[k]
    BY <1>1, <1>2
  <2>2. \A j \in 1 .. k : Front(v)[j] = v[j]
    BY <1>1, <1>2
  <2>3. \A j \in 1 .. k - 1 : j \in 1 .. k
    BY <1>1
  <2>4. /\ c[k] = "True" <=> \A j \in 1 .. k : v[j]
        /\ c[k] = "Skip" <=> \E j \in 1 .. k - 1 : ~v[j]
    BY <2>1 DEF Mirrors
  <2>5. (\A j \in 1 .. k : v[j]) <=> (\A j \in 1 .. k : Front(v)[j])
    BY <2>2, Zenon
  <2>6. (\E j \in 1 .. k - 1 : ~v[j]) <=> (\E j \in 1 .. k - 1 : ~Front(v)[j])
    BY <2>2, <2>3, Zenon
  <2> QED BY <2>1, <2>4, <2>5, <2>6, Zenon
<1> QED BY <1>1, <1>2, <1>3 DEF Mirrors

\* OP_ELSE turns the innermost block over, unless it is skipped.
LEMMA Turned ==
  ASSUME NEW c \in Seq(OpCond), NEW v \in Seq(BOOLEAN), Mirrors(c, v), c # <<>>
  PROVE  /\ Append(Front(c), InverseCond(Last(c))) \in Seq(OpCond)
         /\ Append(Front(v), ~Last(v)) \in Seq(BOOLEAN)
         /\ Mirrors(Append(Front(c), InverseCond(Last(c))), Append(Front(v), ~Last(v)))
<1> DEFINE n == Len(c)
<1>1. n \in Nat \ {0} /\ Len(v) = n /\ Last(c) = c[n] /\ Last(v) = v[n]
  BY DEF Mirrors, Last
<1>2. Last(c) \in OpCond /\ Last(v) \in BOOLEAN /\ (~Last(v)) \in BOOLEAN
  <2>1. n \in 1 .. Len(c) /\ n \in 1 .. Len(v)
    BY <1>1
  <2>2. c[n] \in OpCond
    BY <2>1
  <2>3. v[n] \in BOOLEAN
    BY <2>1, EltOfSeq, Zenon
  <2>4. (~v[n]) \in BOOLEAN
    BY Zenon
  <2> QED BY <1>1, <2>2, <2>3, <2>4, Zenon
<1>3. /\ Front(c) \in Seq(OpCond) /\ Front(v) \in Seq(BOOLEAN)
      /\ Mirrors(Front(c), Front(v))
  BY BlockPopped
<1>4. InverseCond(Last(c)) \in OpCond
  BY <1>2 DEF InverseCond, OpCond
<1>5. /\ Len(Front(c)) = n - 1 /\ Len(Front(v)) = n - 1
      /\ \A k \in 1 .. n - 1 : Front(c)[k] = c[k] /\ Front(v)[k] = v[k]
  BY <1>1 DEF Front
<1>6. CASE Last(c) = "Skip"
  <2>0. n \in 1 .. Len(c) /\ c[n] = "Skip"
    BY <1>1, <1>6
  <2>1. PICK j \in 1 .. n - 1 : ~v[j]
    BY <2>0 DEF Mirrors
  <2>2. n - 1 \in 1 .. n - 1 /\ n - 1 \in 1 .. Len(c) /\ j \in 1 .. n - 1
    BY <1>1, <2>1
  <2>3. ~Executes(Front(c))
    <3>1. c[n - 1] # "True"
      BY <2>1, <2>2 DEF Mirrors
    <3>2. Front(c)[n - 1] = c[n - 1]
      BY <1>5, <2>2
    <3>3. Front(c) # <<>>
      BY <1>5, <2>2
    <3> QED BY <1>5, <3>1, <3>2, <3>3 DEF Executes
  <2>4. InverseCond(Last(c)) = "Skip"
    BY <1>6 DEF InverseCond
  <2> QED BY <1>2, <1>3, <1>4, <2>3, <2>4, SkipPushed, AppendInSeq, Zenon
<1>7. CASE Last(c) # "Skip"
  <2>1. \A j \in 1 .. n - 1 : v[j]
    BY <1>1, <1>7 DEF Mirrors
  <2>2. Executes(Front(c))
    <3>1. CASE n = 1
      <4>1. Len(Front(c)) = 0
        BY <1>5, <3>1
      <4> QED BY <1>3, <4>1 DEF Executes
    <3>2. CASE n # 1
      <4>1. n - 1 \in 1 .. Len(c) /\ n - 1 \in 1 .. n - 1
        BY <1>1, <3>2
      <4>2. c[n - 1] = "True"
        BY <2>1, <4>1 DEF Mirrors
      <4> QED BY <1>5, <4>1, <4>2 DEF Executes
    <3> QED BY <3>1, <3>2
  <2>3. Last(c) = "True" <=> Last(v)
    BY <1>1, <2>1 DEF Mirrors
  <2>4. InverseCond(Last(c)) \in {"True", "False"} /\ (InverseCond(Last(c)) = "True" <=> ~Last(v))
    BY <1>2, <1>7, <2>3 DEF InverseCond, OpCond
  <2> QED BY <1>2, <1>3, <1>4, <2>2, <2>4, ValuePushed, AppendInSeq, Zenon
<1> QED BY <1>6, <1>7

-----------------------------------------------------------------------------
(***************************************************************************)
(* What an opcode leaves.                                                  *)
(***************************************************************************)
CondTypes == condStack \in Seq(OpCond) /\ vfExec \in Seq(BOOLEAN)

LEMMA ExecutingIsExecutes == isBranchExecuting <=> Executes(condStack)
BY DEF isBranchExecuting, Executes

\* The cases of an opcode's function.
LEMMA OpfuncCases ==
  ASSUME NEW tok, NEW m \in Opfunc(tok)
  PROVE  \/ tok.op = "OP_IF" /\ m \in If(FALSE)
         \/ tok.op = "OP_NOTIF" /\ m \in If(TRUE)
         \/ tok.op = "OP_ELSE" /\ m \in Else
         \/ tok.op = "OP_ENDIF" /\ m \in EndIf
         \/ tok.op \notin CondOps /\ m.c = condStack /\ m.v = vfExec
<1>1. \/ tok.op = "OP_IF" /\ m \in If(FALSE)
      \/ tok.op = "OP_NOTIF" /\ m \in If(TRUE)
      \/ tok.op = "OP_ELSE" /\ m \in Else
      \/ tok.op = "OP_ENDIF" /\ m \in EndIf
      \/ tok.op = "OP_TOALTSTACK" /\ m \in ToAlt
      \/ tok.op = "OP_FROMALTSTACK" /\ m \in FromAlt
      \/ /\ tok.op \notin CondOps
         /\ m \in {Machine(d, astack, condStack, vfExec) : d \in Effect(input, tok.op, tok.data, dstack)}
  BY Zenon DEF Opfunc, CondOps
<1>2. ASSUME m \in ToAlt
      PROVE  m.c = condStack /\ m.v = vfExec
  BY <1>2 DEF ToAlt, Machine
<1>3. ASSUME m \in FromAlt
      PROVE  m.c = condStack /\ m.v = vfExec
  BY <1>3 DEF FromAlt, Machine
<1>4. ASSUME m \in {Machine(d, astack, condStack, vfExec) : d \in Effect(input, tok.op, tok.data, dstack)}
      PROVE  m.c = condStack /\ m.v = vfExec
  BY <1>4 DEF Machine
<1>5. "OP_TOALTSTACK" \notin CondOps /\ "OP_FROMALTSTACK" \notin CondOps
  BY DEF CondOps
<1> QED BY <1>1, <1>2, <1>3, <1>4, <1>5, Zenon

\* OP_IF and OP_NOTIF open one block on both stacks.
LEMMA IfMirrors ==
  ASSUME CondTypes, Mirrors(condStack, vfExec), NEW negate \in BOOLEAN, NEW m \in If(negate)
  PROVE  m.c \in Seq(OpCond) /\ m.v \in Seq(BOOLEAN) /\ Mirrors(m.c, m.v)
<1>1. CASE ~isBranchExecuting
  <2>1. m.c = Append(condStack, "Skip") /\ m.v = Append(vfExec, FALSE)
    <3> DEFINE w == Append(vfExec, FALSE)
    <3>1. m = Machine(dstack, astack, Append(condStack, "Skip"), w)
      BY <1>1, Zenon DEF If
    <3> HIDE DEF w
    <3>2. m.c = Append(condStack, "Skip") /\ m.v = w
      BY <3>1 DEF Machine
    <3> QED BY <3>2, Zenon DEF w
  <2>2. "Skip" \in OpCond
    BY DEF OpCond
  <2> QED BY <1>1, <2>1, <2>2, ExecutingIsExecutes, SkipPushed, AppendInSeq, Zenon DEF CondTypes
<1>2. CASE isBranchExecuting
  <2>1. PICK b \in IfBool :
          m = Machine(Front(dstack), astack,
                      Append(condStack, IF b # negate THEN "True" ELSE "False"),
                      Append(vfExec, b # negate))
    BY <1>2 DEF If
  <2> DEFINE x == IF b # negate THEN "True" ELSE "False"
  <2>2. m.c = Append(condStack, x) /\ m.v = Append(vfExec, b # negate)
    BY <2>1 DEF Machine
  <2>3. x \in {"True", "False"} /\ (x = "True" <=> b # negate) /\ x \in OpCond
    BY DEF OpCond
  <2>4. (b # negate) \in BOOLEAN
    BY Zenon
  <2> HIDE DEF x
  <2> QED BY <1>2, <2>2, <2>3, <2>4, ExecutingIsExecutes, ValuePushed, AppendInSeq, Zenon
          DEF CondTypes
<1> QED BY <1>1, <1>2

\* Every opcode leaves two stacks that agree.
LEMMA ResultsMirror ==
  ASSUME CondTypes, Mirrors(condStack, vfExec), NEW tok, NEW m \in Results(tok)
  PROVE  m.c \in Seq(OpCond) /\ m.v \in Seq(BOOLEAN) /\ Mirrors(m.c, m.v)
<1>1. CASE Passed(tok)
  <2>1. m.c = condStack /\ m.v = vfExec
    BY <1>1 DEF Results, Machine
  <2> QED BY <2>1, Zenon DEF CondTypes
<1>2. CASE ~Passed(tok)
  <2>1. m \in Opfunc(tok)
    BY <1>2 DEF Results
  <2>2. CASE m \in If(FALSE) \/ m \in If(TRUE)
    BY <2>2, IfMirrors, Zenon
  <2>3. CASE m \in Else
    <3>1. /\ condStack # <<>>
          /\ m.c = Append(Front(condStack), InverseCond(Last(condStack)))
          /\ m.v = Append(Front(vfExec), ~Last(vfExec))
      BY <2>3 DEF Else, Machine
    <3> QED BY <3>1, Turned, Zenon DEF CondTypes
  <2>4. CASE m \in EndIf
    <3>1. condStack # <<>> /\ m.c = Front(condStack) /\ m.v = Front(vfExec)
      BY <2>4 DEF EndIf, Machine
    <3> QED BY <3>1, BlockPopped, Zenon DEF CondTypes
  <2>5. CASE m.c = condStack /\ m.v = vfExec
    BY <2>5, Zenon DEF CondTypes
  <2> QED BY <2>1, <2>2, <2>3, <2>4, <2>5, OpfuncCases, Zenon
<1> QED BY <1>1, <1>2

\* Where the branch does not execute, no opcode touches the stacks.
LEMMA SkippedIsInert ==
  ASSUME NEW tok, NEW m \in Results(tok), ~isBranchExecuting
  PROVE  m.d = dstack /\ m.a = astack
<1>1. CASE Passed(tok)
  BY <1>1 DEF Results, Machine
<1>2. CASE ~Passed(tok)
  <2>1. m \in Opfunc(tok) /\ tok.op \in CondOps
    BY <1>2 DEF Results, Passed
  <2>2. CASE m \in If(FALSE) \/ m \in If(TRUE)
    <3> DEFINE w == Append(vfExec, FALSE)
    <3>1. m = Machine(dstack, astack, Append(condStack, "Skip"), w)
      BY <2>2, Zenon DEF If
    <3> HIDE DEF w
    <3> QED BY <3>1 DEF Machine
  <2>3. CASE m \in Else
    BY <2>3 DEF Else, Machine
  <2>4. CASE m \in EndIf
    BY <2>4 DEF EndIf, Machine
  <2> QED BY <2>1, <2>2, <2>3, <2>4, OpfuncCases, Zenon
<1> QED BY <1>1, <1>2
-----------------------------------------------------------------------------
(***************************************************************************)
(* Counting.                                                               *)
(***************************************************************************)
LEMMA LimitsType == limits \in [Limited -> Nat] /\ \A op \in Limited : limits[op] <= MaxInt
BY EngineAssumption DEF Limited

LEMMA CountedIs ==
  ASSUME NEW counts \in [Limited -> Nat], NEW tok
  PROVE  /\ Counted(counts, tok) \in [Limited -> Nat]
         /\ \A op \in Limited :
               Counted(counts, tok)[op] = counts[op] + (IF ~Passed(tok) /\ op = tok.op THEN 1 ELSE 0)
BY DEF Counted, Charged

\* Pushes are not counted.
LEMMA PushUncounted ==
  ASSUME NEW counts \in [Limited -> Nat], NEW tok, tok.op \in PushOnlyOps
  PROVE  Counted(counts, tok) = counts
<1>1. \A op \in Limited : op # tok.op
  BY PushesUnlimited
<1> QED BY <1>1 DEF Counted, Charged

\* An opcode that has a result was within its input's cap.
LEMMA CountedWithin ==
  ASSUME opCounts \in [Limited -> Nat], NEW tok, NEW m \in Results(tok),
         NEW op \in Limited, opCounts[op] <= limits[op]
  PROVE  Counted(opCounts, tok)[op] <= limits[op]
<1>1. CASE Passed(tok) \/ op # tok.op
  BY <1>1, CountedIs
<1>2. CASE ~Passed(tok) /\ op = tok.op
  <2>1. ~OverLimit(tok.op)
    BY <1>2 DEF Results
  <2> QED BY <1>2, <2>1, CountedIs, LimitsType DEF OverLimit
<1> QED BY <1>1, <1>2

-----------------------------------------------------------------------------
(***************************************************************************)
(* Types, and the condition stack.                                         *)
(***************************************************************************)
StackInv == TypeOK /\ Mirrors(condStack, vfExec)

LEMMA EmptyMirrors == <<>> \in Seq(OpCond) /\ <<>> \in Seq(BOOLEAN) /\ Mirrors(<<>>, <<>>)
BY DEF Mirrors

LEMMA NoCountsType == NoCounts \in [Limited -> Nat]
BY DEF NoCounts

\* The causes that FailOpcode reports.
LEMMA FailCause ==
  ASSUME NEW tok, NEW last, FailOpcode(tok, last)
  PROVE  \/ failure' = ScriptError
         \/ tok.op \in Limited /\ failure' = [cause |-> "limit", op |-> tok.op]
         \/ tok.op \in Limited /\ OverBudget(tok.op) /\ failure' = [cause |-> "budget", op |-> tok.op]
<1>1. \/ failure' = ScriptError
      \/ OverLimit(tok.op) /\ failure' = [cause |-> "limit", op |-> tok.op]
      \/ OverBudget(tok.op) /\ failure' = [cause |-> "budget", op |-> tok.op]
  BY DEF FailOpcode, Fail
<1> QED BY <1>1 DEF OverLimit, OverBudget

LEMMA StackInvInit == Init => StackInv
<1> SUFFICES ASSUME Init PROVE StackInv
  OBVIOUS
<1>1. Mirrors(condStack, vfExec) /\ condStack \in Seq(OpCond) /\ vfExec \in Seq(BOOLEAN)
  BY EmptyMirrors, Zenon DEF Init
<1>2. opCounts \in [Limited -> Nat] /\ reqCounts \in [Limited -> Nat]
  BY NoCountsType DEF Init
<1>3. work \in [1 .. NumInputs -> [Limited -> Nat]]
  BY NoCountsType DEF Init
<1>4. mustSucceed \in BOOLEAN
  BY Zenon DEF Init
<1>5. /\ status \in {"ready", "running", "accepted", "failed"}
      /\ failure \in {NoFailure, ScriptError} \cup [cause : {"limit", "budget"}, op : Limited]
      /\ input \in 0 .. NumInputs
      /\ status = "running" => input > 0
      /\ scriptIdx \in 0 .. 3 /\ opcodeIdx \in Nat
  BY EngineAssumption DEF Init
<1> QED BY <1>1, <1>2, <1>3, <1>4, <1>5, Zenon DEF StackInv, TypeOK

\* Restart empties the condition stack.
LEMMA RestartMirrors ==
  ASSUME NEW d, Restart(d)
  PROVE  /\ condStack' \in Seq(OpCond) /\ vfExec' \in Seq(BOOLEAN) /\ Mirrors(condStack', vfExec')
         /\ opcodeIdx' \in Nat
<1>1. condStack' = <<>> /\ vfExec' = <<>> /\ opcodeIdx' = 0
  BY DEF Restart
<1>2. opcodeIdx' \in Nat
  BY <1>1
<1> QED BY <1>1, <1>2, EmptyMirrors, Zenon

LEMMA ReturnTypes ==
  ASSUME TypeOK, NEW d, NEW ok, Return(d, ok)
  PROVE  /\ Restart(d)
         /\ status' \in {"ready", "accepted", "failed"}
         /\ failure' \in {NoFailure, ScriptError} \cup [cause : {"limit", "budget"}, op : Limited]
BY DEF Return, TypeOK

LEMMA ChargeTypes ==
  ASSUME TypeOK, NEW tok, reqCounts' = Counted(reqCounts, tok),
         work' = [work EXCEPT ![input] = Counted(work[input], tok)]
  PROVE  reqCounts' \in [Limited -> Nat] /\ work' \in [1 .. NumInputs -> [Limited -> Nat]]
<1>1. reqCounts' \in [Limited -> Nat]
  BY CountedIs DEF TypeOK
<1>2. CASE input \in 1 .. NumInputs
  BY <1>1, <1>2, CountedIs DEF TypeOK
<1>3. CASE input \notin 1 .. NumInputs
  BY <1>1, <1>3 DEF TypeOK
<1> QED BY <1>2, <1>3

\* Every step keeps types and mirrors.
LEMMA StackInvNext == StackInv /\ [Next]_vars => StackInv'
<1> SUFFICES ASSUME StackInv, [Next]_vars PROVE StackInv'
  OBVIOUS
<1> USE DEF StackInv
<1>0. CondTypes
  BY Zenon DEF TypeOK, CondTypes
<1>1. ASSUME NEW scr, NEW sig, NEW w, NEW tw, StartInput(scr, sig, w, tw)
      PROVE  StackInv'
  <2>1. Mirrors(condStack', vfExec') /\ condStack' \in Seq(OpCond) /\ vfExec' \in Seq(BOOLEAN)
    BY <1>1, EmptyMirrors, Zenon DEF StartInput
  <2>2. opCounts' \in [Limited -> Nat] /\ reqCounts' \in [Limited -> Nat]
        /\ work' \in [1 .. NumInputs -> [Limited -> Nat]]
    BY <1>1, NoCountsType DEF StartInput, TypeOK
  <2>3. mustSucceed' \in BOOLEAN
    BY <1>1, Zenon DEF StartInput
  <2>4. /\ status' \in {"ready", "running", "accepted", "failed"}
        /\ failure' \in {NoFailure, ScriptError} \cup [cause : {"limit", "budget"}, op : Limited]
        /\ input' \in 0 .. NumInputs
        /\ status' = "running" => input' > 0
    BY <1>1, EngineAssumption DEF StartInput, TypeOK
  <2>5. scriptIdx' \in 0 .. 3 /\ opcodeIdx' \in Nat
    BY <1>1 DEF StartInput
  <2> QED BY <2>1, <2>2, <2>3, <2>4, <2>5, Zenon DEF TypeOK
<1>2. ASSUME NEW why, Fail(why),
             why \in {ScriptError} \cup [cause : {"limit", "budget"}, op : Limited]
      PROVE  StackInv'
  <2>1. status' = "failed" /\ failure' = why
        /\ UNCHANGED <<input, scriptIdx, opcodeIdx, condStack, vfExec, opCounts, reqCounts, work, mustSucceed>>
    BY <1>2, Zenon DEF Fail, context, stacks, counters
  <2>2. /\ status' \in {"ready", "running", "accepted", "failed"}
        /\ failure' \in {NoFailure, ScriptError} \cup [cause : {"limit", "budget"}, op : Limited]
        /\ status' = "running" => input' > 0
    BY <1>2, <2>1
  <2> QED BY <2>1, <2>2, Zenon DEF TypeOK
<1>3. ASSUME NEW tok, StepOpcode(tok)
      PROVE  StackInv'
  <2>1. PICK m \in Results(tok) : condStack' = m.c /\ vfExec' = m.v
    BY <1>3 DEF StepOpcode
  <2>2. Mirrors(condStack', vfExec') /\ condStack' \in Seq(OpCond) /\ vfExec' \in Seq(BOOLEAN)
    BY <1>0, <2>1, ResultsMirror, Zenon
  <2>3. opCounts' \in [Limited -> Nat]
    BY <1>3, CountedIs DEF StepOpcode, Charge, TypeOK
  <2>4. reqCounts' \in [Limited -> Nat] /\ work' \in [1 .. NumInputs -> [Limited -> Nat]]
    BY <1>3, ChargeTypes DEF StepOpcode, Charge
  <2>5. mustSucceed' \in BOOLEAN
    BY <1>3, Zenon DEF StepOpcode, TypeOK
  <2>6. opcodeIdx' \in Nat
    BY <1>3 DEF StepOpcode, TypeOK
  <2>7. UNCHANGED <<status, failure, input, scriptIdx>>
    BY <1>3, Zenon DEF StepOpcode, context
  <2> QED BY <2>2, <2>3, <2>4, <2>5, <2>6, <2>7, Zenon DEF TypeOK
<1>4. ASSUME NEW tok, EndSigScript(tok)
      PROVE  StackInv'
  <2>1. PICK d : Restart(d)
    BY <1>4 DEF EndSigScript
  <2>2. opCounts' \in [Limited -> Nat]
    BY <1>4, CountedIs DEF EndSigScript, Charge, TypeOK
  <2>3. reqCounts' \in [Limited -> Nat] /\ work' \in [1 .. NumInputs -> [Limited -> Nat]]
    BY <1>4, ChargeTypes DEF EndSigScript, Charge
  <2>4. mustSucceed' \in BOOLEAN
    BY <1>4, Zenon DEF EndSigScript, TypeOK
  <2>5. scriptIdx' \in 0 .. 3
    BY <1>4 DEF EndSigScript
  <2>6. UNCHANGED <<status, failure, input>>
    BY <1>4, Zenon DEF EndSigScript, context
  <2> QED BY <2>1, <2>2, <2>3, <2>4, <2>5, <2>6, RestartMirrors, Zenon DEF TypeOK
<1>5. ASSUME NEW tok, EndScripts(tok)
      PROVE  StackInv'
  <2>1. PICK d, ok : Return(d, ok)
    BY <1>5 DEF EndScripts
  <2>2. opCounts' \in [Limited -> Nat]
    BY <1>5, CountedIs DEF EndScripts, Charge, TypeOK
  <2>3. reqCounts' \in [Limited -> Nat] /\ work' \in [1 .. NumInputs -> [Limited -> Nat]]
    BY <1>5, ChargeTypes DEF EndScripts, Charge
  <2>4. mustSucceed' \in BOOLEAN
    BY <1>5, Zenon DEF EndScripts, TypeOK
  <2>5. scriptIdx' \in 0 .. 3 /\ input' = input
    BY <1>5 DEF EndScripts, context
  <2>6. /\ Restart(d)
        /\ status' \in {"ready", "accepted", "failed"}
        /\ failure' \in {NoFailure, ScriptError} \cup [cause : {"limit", "budget"}, op : Limited]
    BY <2>1, ReturnTypes
  <2>7. status' \in {"ready", "running", "accepted", "failed"} /\ status' # "running"
    BY <2>6
  <2> QED BY <2>2, <2>3, <2>4, <2>5, <2>6, <2>7, RestartMirrors, Zenon DEF TypeOK
<1>6. ASSUME NEW tok, EndProgram(tok)
      PROVE  StackInv'
  <2>1. opCounts' \in [Limited -> Nat]
    BY <1>6, NoCountsType DEF EndProgram
  <2>2. reqCounts' \in [Limited -> Nat] /\ work' \in [1 .. NumInputs -> [Limited -> Nat]]
    BY <1>6, ChargeTypes DEF EndProgram
  <2>3. mustSucceed' \in BOOLEAN
    BY <1>6, Zenon DEF EndProgram, TypeOK
  <2>4. scriptIdx' \in 0 .. 3 /\ input' = input
    BY <1>6 DEF EndProgram, context
  <2>5. CASE \E d, ok : Return(d, ok)
    <3>1. PICK d, ok : Return(d, ok)
      BY <2>5
    <3>2. /\ Restart(d)
          /\ status' \in {"ready", "accepted", "failed"}
          /\ failure' \in {NoFailure, ScriptError} \cup [cause : {"limit", "budget"}, op : Limited]
      BY <3>1, ReturnTypes
    <3>3. status' \in {"ready", "running", "accepted", "failed"} /\ status' # "running"
      BY <3>2
    <3> QED BY <2>1, <2>2, <2>3, <2>4, <3>2, <3>3, RestartMirrors, Zenon DEF TypeOK
  <2>6. CASE Restart(txWitness.stack) /\ UNCHANGED <<status, failure>>
    BY <2>1, <2>2, <2>3, <2>4, <2>6, RestartMirrors, Zenon DEF TypeOK
  <2>7. (\E d, ok : Return(d, ok)) \/ (Restart(txWitness.stack) /\ UNCHANGED <<status, failure>>)
    BY <1>6, Zenon DEF EndProgram
  <2> QED BY <2>5, <2>6, <2>7
<1>7. CASE UNCHANGED vars
  BY <1>7, Zenon DEF vars, stacks, counters, context, TypeOK
<1>8. ASSUME NEW scr, NEW sig, NEW tw, RefuseInput(scr, sig, tw)
      PROVE  StackInv'
  <2>1. Fail(ScriptError)
    BY <1>8 DEF RefuseInput
  <2> QED BY <1>2, <2>1
<1>9. ASSUME NEW tok, NEW last, FailOpcode(tok, last)
      PROVE  StackInv'
  <2>1. PICK why : Fail(why)
    BY <1>9, Zenon DEF FailOpcode
  <2>2. why = failure'
    BY <2>1 DEF Fail
  <2>3. failure' \in {ScriptError} \cup [cause : {"limit", "budget"}, op : Limited]
    BY <1>9, FailCause
  <2> QED BY <1>2, <2>1, <2>2, <2>3
<1> QED BY <1>1, <1>3, <1>4, <1>5, <1>6, <1>7, <1>8, <1>9, Zenon DEF Next

\* The types of the engine's fields and of the request's counters (TypeOK).
THEOREM TypeCorrect == Spec => []TypeOK
<1>1. StackInv => TypeOK
  BY DEF StackInv
<1> QED BY <1>1, StackInvInit, StackInvNext, PTL DEF Spec

\* Whatever the nesting of OP_IF, OP_NOTIF, OP_ELSE and OP_ENDIF, the top of
\* condStack decides as consensus does (CondStackIsConsensus).
THEOREM CondStackCorrect == Spec => []CondStackIsConsensus
<1>1. StackInv => CondStackIsConsensus
  BY Zenon DEF StackInv, Mirrors, CondStackIsConsensus
<1> QED BY <1>1, StackInvInit, StackInvNext, PTL DEF Spec
-----------------------------------------------------------------------------
(***************************************************************************)
(* What an input and a request may count.                                  *)
(***************************************************************************)
\* Inputs that have not started have done nothing.
Unstarted == \A i \in 1 .. NumInputs, op \in Limited : i > input => work[i][op] = 0

\* The running input's counts cover its work and stay within the caps.
RunningCounts ==
    status = "running" =>
        \A op \in Limited : work[input][op] <= opCounts[op] /\ opCounts[op] <= limits[op]

\* Before the context that may be given fresh counts, an input has executed
\* pushes only.
BeforeLeaf == scriptIdx = 0 \/ (scriptIdx = 1 /\ script = "program")
FreshWork == status = "running" /\ BeforeLeaf => \A op \in Limited : work[input][op] = 0
InProgram ==
    status = "running" /\ scriptIdx = 1 /\ script = "program" => opcodeIdx < Len(ProgramScript)

\* The request has counted no more than full caps of the inputs before.
RequestBelow ==
    \A op \in Limited :
        reqCounts[op] <= IF input = 0 THEN 0 ELSE (input - 1) * limits[op] + work[input][op]

CountInv ==
    /\ Unstarted /\ RunningCounts /\ FreshWork /\ InProgram
    /\ InputWorkCapped /\ RequestBelow /\ InputCannotExhaustRequest

\* A token of a script that runs before the leaf is a push.
LEMMA BeforeLeafPushes ==
  ASSUME TypeOK, InProgram, NEW tok, NEW last \in BOOLEAN, InScript(tok, last), BeforeLeaf
  PROVE  tok.op \in PushOnlyOps
<1>1. CASE scriptIdx = 0
  BY <1>1 DEF InScript
<1>2. CASE scriptIdx = 1 /\ script = "program"
  <2>1. tok = ProgramScript[opcodeIdx + 1] /\ status = "running"
    BY <1>2 DEF InScript
  <2>2. opcodeIdx + 1 \in 1 .. Len(ProgramScript)
    BY <1>2, <2>1, ProgramAssumption DEF InProgram, TypeOK
  <2> QED BY <2>1, <2>2, ProgramAssumption
<1> QED BY <1>1, <1>2 DEF BeforeLeaf

\* Charging an opcode that has a result keeps every bound on the counters.
LEMMA ChargeKeeps ==
  ASSUME TypeOK, CountInv, status = "running",
         NEW tok, NEW m \in Results(tok), NEW last \in BOOLEAN, InScript(tok, last),
         reqCounts' = Counted(reqCounts, tok),
         work' = [work EXCEPT ![input] = Counted(work[input], tok)],
         input' = input
  PROVE  /\ Unstarted' /\ InputWorkCapped' /\ RequestBelow'
         /\ \A op \in Limited : work'[input][op] <= Counted(opCounts, tok)[op]
         /\ BeforeLeaf => \A op \in Limited : work'[input][op] = 0
<1>1. input \in 1 .. NumInputs
  BY EngineAssumption DEF TypeOK
<1>2. work[input] \in [Limited -> Nat] /\ opCounts \in [Limited -> Nat]
      /\ reqCounts \in [Limited -> Nat]
  BY <1>1 DEF TypeOK
<1>3. /\ work'[input] = Counted(work[input], tok)
      /\ \A i \in 1 .. NumInputs : i # input => work'[i] = work[i]
  BY <1>1 DEF TypeOK
<1> DEFINE delta(op) == IF ~Passed(tok) /\ op = tok.op THEN 1 ELSE 0
<1>4. \A op \in Limited :
        /\ delta(op) \in {0, 1}
        /\ work'[input][op] = work[input][op] + delta(op)
        /\ reqCounts'[op] = reqCounts[op] + delta(op)
        /\ Counted(opCounts, tok)[op] = opCounts[op] + delta(op)
  <2>1. \A op \in Limited : Counted(work[input], tok)[op] = work[input][op] + delta(op)
    BY <1>2, CountedIs
  <2>2. \A op \in Limited : Counted(reqCounts, tok)[op] = reqCounts[op] + delta(op)
    BY <1>2, CountedIs
  <2>3. \A op \in Limited : Counted(opCounts, tok)[op] = opCounts[op] + delta(op)
    BY <1>2, CountedIs
  <2>4. \A op \in Limited : delta(op) \in {0, 1}
    OBVIOUS
  <2> HIDE DEF delta
  <2> QED BY <1>3, <2>1, <2>2, <2>3, <2>4
<1>5. \A op \in Limited : Counted(opCounts, tok)[op] <= limits[op]
  BY <1>2, CountedWithin DEF CountInv, RunningCounts
<1> HIDE DEF delta
<1>6. \A op \in Limited : /\ work[input][op] \in Nat /\ opCounts[op] \in Nat /\ reqCounts[op] \in Nat
                          /\ limits[op] \in Nat
  BY <1>2, LimitsType
<1>7. \A op \in Limited : work'[input][op] <= Counted(opCounts, tok)[op]
  BY <1>4, <1>6 DEF CountInv, RunningCounts
<1>8. \A op \in Limited : work'[input][op] <= limits[op]
  BY <1>4, <1>5, <1>6, <1>7
<1>9. InputWorkCapped'
  BY <1>3, <1>8 DEF CountInv, InputWorkCapped
<1>10. Unstarted'
  BY <1>1, <1>3 DEF CountInv, Unstarted
<1>11. RequestBelow'
  <2> SUFFICES ASSUME NEW op \in Limited
               PROVE  reqCounts'[op] <= (input - 1) * limits[op] + work'[input][op]
    BY <1>1 DEF RequestBelow
  <2>1. reqCounts[op] <= (input - 1) * limits[op] + work[input][op]
    BY <1>1 DEF CountInv, RequestBelow
  <2>2. (input - 1) * limits[op] \in Nat
    BY <1>1, <1>6
  <2> QED BY <1>4, <1>6, <2>1, <2>2
<1>12. ASSUME BeforeLeaf
       PROVE  \A op \in Limited : work'[input][op] = 0
  <2>1. tok.op \in PushOnlyOps
    BY <1>12, BeforeLeafPushes DEF CountInv
  <2>2. work'[input] = work[input]
    BY <1>2, <1>3, <2>1, PushUncounted
  <2> QED BY <1>12, <2>2 DEF CountInv, FreshWork
<1> QED BY <1>7, <1>9, <1>10, <1>11, <1>12

\* A count over the request's budget needs more inputs than the budget is for.
LEMMA OverBudgetNeedsInputs ==
  ASSUME TypeOK, CountInv, status = "running", NEW op \in Limited, OverBudget(op)
  PROVE  \/ input > requestInputBudget
         \/ input > 1 /\ limits[op] > MaxInt \div requestInputBudget
<1>1. input \in Nat \ {0} /\ input \in 1 .. NumInputs
  BY EngineAssumption DEF TypeOK
<1>2. /\ work[input][op] \in Nat /\ opCounts[op] \in Nat /\ reqCounts[op] \in Nat
      /\ limits[op] \in Nat /\ limits[op] <= MaxInt /\ MaxInt \in Nat
      /\ requestInputBudget \in Nat \ {0}
  BY <1>1, LimitsType, EngineAssumption DEF TypeOK
<1>3. opCounts[op] + 1 <= limits[op] /\ reqCounts[op] + 1 > RequestLimit(op)
  BY <1>2 DEF OverBudget, OverLimit
<1>4. work[input][op] <= opCounts[op]
      /\ reqCounts[op] <= (input - 1) * limits[op] + work[input][op]
  BY <1>1 DEF CountInv, RunningCounts, RequestBelow
<1>5. (input - 1) * limits[op] + limits[op] = input * limits[op]
      /\ (input - 1) * limits[op] \in Nat /\ input * limits[op] \in Nat
  BY <1>1, <1>2
<1>6. reqCounts[op] + 1 <= input * limits[op]
  BY <1>2, <1>3, <1>4, <1>5
<1>7. CASE limits[op] > MaxInt \div requestInputBudget
  <2>1. RequestLimit(op) = MaxInt
    BY <1>7 DEF RequestLimit
  <2>2. input # 1
    BY <1>2, <1>3, <1>6, <2>1
  <2> QED BY <1>1, <1>7, <2>2
<1>8. CASE ~(limits[op] > MaxInt \div requestInputBudget)
  <2>1. RequestLimit(op) = limits[op] * requestInputBudget
    BY <1>8 DEF RequestLimit
  <2>2. limits[op] * requestInputBudget \in Nat
    BY <1>2
  <2>3. limits[op] * requestInputBudget < input * limits[op]
    BY <1>2, <1>3, <1>5, <1>6, <2>1, <2>2
  <2>4. ASSUME ~(input > requestInputBudget)
        PROVE  FALSE
    <3>1. input * limits[op] <= limits[op] * requestInputBudget
      BY <1>1, <1>2, <2>4, TimesMonotone
    <3> QED BY <1>5, <2>2, <2>3, <3>1
  <2> QED BY <2>4
<1> QED BY <1>7, <1>8
LEMMA CountInvInit == Init => CountInv
<1> SUFFICES ASSUME Init PROVE CountInv
  OBVIOUS
<1>1. /\ status = "ready" /\ failure = NoFailure /\ input = 0
      /\ reqCounts = NoCounts /\ work = [i \in 1 .. NumInputs |-> NoCounts]
  BY DEF Init
<1>2. \A i \in 1 .. NumInputs, op \in Limited : work[i][op] = 0
  BY <1>1 DEF NoCounts
<1>3. \A op \in Limited : reqCounts[op] = 0
  BY <1>1 DEF NoCounts
<1>4. failure.cause # "budget"
  BY <1>1 DEF NoFailure
<1> QED BY <1>1, <1>2, <1>3, <1>4, LimitsType
        DEF CountInv, Unstarted, RunningCounts, FreshWork, InProgram, InputWorkCapped,
            RequestBelow, InputCannotExhaustRequest

\* A script that ends leaves a result.
LEMMA EndedIsResult ==
  ASSUME NEW tok, NEW m \in Ended(tok)
  PROVE  m \in Results(tok) /\ InScript(tok, TRUE) /\ status = "running"
BY DEF Ended, InScript

LEMMA ReturnCause ==
  ASSUME NEW d, NEW ok, Return(d, ok), InputCannotExhaustRequest, input' = input
  PROVE  status' # "running" /\ InputCannotExhaustRequest'
BY DEF Return, ScriptError, InputCannotExhaustRequest

\* Every step keeps the counters related.
LEMMA CountInvNext == StackInv /\ CountInv /\ [Next]_vars => CountInv'
<1> SUFFICES ASSUME TypeOK, CountInv, [Next]_vars PROVE CountInv'
  BY DEF StackInv
<1> TRUE \in BOOLEAN /\ FALSE \in BOOLEAN
  BY Zenon
<1>1. ASSUME NEW scr, NEW sig, NEW w, NEW tw, StartInput(scr, sig, w, tw)
      PROVE  CountInv'
  <2>1. /\ input < NumInputs /\ input' = input + 1 /\ status' = "running"
        /\ scriptIdx' \in {0, 1} /\ opcodeIdx' = 0 /\ script' = scr
        /\ opCounts' = NoCounts /\ UNCHANGED <<failure, reqCounts, work>>
    BY <1>1 DEF StartInput
  <2>2. input \in Nat /\ input' \in 1 .. NumInputs /\ input' - 1 = input /\ input' # 0
    BY <2>1, EngineAssumption DEF TypeOK
  <2>3. \A op \in Limited : work'[input'][op] = 0 /\ opCounts'[op] = 0
    BY <2>1, <2>2 DEF CountInv, Unstarted, NoCounts
  <2>4. \A op \in Limited : limits[op] \in Nat /\ reqCounts[op] \in Nat
    BY LimitsType DEF TypeOK
  <2>5. Unstarted' /\ InputWorkCapped'
    BY <2>1, <2>2 DEF CountInv, Unstarted, InputWorkCapped
  <2>6. RunningCounts' /\ FreshWork'
    BY <2>3, <2>4 DEF RunningCounts, FreshWork
  <2>7. InProgram'
    BY <2>1, ProgramAssumption DEF InProgram
  <2>8. RequestBelow'
    <3> SUFFICES ASSUME NEW op \in Limited
                 PROVE  reqCounts[op] <= input * limits[op]
      BY <2>1, <2>2, <2>3, <2>4 DEF RequestBelow
    <3>1. CASE input = 0
      BY <2>4, <3>1 DEF CountInv, RequestBelow
    <3>2. CASE input # 0
      <4>1. input \in 1 .. NumInputs
        BY <2>1, <2>2, <3>2, EngineAssumption
      <4>2. work[input][op] \in Nat /\ work[input][op] <= limits[op]
        BY <4>1 DEF CountInv, InputWorkCapped, TypeOK
      <4>3. reqCounts[op] <= (input - 1) * limits[op] + work[input][op]
        BY <3>2 DEF CountInv, RequestBelow
      <4>4. (input - 1) * limits[op] \in Nat /\ (input - 1) * limits[op] + limits[op] = input * limits[op]
        BY <2>4, <4>1
      <4> QED BY <2>4, <4>2, <4>3, <4>4
    <3> QED BY <3>1, <3>2
  <2>9. InputCannotExhaustRequest'
    BY <2>1, <2>2, EngineAssumption DEF CountInv, InputCannotExhaustRequest
  <2> QED BY <2>5, <2>6, <2>7, <2>8, <2>9 DEF CountInv
<1>2. ASSUME NEW why, Fail(why),
             why.cause = "budget" =>
                \/ input > requestInputBudget
                \/ input > 1 /\ limits[why.op] > MaxInt \div requestInputBudget
      PROVE  CountInv'
  <2>1. /\ status' = "failed" /\ failure' = why
        /\ UNCHANGED <<input, work, reqCounts>>
    BY <1>2 DEF Fail, context, counters
  <2> QED BY <1>2, <2>1 DEF CountInv, Unstarted, RunningCounts, FreshWork, InProgram, InputWorkCapped,
            RequestBelow, InputCannotExhaustRequest
<1>3. ASSUME NEW tok, StepOpcode(tok)
      PROVE  CountInv'
  <2>1. /\ InScript(tok, FALSE) /\ status = "running"
        /\ opcodeIdx' = opcodeIdx + 1 /\ UNCHANGED <<status, failure, input, script, scriptIdx>>
        /\ opCounts' = Counted(opCounts, tok) /\ reqCounts' = Counted(reqCounts, tok)
        /\ work' = [work EXCEPT ![input] = Counted(work[input], tok)]
    BY <1>3 DEF StepOpcode, Charge, InScript, context
  <2>2. PICK m \in Results(tok) : TRUE
    BY <1>3 DEF StepOpcode
  <2>3. /\ Unstarted' /\ InputWorkCapped' /\ RequestBelow'
        /\ \A op \in Limited : work'[input][op] <= opCounts'[op]
        /\ BeforeLeaf => \A op \in Limited : work'[input][op] = 0
    BY <2>1, <2>2, ChargeKeeps
  <2>4. \A op \in Limited : opCounts'[op] <= limits[op]
    BY <2>1, <2>2, CountedWithin DEF TypeOK, CountInv, RunningCounts
  <2>5. RunningCounts' /\ FreshWork'
    BY <2>1, <2>3, <2>4 DEF RunningCounts, FreshWork, BeforeLeaf
  <2>6. InProgram'
    <3> SUFFICES ASSUME scriptIdx = 1, script = "program"
                 PROVE  opcodeIdx + 1 < Len(ProgramScript)
      BY <2>1 DEF InProgram
    <3>1. opcodeIdx < Len(ProgramScript) /\ opcodeIdx + 1 # Len(ProgramScript)
      BY <2>1 DEF CountInv, InProgram, InScript
    <3> QED BY <3>1, ProgramAssumption DEF TypeOK
  <2>7. InputCannotExhaustRequest'
    BY <2>1 DEF CountInv, InputCannotExhaustRequest
  <2> QED BY <2>3, <2>5, <2>6, <2>7 DEF CountInv
<1>4. ASSUME NEW tok, EndSigScript(tok)
      PROVE  CountInv'
  <2>1. PICK m \in Ended(tok) : Restart(m.d)
    BY <1>4 DEF EndSigScript
  <2>2. m \in Results(tok) /\ InScript(tok, TRUE) /\ status = "running"
    BY <2>1, EndedIsResult
  <2>3. /\ scriptIdx = 0 /\ scriptIdx' = 1 /\ opcodeIdx' = 0 /\ UNCHANGED <<status, failure, input, script>>
        /\ opCounts' = Counted(opCounts, tok) /\ reqCounts' = Counted(reqCounts, tok)
        /\ work' = [work EXCEPT ![input] = Counted(work[input], tok)]
    BY <1>4, <2>1 DEF EndSigScript, Charge, Restart, context
  <2>4. /\ Unstarted' /\ InputWorkCapped' /\ RequestBelow'
        /\ \A op \in Limited : work'[input][op] <= opCounts'[op]
        /\ \A op \in Limited : work'[input][op] = 0
    <3>1. BeforeLeaf
      BY <1>4, Zenon DEF EndSigScript, BeforeLeaf
    <3> QED BY <2>2, <2>3, <3>1, ChargeKeeps
  <2>5. \A op \in Limited : opCounts'[op] <= limits[op]
    BY <2>2, <2>3, CountedWithin DEF TypeOK, CountInv, RunningCounts
  <2>6. RunningCounts' /\ FreshWork' /\ InProgram'
    BY <2>3, <2>4, <2>5, ProgramAssumption DEF RunningCounts, FreshWork, InProgram
  <2>7. InputCannotExhaustRequest'
    BY <2>3 DEF CountInv, InputCannotExhaustRequest
  <2> QED BY <2>4, <2>6, <2>7 DEF CountInv
<1>5. ASSUME NEW tok, EndScripts(tok)
      PROVE  CountInv'
  <2>1. PICK m \in Ended(tok) : Return(m.d, CheckErrorCondition(m.d))
    BY <1>5 DEF EndScripts
  <2>2. m \in Results(tok) /\ InScript(tok, TRUE) /\ status = "running"
    BY <2>1, EndedIsResult
  <2>3. /\ input' = input /\ reqCounts' = Counted(reqCounts, tok)
        /\ work' = [work EXCEPT ![input] = Counted(work[input], tok)]
    BY <1>5 DEF EndScripts, Charge, context
  <2>4. status' # "running" /\ InputCannotExhaustRequest'
    BY <2>1, <2>3, ReturnCause DEF CountInv
  <2>5. Unstarted' /\ InputWorkCapped' /\ RequestBelow'
    BY <2>2, <2>3, ChargeKeeps
  <2> QED BY <2>4, <2>5 DEF CountInv, RunningCounts, FreshWork, InProgram
<1>6. ASSUME NEW tok, EndProgram(tok)
      PROVE  CountInv'
  <2>1. PICK m \in Ended(tok) : TRUE
    BY <1>6 DEF EndProgram
  <2>2. m \in Results(tok) /\ InScript(tok, TRUE) /\ status = "running"
    BY <2>1, EndedIsResult
  <2>3. /\ BeforeLeaf /\ scriptIdx' = 2 /\ opCounts' = NoCounts
        /\ input' = input /\ reqCounts' = Counted(reqCounts, tok)
        /\ work' = [work EXCEPT ![input] = Counted(work[input], tok)]
    <3>1. /\ scriptIdx = 1 /\ script = "program" /\ scriptIdx' = 2 /\ opCounts' = NoCounts
          /\ reqCounts' = Counted(reqCounts, tok) /\ UNCHANGED context
          /\ work' = [work EXCEPT ![input] = Counted(work[input], tok)]
      BY <1>6, Zenon DEF EndProgram
    <3> QED BY <3>1 DEF context, BeforeLeaf
  <2>4. /\ Unstarted' /\ InputWorkCapped' /\ RequestBelow'
        /\ \A op \in Limited : work'[input][op] = 0
    BY <2>2, <2>3, ChargeKeeps
  <2>5. RunningCounts' /\ FreshWork' /\ InProgram'
    BY <2>3, <2>4, LimitsType DEF RunningCounts, FreshWork, InProgram, BeforeLeaf, NoCounts
  <2>6. (\E d, ok : Return(d, ok)) \/ UNCHANGED failure
    BY <1>6, Zenon DEF EndProgram
  <2>7. InputCannotExhaustRequest'
    BY <2>3, <2>6, ReturnCause DEF CountInv, InputCannotExhaustRequest
  <2> QED BY <2>4, <2>5, <2>7 DEF CountInv
<1>7. CASE UNCHANGED vars
  BY <1>7 DEF vars, stacks, counters, context, CountInv, Unstarted, RunningCounts, FreshWork, InProgram,
              BeforeLeaf, InputWorkCapped, RequestBelow, InputCannotExhaustRequest
<1>8. ASSUME NEW scr, NEW sig, NEW tw, RefuseInput(scr, sig, tw)
      PROVE  CountInv'
  <2>1. Fail(ScriptError) /\ ScriptError.cause # "budget"
    BY <1>8 DEF RefuseInput, ScriptError
  <2> QED BY <1>2, <2>1
<1>9. ASSUME NEW tok, NEW last, FailOpcode(tok, last)
      PROVE  CountInv'
  <2>1. PICK why : Fail(why)
    BY <1>9, Zenon DEF FailOpcode
  <2>2. why = failure'
    BY <2>1 DEF Fail
  <2>3. status = "running"
    BY <1>9 DEF FailOpcode, InScript
  <2>4. why.cause = "budget" => OverBudget(why.op) /\ why.op \in Limited
    BY <1>9, <2>2, FailCause DEF ScriptError
  <2>5. why.cause = "budget" =>
           \/ input > requestInputBudget
           \/ input > 1 /\ limits[why.op] > MaxInt \div requestInputBudget
    BY <2>3, <2>4, OverBudgetNeedsInputs
  <2> QED BY <1>2, <2>1, <2>5
<1> QED BY <1>1, <1>3, <1>4, <1>5, <1>6, <1>7, <1>8, <1>9, Zenon DEF Next

EngineInv == StackInv /\ CountInv

LEMMA EngineInductive == Spec => []EngineInv
<1>1. Init => EngineInv
  BY StackInvInit, CountInvInit DEF EngineInv
<1>2. EngineInv /\ [Next]_vars => EngineInv'
  BY StackInvNext, CountInvNext DEF EngineInv
<1> QED BY <1>1, <1>2, PTL DEF Spec

\* No input executes a limited opcode more often than its cap, though the
\* taproot context starts with fresh counts (InputWorkCapped).
THEOREM WorkPerInputCapped == Spec => []InputWorkCapped
<1>1. EngineInv => InputWorkCapped
  BY DEF EngineInv, CountInv
<1> QED BY <1>1, EngineInductive, PTL

\* The request's budget fails no request of requestInputBudget inputs, unless
\* the cap itself was saturated (InputCannotExhaustRequest).
THEOREM BudgetOutlastsInputs == Spec => []InputCannotExhaustRequest
<1>1. EngineInv => InputCannotExhaustRequest
  BY DEF EngineInv, CountInv
<1> QED BY <1>1, EngineInductive, PTL

-----------------------------------------------------------------------------
(***************************************************************************)
(* The work of a request.  The shared budget counts each execution once,   *)
(* whichever input makes it: its counters are the sums over the inputs.    *)
(***************************************************************************)
Works(op) == [i \in 1 .. NumInputs |-> work[i][op]]

BudgetInv ==
    \A op \in Limited :
        /\ IsFiniteSet(Sats(Works(op), 1 .. NumInputs))
        /\ reqCounts[op] = WorkOf(op)
        /\ reqCounts[op] <= RequestLimit(op)

\* A step that counts an opcode gets a result from it.
LEMMA CountingSteps ==
  ASSUME TypeOK, [Next]_vars
  PROVE  \/ UNCHANGED <<reqCounts, work>>
         \/ \E tok : /\ Results(tok) # {} /\ status = "running"
                     /\ reqCounts' = Counted(reqCounts, tok)
                     /\ work' = [work EXCEPT ![input] = Counted(work[input], tok)]
<1>1. ASSUME NEW tok, StepOpcode(tok)
      PROVE  /\ Results(tok) # {} /\ status = "running"
             /\ reqCounts' = Counted(reqCounts, tok)
             /\ work' = [work EXCEPT ![input] = Counted(work[input], tok)]
  BY <1>1 DEF StepOpcode, Charge, InScript
<1>2. ASSUME NEW tok, EndSigScript(tok) \/ EndScripts(tok) \/ EndProgram(tok)
      PROVE  /\ Results(tok) # {} /\ status = "running"
             /\ reqCounts' = Counted(reqCounts, tok)
             /\ work' = [work EXCEPT ![input] = Counted(work[input], tok)]
  <2>1. PICK m \in Ended(tok) : TRUE
    BY <1>2, Zenon DEF EndSigScript, EndScripts, EndProgram
  <2>2. Results(tok) # {} /\ status = "running"
    BY <2>1, EndedIsResult
  <2>3. /\ reqCounts' = Counted(reqCounts, tok)
        /\ work' = [work EXCEPT ![input] = Counted(work[input], tok)]
    BY <1>2, Zenon DEF EndSigScript, EndScripts, EndProgram, Charge
  <2> QED BY <2>2, <2>3
<1>3. ASSUME NEW scr, NEW sig, NEW w, NEW tw, StartInput(scr, sig, w, tw) \/ RefuseInput(scr, sig, tw)
      PROVE  UNCHANGED <<reqCounts, work>>
  BY <1>3 DEF StartInput, RefuseInput, Fail, counters
<1>4. ASSUME NEW tok, NEW last, FailOpcode(tok, last)
      PROVE  UNCHANGED <<reqCounts, work>>
  <2>1. PICK why : Fail(why)
    BY <1>4, Zenon DEF FailOpcode
  <2> QED BY <2>1 DEF Fail, counters
<1>5. CASE UNCHANGED vars
  BY <1>5 DEF vars, counters
<1> QED BY <1>1, <1>2, <1>3, <1>4, <1>5, Zenon DEF Next

LEMMA BudgetInvInit == Init => BudgetInv
<1> SUFFICES ASSUME Init, NEW op \in Limited
             PROVE  /\ IsFiniteSet(Sats(Works(op), 1 .. NumInputs))
                    /\ reqCounts[op] = WorkOf(op)
                    /\ reqCounts[op] <= RequestLimit(op)
  BY DEF BudgetInv
<1>1. \A i \in 1 .. NumInputs : Works(op)[i] = 0
  BY DEF Init, NoCounts, Works
<1>2. Sats(Works(op), 1 .. NumInputs) = {}
  BY <1>1 DEF Sats
<1>3. IsFiniteSet(Sats(Works(op), 1 .. NumInputs)) /\ WorkOf(op) = 0
  BY <1>2, FS_EmptySet DEF WorkOf, Works, SumOver
<1>4. reqCounts[op] = 0
  BY DEF Init, NoCounts
<1>5. 0 <= RequestLimit(op)
  BY EngineAssumption, LimitsType DEF RequestLimit
<1> QED BY <1>3, <1>4, <1>5

LEMMA BudgetInvNext == TypeOK /\ BudgetInv /\ [Next]_vars => BudgetInv'
<1> SUFFICES ASSUME TypeOK, BudgetInv, [Next]_vars PROVE BudgetInv'
  OBVIOUS
<1>1. CASE UNCHANGED <<reqCounts, work>>
  BY <1>1 DEF BudgetInv, WorkOf, Works
<1>2. ASSUME NEW tok, Results(tok) # {}, status = "running",
             reqCounts' = Counted(reqCounts, tok),
             work' = [work EXCEPT ![input] = Counted(work[input], tok)],
             NEW op \in Limited
      PROVE  /\ IsFiniteSet(Sats(Works(op), 1 .. NumInputs))'
             /\ reqCounts'[op] = WorkOf(op)'
             /\ reqCounts'[op] <= RequestLimit(op)
  <2>1. input \in 1 .. NumInputs /\ work[input] \in [Limited -> Nat] /\ reqCounts \in [Limited -> Nat]
    BY <1>2, EngineAssumption DEF TypeOK
  <2>2. /\ work'[input] = Counted(work[input], tok)
        /\ \A i \in 1 .. NumInputs : i # input => work'[i] = work[i]
    BY <1>2, <2>1 DEF TypeOK
  <2>3. /\ IsFiniteSet(Sats(Works(op), 1 .. NumInputs))
        /\ reqCounts[op] = SumOver(Works(op), 1 .. NumInputs)
        /\ reqCounts[op] <= RequestLimit(op)
    BY DEF BudgetInv, WorkOf, Works
  <2>4. WorkOf(op)' = SumOver(Works(op)', 1 .. NumInputs)
    BY DEF WorkOf, Works
  <2> DEFINE delta == IF ~Passed(tok) /\ op = tok.op THEN 1 ELSE 0
  <2>7. reqCounts'[op] = reqCounts[op] + delta /\ reqCounts[op] \in Nat
    <3>1. Counted(reqCounts, tok)[op] = reqCounts[op] + delta
      BY <2>1, CountedIs
    <3> QED BY <1>2, <2>1, <3>1
  <2>8. work'[input][op] = work[input][op] + delta /\ work[input][op] \in Nat
    <3>1. Counted(work[input], tok)[op] = work[input][op] + delta
      BY <2>1, CountedIs
    <3> QED BY <1>2, <2>1, <2>2, <3>1
  <2>5. CASE Passed(tok) \/ op # tok.op
    <3>1. reqCounts'[op] = reqCounts[op] /\ work'[input][op] = work[input][op]
      BY <2>5, <2>7, <2>8
    <3>2. Works(op)' = Works(op)
      BY <2>2, <3>1 DEF Works
    <3> QED BY <2>3, <2>4, <3>1, <3>2
  <2>6. CASE ~Passed(tok) /\ op = tok.op
    <3>1. reqCounts'[op] = reqCounts[op] + 1 /\ work'[input][op] = work[input][op] + 1
      BY <2>6, <2>7, <2>8
    <3>2. ~OverLimit(op) /\ ~OverBudget(op)
      BY <1>2, <2>6 DEF Results
    <3>3. reqCounts[op] + 1 <= RequestLimit(op)
      BY <2>1, <3>2, LimitsType, EngineAssumption DEF OverBudget, RequestLimit
    <3>4. /\ Works(op)[input] \in Nat /\ Works(op)'[input] = Works(op)[input] + 1
          /\ \A i \in 1 .. NumInputs : i # input => Works(op)'[i] = Works(op)[i]
      BY <2>1, <2>2, <3>1 DEF Works
    <3>5. /\ IsFiniteSet(Sats(Works(op)', 1 .. NumInputs))
          /\ SumOver(Works(op)', 1 .. NumInputs) = SumOver(Works(op), 1 .. NumInputs) + 1
      <4>1. PICK f, g, k, K : /\ f = Works(op) /\ g = Works(op)'
                              /\ k = input /\ K = 1 .. NumInputs
        OBVIOUS
      <4>2. k \in K
        BY <2>1, <4>1
      <4>3. f[k] \in Nat
        BY <3>4, <4>1
      <4>4. g[k] = f[k] + 1
        BY <3>4, <4>1
      <4>5. \A x \in K : x # k => g[x] = f[x]
        BY <3>4, <4>1
      <4>6. IsFiniteSet(Sats(f, K))
        BY <2>3, <4>1
      <4>7. IsFiniteSet(Sats(g, K)) /\ SumOver(g, K) = SumOver(f, K) + 1
        BY <4>2, <4>3, <4>4, <4>5, <4>6, SumIncrement, ZenonT(30)
      <4> QED BY <4>1, <4>7, Zenon
    <3> QED BY <2>3, <2>4, <3>1, <3>3, <3>5
  <2> QED BY <2>5, <2>6
<1>3. ASSUME NEW tok, Results(tok) # {}, status = "running",
             reqCounts' = Counted(reqCounts, tok),
             work' = [work EXCEPT ![input] = Counted(work[input], tok)]
      PROVE  BudgetInv'
  BY <1>2, <1>3 DEF BudgetInv
<1> QED BY <1>1, <1>3, CountingSteps

\* Saturation never raises the request's cap over that of its inputs.
LEMMA RequestLimitBelow ==
  ASSUME NEW op \in Limited
  PROVE  RequestLimit(op) \in Nat /\ RequestLimit(op) <= requestInputBudget * limits[op]
<1>1. limits[op] \in Nat /\ requestInputBudget \in Nat \ {0} /\ MaxInt \in Nat
  BY LimitsType, EngineAssumption
<1>2. CASE limits[op] > MaxInt \div requestInputBudget
  <2> DEFINE q == MaxInt \div requestInputBudget
  <2>1. q \in Nat /\ MaxInt < requestInputBudget * (q + 1)
    BY <1>1
  <2>2. (q + 1) * requestInputBudget <= requestInputBudget * limits[op]
    <3>1. q + 1 \in Nat /\ q + 1 <= limits[op]
      BY <1>1, <1>2, <2>1
    <3> HIDE DEF q
    <3> QED BY <1>1, <3>1, TimesMonotone
  <2>3. RequestLimit(op) = MaxInt
    BY <1>2 DEF RequestLimit
  <2> HIDE DEF q
  <2>4. (q + 1) * requestInputBudget = requestInputBudget * (q + 1) /\ requestInputBudget * (q + 1) \in Nat
        /\ requestInputBudget * limits[op] \in Nat
    BY <1>1, <2>1
  <2> QED BY <1>1, <2>1, <2>2, <2>3, <2>4
<1>3. CASE ~(limits[op] > MaxInt \div requestInputBudget)
  BY <1>1, <1>3 DEF RequestLimit
<1> QED BY <1>2, <1>3

\* What a request executes of an opcode does not grow with its inputs: the
\* ComputeBudget they share counts all of it (RequestWorkCapped).
THEOREM RequestWorkBounded == Spec => []RequestWorkCapped
<1>1. TypeOK /\ BudgetInv => RequestWorkCapped
  <2> SUFFICES ASSUME TypeOK, BudgetInv, NEW op \in Limited
               PROVE  WorkOf(op) <= requestInputBudget * limits[op]
    BY DEF RequestWorkCapped
  <2>1. reqCounts[op] \in Nat /\ limits[op] \in Nat /\ requestInputBudget \in Nat
    BY LimitsType, EngineAssumption DEF TypeOK
  <2>2. requestInputBudget * limits[op] \in Nat
    BY <2>1
  <2>3. WorkOf(op) = reqCounts[op] /\ reqCounts[op] <= RequestLimit(op)
    BY DEF BudgetInv
  <2> QED BY <2>1, <2>2, <2>3, RequestLimitBelow
<1> QED BY <1>1, BudgetInvInit, BudgetInvNext, TypeCorrect, PTL DEF Spec

\* A branch that does not execute leaves both stacks alone, whatever the
\* opcodes in it do (SkippedBranchIsInert).
THEOREM SkippedBranches == Spec => SkippedBranchIsInert
<1> DEFINE Inert == status = "running" /\ status' = "running" /\ input' = input
                       /\ scriptIdx' = scriptIdx /\ ~isBranchExecuting
                    => UNCHANGED <<dstack, astack>>
<1>1. ASSUME TypeOK, [Next]_vars
      PROVE  [Inert]_vars
  <2> SUFFICES ASSUME status = "running", status' = "running", input' = input,
                      scriptIdx' = scriptIdx, ~isBranchExecuting, Next
               PROVE  UNCHANGED <<dstack, astack>>
    BY <1>1
  <2>1. ASSUME NEW tok, StepOpcode(tok)
        PROVE  UNCHANGED <<dstack, astack>>
    <3>1. PICK m \in Results(tok) : dstack' = m.d /\ astack' = m.a
      BY <2>1 DEF StepOpcode
    <3> QED BY <3>1, SkippedIsInert
  <2>2. \A scr, sig, w, tw : ~StartInput(scr, sig, w, tw) /\ ~RefuseInput(scr, sig, tw)
    BY DEF StartInput, RefuseInput
  <2>3. \A tok, last : ~FailOpcode(tok, last)
    BY DEF FailOpcode, Fail
  <2>4. \A tok : ~EndSigScript(tok) /\ ~EndProgram(tok)
    <3>1. ASSUME NEW tok
          PROVE  /\ EndSigScript(tok) => scriptIdx = 0 /\ scriptIdx' = 1
                 /\ EndProgram(tok) => scriptIdx = 1 /\ scriptIdx' = 2
      BY Zenon DEF EndSigScript, EndProgram
    <3> QED BY <3>1
  <2>5. \A tok : ~EndScripts(tok)
    BY <1>1 DEF EndScripts, TypeOK
  <2> QED BY <2>1, <2>2, <2>3, <2>4, <2>5, Zenon DEF Next
<1> QED BY <1>1, TypeCorrect, PTL DEF Spec, SkippedBranchIsInert

-----------------------------------------------------------------------------
(***************************************************************************)
(* Powers of two and the weights of bytes.                                 *)
(***************************************************************************)
\* The recursive definition of Pow2 means what it says.
LEMMA Pow2Is == Pow2 = [n \in Nat |-> IF n = 0 THEN 1 ELSE 2 * Pow2[n - 1]]
<1> DEFINE pre(n) == CHOOSE f : Powers(f, n)
           g == [n \in Nat |-> pre(n)[n]]
<1>1. ASSUME NEW n \in Nat PROVE Powers(pre(n), n)
  BY PowersExist
<1> HIDE DEF pre
<1>2. ASSUME NEW n \in Nat PROVE g[n] = IF n = 0 THEN 1 ELSE 2 * g[n - 1]
  <2>1. CASE n = 0
    BY <1>1, <2>1 DEF Powers
  <2>2. CASE n # 0
    <3>1. n - 1 \in Nat /\ Powers(pre(n), n) /\ Powers(pre(n - 1), n - 1)
      BY <1>1, <2>2
    <3>2. pre(n - 1)[n - 1] = pre(n)[n - 1]
      <4>1. \A k \in 0 .. n - 1 : k <= n => pre(n - 1)[k] = pre(n)[k]
        BY <3>1, PowersUnique
      <4> QED BY <3>1, <4>1
    <3>3. pre(n)[n] = 2 * pre(n)[n - 1]
      BY <2>2, <3>1 DEF Powers
    <3> QED BY <2>2, <3>1, <3>2, <3>3
  <2> QED BY <2>1, <2>2
<1>3. g = [n \in Nat |-> IF n = 0 THEN 1 ELSE 2 * g[n - 1]]
  BY <1>2
<1> HIDE DEF g
<1> QED BY <1>3, Zenon DEF Pow2

LEMMA Pow2Step == Pow2[0] = 1 /\ \A n \in Nat : Pow2[n + 1] = 2 * Pow2[n]
BY Pow2Is

LEMMA Pow2Type == \A n \in Nat : Pow2[n] \in Nat /\ Pow2[n] > n
<1> DEFINE S == {n \in Nat : Pow2[n] \in Nat /\ Pow2[n] > n}
<1>1. 0 \in S
  BY Pow2Step
<1>2. ASSUME NEW n \in Nat, n \in S PROVE n + 1 \in S
  BY <1>2, Pow2Step
<1> HIDE DEF S
<1>3. Nat \subseteq S
  BY <1>1, <1>2, SetInduction
<1> QED BY <1>3 DEF S

\* The power of a sum is a product.
LEMMA Pow2Add ==
  ASSUME NEW a \in Nat, NEW b \in Nat
  PROVE  Pow2[a + b] = Pow2[a] * Pow2[b]
<1> DEFINE S == {n \in Nat : Pow2[a + n] = Pow2[a] * Pow2[n]}
<1>1. 0 \in S
  BY Pow2Step, Pow2Type
<1>2. ASSUME NEW n \in Nat, n \in S PROVE n + 1 \in S
  <2>1. Pow2[a + (n + 1)] = 2 * Pow2[a + n]
    <3>1. a + (n + 1) = (a + n) + 1 /\ a + n \in Nat
      OBVIOUS
    <3> QED BY <3>1, Pow2Step
  <2>2. Pow2[a] \in Nat /\ Pow2[n] \in Nat /\ Pow2[n + 1] = 2 * Pow2[n]
    BY Pow2Step, Pow2Type
  <2> QED BY <1>2, <2>1, <2>2
<1> HIDE DEF S
<1>3. Nat \subseteq S
  BY <1>1, <1>2, SetInduction
<1> QED BY <1>3 DEF S

LEMMA Pow2Monotone ==
  ASSUME NEW a \in Nat, NEW b \in Nat, a <= b
  PROVE  Pow2[a] <= Pow2[b]
<1>1. b - a \in Nat /\ b = a + (b - a)
  OBVIOUS
<1>2. Pow2[b] = Pow2[a] * Pow2[b - a]
  BY <1>1, Pow2Add
<1>3. Pow2[a] \in Nat /\ Pow2[b - a] \in Nat /\ Pow2[b - a] > 0
  BY <1>1, Pow2Type
<1> QED BY <1>2, <1>3

LEMMA Widths ==
  /\ SignBit \in Nat /\ SignBit > 1
  /\ Radix \in Nat /\ Radix = 2 * SignBit
<1>1. ByteBits - 1 \in Nat /\ ByteBits - 1 > 0 /\ ByteBits = (ByteBits - 1) + 1
  BY WidthAssumption
<1> QED BY <1>1, Pow2Step, Pow2Type DEF SignBit, Radix

LEMMA WeightType ==
  ASSUME NEW i \in Nat
  PROVE  Weight(i) \in Nat \ {0} /\ Weight(i) > i
<1>1. ByteBits * i \in Nat /\ ByteBits * i >= i
  BY WidthAssumption
<1> QED BY <1>1, Pow2Type DEF Weight

LEMMA WeightStep ==
  ASSUME NEW i \in Nat
  PROVE  Weight(i + 1) = Radix * Weight(i) /\ Weight(0) = 1
<1>1. ByteBits * i \in Nat /\ ByteBits \in Nat /\ ByteBits * (i + 1) = ByteBits + ByteBits * i /\ ByteBits * 0 = 0
  BY WidthAssumption
<1> QED BY <1>1, Pow2Add, Pow2Step DEF Weight, Radix

LEMMA WeightMonotone ==
  ASSUME NEW a \in Nat, NEW b \in Nat, a <= b
  PROVE  Weight(a) <= Weight(b)
<1>1. ByteBits * a \in Nat /\ ByteBits * b \in Nat /\ ByteBits * a <= ByteBits * b
  BY WidthAssumption
<1> QED BY <1>1, Pow2Monotone DEF Weight

LEMMA HalfIs ==
  /\ Half \in Nat /\ Half > 1
  /\ Half = SignBit * Weight(int64ByteCap - 1)
<1>1. /\ ByteBits - 1 \in Nat /\ int64ByteCap - 1 \in Nat /\ ByteBits * (int64ByteCap - 1) \in Nat
      /\ ByteBits * int64ByteCap - 1 = (ByteBits - 1) + ByteBits * (int64ByteCap - 1)
  BY WidthAssumption
<1>2. Half = SignBit * Weight(int64ByteCap - 1)
  BY <1>1, Pow2Add DEF Half, SignBit, Weight
<1>3. Weight(int64ByteCap - 1) \in Nat \ {0}
  BY <1>1, WeightType
<1> QED BY <1>2, <1>3, Widths

-----------------------------------------------------------------------------
(***************************************************************************)
(* Bytes and the numbers they stand for.                                   *)
(***************************************************************************)

LEMMA LowBytesIs ==
  ASSUME NEW e \in Element
  PROVE  /\ LowBytes(e)[0] = 0
         /\ \A k \in 1 .. Len(e) : LowBytes(e)[k] = LowBytes(e)[k - 1] + e[k] * Weight(k - 1)
         /\ \A k \in 0 .. Len(e) : LowBytes(e)[k] \in Nat
<1> DEFINE n == Len(e)
           G == [p \in (1 .. n) \X Nat |-> p[2] + e[p[1]] * Weight(p[1] - 1)]
<1>0. n \in Nat /\ 0 \in Nat
  BY DEF Element
<1>1. ASSUME NEW k \in 1 .. n, NEW x \in Nat
      PROVE  G[<<k, x>>] = x + e[k] * Weight(k - 1) /\ G[<<k, x>>] \in Nat
  <2>1. e[k] \in Nat
    BY Widths DEF Element, Byte
  <2>2. Weight(k - 1) \in Nat
    BY WeightType
  <2>3. e[k] * Weight(k - 1) \in Nat
    BY <2>1, <2>2
  <2>4. G[<<k, x>>] = x + e[k] * Weight(k - 1)
    OBVIOUS
  <2> QED BY <2>3, <2>4
<1> HIDE DEF G
<1>2. PICK f : Iterates(f, G, n, Nat, 0)
  <2>1. Steps(G, n, Nat)
    BY <1>1 DEF Steps
  <2> HIDE DEF n
  <2> QED BY <1>0, <2>1, Iteration
<1> DEFINE R(h) == h = [i \in 0 .. n |-> IF i = 0 THEN 0 ELSE h[i - 1] + e[i] * Weight(i - 1)]
<1>3. R(f)
  <2> USE DEF Iterates
  <2>1. ASSUME NEW i \in 0 .. n PROVE f[i] = IF i = 0 THEN 0 ELSE f[i - 1] + e[i] * Weight(i - 1)
    <3>1. CASE i = 0
      BY <1>2, <3>1
    <3>2. CASE i # 0
      <4>1. i \in 1 .. n /\ f[i - 1] \in Nat
        BY <1>0, <1>2, <3>2
      <4> QED BY <1>1, <1>2, <3>2, <4>1
    <3> QED BY <3>1, <3>2
  <2> QED BY <1>2, <2>1
<1> DEFINE g == CHOOSE h : R(h)
<1>4. R(g)
  BY <1>3
<1>5. LowBytes(e) = g
  BY DEF LowBytes
<1> HIDE DEF g
<1>6. g[0] = 0 /\ \A k \in 1 .. n : g[k] = g[k - 1] + e[k] * Weight(k - 1)
  BY <1>0, <1>4
<1>7. \A k \in 0 .. n : g[k] \in Nat
  <2>1. ASSUME NEW k \in 1 .. n, g[k - 1] \in Nat PROVE g[k] \in Nat
    BY <1>1, <1>6, <2>1
  <2> HIDE DEF n
  <2> QED BY <1>0, <1>6, <2>1, IterationType
<1> QED BY <1>5, <1>6, <1>7

LEMMA ByteOf ==
  ASSUME NEW e \in Element, NEW i \in 1 .. Len(e)
  PROVE  e[i] \in 0 .. Radix - 1 /\ e[i] \in Nat /\ i \in Nat /\ i - 1 \in Nat
BY Widths DEF Element, Byte

LEMMA ElementLen ==
  ASSUME NEW e \in Element
  PROVE  Len(e) \in Nat /\ (e = <<>> <=> Len(e) = 0)
BY DEF Element

\* The lowest bytes stand for a number below the weight of the next.
LEMMA LowBytesBound ==
  ASSUME NEW e \in Element
  PROVE  \A k \in 0 .. Len(e) : LowBytes(e)[k] \in 0 .. Weight(k) - 1
<1> DEFINE L == LowBytes(e)
           S == {k \in Nat : k <= Len(e) => L[k] < Weight(k)}
<1>0. Len(e) \in Nat
  BY ElementLen
<1>1. 0 \in S
  BY LowBytesIs, WeightStep
<1>2. ASSUME NEW k \in Nat, k \in S PROVE k + 1 \in S
  <2>1. CASE k + 1 <= Len(e)
    <3>1. k + 1 \in 1 .. Len(e) /\ k \in 0 .. Len(e)
      BY <1>0, <2>1
    <3>2. L[k + 1] = L[k] + e[k + 1] * Weight(k) /\ L[k] \in Nat /\ L[k] < Weight(k)
      BY <1>2, <3>1, LowBytesIs
    <3>3. Weight(k + 1) = Radix * Weight(k) /\ Weight(k) \in Nat
      BY WeightStep, WeightType
    <3>4. e[k + 1] \in Nat /\ e[k + 1] + 1 <= Radix /\ Radix \in Nat
      BY <3>1, ByteOf, Widths
    <3>5. (e[k + 1] + 1) * Weight(k) <= Radix * Weight(k)
      BY <3>3, <3>4
    <3> QED BY <3>2, <3>3, <3>4, <3>5
  <2> QED BY <2>1
<1> HIDE DEF S
<1>3. Nat \subseteq S
  BY <1>1, <1>2, SetInduction
<1>4. ASSUME NEW k \in 0 .. Len(e) PROVE L[k] \in 0 .. Weight(k) - 1
  <2>1. L[k] \in Nat /\ L[k] < Weight(k) /\ Weight(k) \in Nat
    BY <1>0, <1>3, LowBytesIs, WeightType DEF S
  <2> QED BY <2>1
<1> QED BY <1>4

\* Digit i of a number.
Digit(m, i) == (m \div Weight(i - 1)) % Radix

LEMMA DigitType ==
  ASSUME NEW m \in Nat, NEW i \in Nat \ {0}
  PROVE  Digit(m, i) \in Byte /\ Digit(m, i) \in Nat
<1>1. Weight(i - 1) \in Nat \ {0} /\ m \div Weight(i - 1) \in Int
  <2>1. Weight(i - 1) \in Nat \ {0}
    BY WeightType
  <2> QED BY <2>1, Division
<1> QED BY <1>1, Widths DEF Digit, Byte

\* A byte is the digit of its place.
LEMMA DigitOfBytes ==
  ASSUME NEW e \in Element, NEW i \in 1 .. Len(e)
  PROVE  \A n \in i .. Len(e) : Digit(LowBytes(e)[n], i) = e[i]
<1> DEFINE L == LowBytes(e)
           w == Weight(i - 1)
           S == {k \in Nat : i + k <= Len(e) => \E K \in Nat : L[i + k] = L[i - 1] + e[i] * w + K * Radix * w}
<1>0. /\ Len(e) \in Nat /\ i \in Nat /\ i - 1 \in Nat /\ w \in Nat \ {0} /\ Radix \in Nat /\ Radix > 1
      /\ e[i] \in 0 .. Radix - 1 /\ L[i - 1] \in 0 .. w - 1
  <2>1. Len(e) \in Nat /\ i - 1 \in Nat /\ i \in Nat /\ e[i] \in 0 .. Radix - 1
    BY ElementLen, ByteOf
  <2>2. i - 1 \in 0 .. Len(e)
    BY <2>1
  <2>3. L[i - 1] \in 0 .. w - 1
    BY <2>2, LowBytesBound
  <2> QED BY <2>1, <2>3, WeightType, Widths
<1>1. 0 \in S
  <2>1. L[i] = L[i - 1] + e[i] * w + 0 * Radix * w
    <3>1. L[i] = L[i - 1] + e[i] * w
      BY LowBytesIs
    <3> QED BY <1>0, <3>1
  <2>2. i + 0 = i
    BY <1>0
  <2> QED BY <2>1, <2>2
<1>2. ASSUME NEW k \in Nat, k \in S PROVE k + 1 \in S
  <2>1. CASE i + (k + 1) <= Len(e)
    <3>1. i + k \in Nat /\ i + k <= Len(e) /\ i + (k + 1) \in 1 .. Len(e) /\ (i + (k + 1)) - 1 = i + k
      BY <1>0, <2>1
    <3>2. PICK K \in Nat : L[i + k] = L[i - 1] + e[i] * w + K * Radix * w
      BY <1>2, <3>1
    <3>3. L[i + (k + 1)] = L[i + k] + e[i + (k + 1)] * Weight(i + k)
      BY <3>1, LowBytesIs
    <3>4. Weight(i + k) = Weight(k) * Radix * w /\ Weight(k) \in Nat
      <4>1. /\ ByteBits \in Nat /\ ByteBits * k \in Nat /\ ByteBits * (i - 1) \in Nat
            /\ ByteBits * (i + k) = ByteBits * k + (ByteBits + ByteBits * (i - 1))
        BY <1>0, WidthAssumption
      <4>2. Pow2[ByteBits * (i + k)] = Pow2[ByteBits * k] * Pow2[ByteBits + ByteBits * (i - 1)]
        BY <4>1, Pow2Add
      <4>3. Pow2[ByteBits + ByteBits * (i - 1)] = Pow2[ByteBits] * Pow2[ByteBits * (i - 1)]
        BY <4>1, Pow2Add
      <4>4. Weight(k) \in Nat
        BY WeightType
      <4> QED BY <1>0, <4>2, <4>3, <4>4 DEF Weight, Radix
    <3>5. e[i + (k + 1)] \in Nat
      BY <3>1, ByteOf
    <3> DEFINE J == K + e[i + (k + 1)] * Weight(k)
    <3>6. J \in Nat
      BY <3>2, <3>4, <3>5
    <3>7. e[i + (k + 1)] * (Weight(k) * Radix * w) = (e[i + (k + 1)] * Weight(k)) * Radix * w
      BY <1>0, <3>4, <3>5
    <3>8. J * Radix * w = K * Radix * w + (e[i + (k + 1)] * Weight(k)) * Radix * w
      <4> DEFINE B == e[i + (k + 1)] * Weight(k)
      <4>1. B \in Int /\ K \in Int /\ Radix \in Int /\ w \in Int
        BY <1>0, <3>2, <3>4, <3>5
      <4> HIDE DEF B, w
      <4>2. (K + B) * Radix * w = K * Radix * w + B * Radix * w
        BY <4>1, Distribute
      <4> QED BY <4>2 DEF B
    <3>9. L[i + (k + 1)] = L[i - 1] + e[i] * w + J * Radix * w
      <4> HIDE DEF J, L
      <4>1. K * Radix * w \in Nat /\ e[i] * w \in Nat /\ L[i - 1] \in Nat /\ J * Radix * w \in Nat
        <5> HIDE DEF w
        <5>1. K * Radix \in Nat /\ J * Radix \in Nat
          BY <1>0, <3>2, <3>6
        <5> QED BY <1>0, <5>1
      <4>2. L[i + (k + 1)] = L[i + k] + (e[i + (k + 1)] * Weight(k)) * Radix * w
        BY <3>3, <3>4, <3>7
      <4> DEFINE X == (e[i + (k + 1)] * Weight(k)) * Radix * w
                 Y == K * Radix * w
      <4>3. X \in Nat
        <5> HIDE DEF w
        <5>1. e[i + (k + 1)] * Weight(k) \in Nat
          BY <3>4, <3>5
        <5>2. (e[i + (k + 1)] * Weight(k)) * Radix \in Nat
          BY <1>0, <5>1
        <5> QED BY <1>0, <5>2
      <4> HIDE DEF X, Y, w
      <4> QED BY <3>2, <3>8, <4>1, <4>2, <4>3 DEF X, Y
    <3> QED BY <3>6, <3>9
  <2> QED BY <2>1
<1> HIDE DEF S
<1>3. Nat \subseteq S
  BY <1>1, <1>2, SetInduction
<1>4. ASSUME NEW n \in i .. Len(e) PROVE Digit(L[n], i) = e[i]
  <2>1. n - i \in S /\ i + (n - i) = n /\ n <= Len(e)
    BY <1>0, <1>3
  <2>2. PICK K \in Nat : L[n] = L[i - 1] + e[i] * w + K * Radix * w
    BY <2>1 DEF S
  <2> DEFINE q == K * Radix + e[i]
  <2>3. q \in Int /\ L[n] = q * w + L[i - 1]
    BY <1>0, <2>2
  <2>4. L[n] \div w = q
    <3> DEFINE r == L[i - 1]
    <3>1. w \in Nat \ {0} /\ r \in 0 .. w - 1 /\ q \in Int /\ L[n] = q * w + r
      BY <1>0, <2>3
    <3> HIDE DEF q, w, L, r
    <3>2. (q * w + r) \div w = q
      BY <3>1, DivisionUnique
    <3> QED BY <3>1, <3>2
  <2>5. q % Radix = e[i]
    <3> DEFINE b == e[i]
    <3>1. b \in 0 .. Radix - 1 /\ Radix \in Nat \ {0} /\ K \in Int
      BY <1>0, <2>2
    <3> HIDE DEF b
    <3>2. (K * Radix + b) % Radix = b
      BY <3>1, DivisionUnique
    <3> QED BY <3>2 DEF b
  <2> QED BY <2>4, <2>5 DEF Digit
<1> QED BY <1>4

\* The digits of a number stand for it.
LEMMA BytesOfDigits ==
  ASSUME NEW m \in Nat, NEW e \in Element, NEW N \in 0 .. Len(e),
         \A i \in 1 .. N : e[i] = Digit(m, i)
  PROVE  \A n \in 0 .. N : LowBytes(e)[n] = m % Weight(n)
<1> DEFINE L == LowBytes(e)
           S == {k \in Nat : k <= N => L[k] = m % Weight(k)}
<1>0. Len(e) \in Nat /\ N \in Nat /\ N <= Len(e) /\ Radix \in Nat \ {0}
  BY ElementLen, Widths
<1>1. 0 \in S
  <2>1. Weight(0) = 1
    BY WeightStep
  <2> QED BY <2>1, LowBytesIs
<1>2. ASSUME NEW k \in Nat, k \in S PROVE k + 1 \in S
  <2>1. CASE k + 1 <= N
    <3>1. k + 1 \in 1 .. N /\ k + 1 \in 1 .. Len(e) /\ (k + 1) - 1 = k
      BY <1>0, <2>1
    <3>2. L[k + 1] = (m % Weight(k)) + Digit(m, k + 1) * Weight(k)
      BY <1>2, <3>1, LowBytesIs
    <3> DEFINE w == Weight(k)
    <3>3. w \in Nat \ {0} /\ Weight(k + 1) = Radix * w
      BY WeightType, WeightStep
    <3>4. Digit(m, k + 1) = (m \div w) % Radix
      BY <3>1 DEF Digit
    <3>5. m % (Radix * w) = (m % w) + ((m \div w) % Radix) * w
      <4> HIDE DEF w
      <4> DEFINE q == m \div w
                 r == m % w
                 Q == q \div Radix
                 R == q % Radix
      <4>1. m = w * q + r /\ r \in 0 .. w - 1 /\ q \in Int
        BY <3>3
      <4>2. q = Radix * Q + R /\ R \in 0 .. Radix - 1 /\ Q \in Int
        BY <1>0, <4>1, Division
      <4> HIDE DEF q, r, Q, R
      <4>3. m = Q * (Radix * w) + (r + R * w)
        BY <1>0, <3>3, <4>1, <4>2
      <4>4. r + R * w \in 0 .. Radix * w - 1
        <5>1. R * w <= (Radix - 1) * w
          BY <1>0, <3>3, <4>2
        <5> QED BY <1>0, <3>3, <4>1, <4>2, <5>1
      <4>5. Radix * w \in Nat \ {0}
        BY <1>0, <3>3
      <4>6. m % (Radix * w) = r + R * w
        BY <4>2, <4>3, <4>4, <4>5, DivisionUnique
      <4> QED BY <4>6 DEF q, r, R
    <3> QED BY <1>0, <3>2, <3>3, <3>4, <3>5
  <2> QED BY <2>1
<1> HIDE DEF S
<1>3. Nat \subseteq S
  BY <1>1, <1>2, SetInduction
<1> QED BY <1>0, <1>3 DEF S

\* The number of bytes of a magnitude.
LEMMA ByteCountIs ==
  ASSUME NEW m \in Nat
  PROVE  /\ ByteCount(m) \in Nat /\ ByteCount(m) <= m
         /\ m < Weight(ByteCount(m))
         /\ ByteCount(m) > 0 => m >= Weight(ByteCount(m) - 1)
<1> DEFINE T == {k \in Nat : m < Weight(k)}
<1>1. m \in T
  BY WeightType
<1>2. PICK k \in T : \A j \in T : k <= j
  <2>1. T \in SUBSET Nat /\ T # {}
    BY <1>1
  <2> HIDE DEF T
  <2> QED BY <2>1, LeastNumber
<1>3. k \in 0 .. m
  BY <1>1, <1>2
<1>4. k > 0 => m >= Weight(k - 1)
  <2> SUFFICES ASSUME k > 0 PROVE m >= Weight(k - 1)
    OBVIOUS
  <2>1. k - 1 \in Nat /\ k - 1 \notin T
    BY <1>2
  <2>2. Weight(k - 1) \in Nat /\ ~(m < Weight(k - 1))
    BY <2>1, WeightType
  <2> QED BY <2>2
<1>5. \E j \in 0 .. m : m < Weight(j) /\ (j > 0 => m >= Weight(j - 1))
  BY <1>2, <1>3, <1>4
<1>6. /\ ByteCount(m) \in 0 .. m
      /\ m < Weight(ByteCount(m)) /\ (ByteCount(m) > 0 => m >= Weight(ByteCount(m) - 1))
  BY <1>5 DEF ByteCount
<1> QED BY <1>6

\* Only one byte count fits a magnitude.
LEMMA ByteCountUnique ==
  ASSUME NEW m \in Nat, NEW k \in Nat, m < Weight(k), k > 0 => m >= Weight(k - 1)
  PROVE  ByteCount(m) = k
<1> DEFINE n == ByteCount(m)
<1>1. n \in Nat /\ m < Weight(n) /\ (n > 0 => m >= Weight(n - 1))
  BY ByteCountIs
<1> HIDE DEF n
<1>2. CASE k < n
  <2>1. n - 1 \in Nat /\ k <= n - 1 /\ n > 0
    BY <1>1, <1>2
  <2>2. Weight(k) <= Weight(n - 1)
    BY <2>1, WeightMonotone
  <2>3. Weight(k) \in Nat /\ Weight(n - 1) \in Nat
    BY <2>1, WeightType
  <2> QED BY <1>1, <2>1, <2>2, <2>3
<1>3. CASE n < k
  <2>1. k - 1 \in Nat /\ n <= k - 1 /\ k > 0
    BY <1>1, <1>3
  <2>2. Weight(n) <= Weight(k - 1)
    BY <1>1, <2>1, WeightMonotone
  <2>3. Weight(n) \in Nat /\ Weight(k - 1) \in Nat
    BY <1>1, <2>1, WeightType
  <2> QED BY <1>1, <2>1, <2>2, <2>3
<1> QED BY <1>1, <1>2, <1>3 DEF n

LEMMA LittleEndianIs ==
  ASSUME NEW m \in Nat
  PROVE  /\ LittleEndian(m) \in Element
         /\ Len(LittleEndian(m)) = ByteCount(m)
         /\ \A i \in 1 .. ByteCount(m) : LittleEndian(m)[i] = Digit(m, i)
<1> DEFINE n == ByteCount(m)
           d == [i \in 1 .. n |-> Digit(m, i)]
<1>1. n \in Nat
  BY ByteCountIs
<1>2. LittleEndian(m) = SubSeq(d, 1, n)
  BY DEF LittleEndian, Bytes, Digit
<1>3. \A i \in 1 .. n : Digit(m, i) \in Byte
  BY <1>1, DigitType
<1> HIDE DEF n
<1>4. d \in Seq(Byte) /\ Len(d) = n
  BY <1>1, <1>3
<1> HIDE DEF d
<1>5. SubSeq(d, 1, n) = d
  BY <1>1, <1>4
<1> QED BY <1>2, <1>4, <1>5 DEF d, n, Element

\* The two tables of one number.
LEMMA LittleEndianValue ==
  ASSUME NEW m \in Nat
  PROVE  /\ LowBytes(LittleEndian(m))[ByteCount(m)] = m
         /\ m > 0 => /\ ByteCount(m) > 0
                     /\ LowBytes(LittleEndian(m))[ByteCount(m) - 1] = m % Weight(ByteCount(m) - 1)
                     /\ LittleEndian(m)[ByteCount(m)] = m \div Weight(ByteCount(m) - 1)
                     /\ LittleEndian(m)[ByteCount(m)] > 0
<1> DEFINE n == ByteCount(m)
           e == LittleEndian(m)
<1>1. n \in Nat /\ m < Weight(n) /\ (n > 0 => m >= Weight(n - 1))
  BY ByteCountIs
<1>2. e \in Element /\ Len(e) = n /\ \A i \in 1 .. n : e[i] = Digit(m, i)
  BY LittleEndianIs
<1>3. \A k \in 0 .. n : LowBytes(e)[k] = m % Weight(k)
  <2> HIDE DEF e
  <2>1. n \in 0 .. Len(e)
    BY <1>1, <1>2
  <2> QED BY <1>2, <2>1, BytesOfDigits
<1>4. Weight(n) \in Nat \ {0} /\ m % Weight(n) = m
  BY <1>1, WeightType
<1>5. LowBytes(e)[n] = m
  <2> HIDE DEF e, n
  <2> QED BY <1>1, <1>3, <1>4
<1>6. ASSUME m > 0 PROVE /\ n > 0
                         /\ LowBytes(e)[n - 1] = m % Weight(n - 1)
                         /\ e[n] = m \div Weight(n - 1) /\ e[n] > 0
  <2> HIDE DEF e, n
  <2>1. n > 0 /\ n - 1 \in Nat
    <3>1. Weight(0) = 1
      BY WeightStep
    <3> QED BY <1>1, <1>6, <3>1
  <2> DEFINE w == Weight(n - 1)
  <2>2. w \in Nat \ {0} /\ Weight(n) = Radix * w /\ Radix \in Nat \ {0}
    <3>1. (n - 1) + 1 = n
      BY <1>1
    <3> QED BY <2>1, <3>1, WeightType, WeightStep, Widths
  <2>3. e[n] = (m \div w) % Radix
    BY <1>2, <2>1 DEF Digit
  <2>4. m < Radix * w /\ m >= w
    BY <1>1, <2>1, <2>2
  <2> HIDE DEF w
  <2>5. m \div w \in 1 .. Radix - 1
    BY <2>2, <2>4
  <2>6. (m \div w) % Radix = m \div w
    BY <2>2, <2>5
  <2>7. LowBytes(e)[n - 1] = m % w
    BY <1>1, <1>3, <2>1 DEF w
  <2> QED BY <2>1, <2>3, <2>5, <2>6, <2>7 DEF w
<1> QED BY <1>5, <1>6

Sign(v) == IF v < 0 THEN SignBit ELSE 0

\* e is the number v written without a byte too many: the digits of its
\* magnitude, with the sign on the top one.
Writes(e, v) ==
    /\ e \in Element /\ Len(e) > 0
    /\ \A i \in 1 .. Len(e) - 1 : e[i] = Digit(Magnitude(v), i)
    /\ e[Len(e)] = (Magnitude(v) \div Weight(Len(e) - 1)) + Sign(v)
    /\ Magnitude(v) < SignBit * Weight(Len(e) - 1)
    /\ Magnitude(v) > 0
    /\ Len(e) > 1 => Magnitude(v) >= SignBit * Weight(Len(e) - 2)

LEMMA MagnitudeType ==
  ASSUME NEW v \in Int
  PROVE  Magnitude(v) \in Nat /\ (Magnitude(v) = 0 <=> v = 0) /\ v = IF v < 0 THEN -Magnitude(v) ELSE Magnitude(v)
BY DEF Magnitude

\* What Encode writes, byte by byte.
LEMMA EncodeWrites ==
  ASSUME NEW v \in Int, v # 0
  PROVE  Writes(Encode(v), v)
<1> DEFINE m == Magnitude(v)
           n == ByteCount(m)
           le == LittleEndian(m)
           t == le[n]
           s == Sign(v)
           w == Weight(n - 1)
           E == Encode(v)
<1>1. m \in Nat /\ m > 0
  BY MagnitudeType
<1> HIDE DEF m
<1>2. n \in Nat /\ n > 0 /\ n - 1 \in Nat /\ m < Weight(n) /\ m >= w
  BY <1>1, ByteCountIs, LittleEndianValue
<1>3. le \in Element /\ Len(le) = n /\ \A i \in 1 .. n : le[i] = Digit(m, i)
  BY <1>1, LittleEndianIs
<1>4. t = m \div w /\ t > 0
  BY <1>1, LittleEndianValue
<1>5. t \in 1 .. Radix - 1 /\ w \in Nat \ {0} /\ Weight(n) = Radix * w
  <2>1. le[n] \in 0 .. Radix - 1
    BY <1>2, <1>3, ByteOf
  <2>2. (n - 1) + 1 = n
    BY <1>2
  <2> QED BY <1>2, <1>4, <2>1, <2>2, WeightType, WeightStep, Widths
<1>6. SignBit \in Nat /\ SignBit > 1 /\ Radix = 2 * SignBit /\ s \in {0, SignBit}
  BY Widths DEF Sign
<1>7. E = IF t >= SignBit THEN Append(le, s) ELSE [le EXCEPT ![n] = t + s]
  <2>1. s = IF v < 0 THEN SignBit ELSE 0
    BY DEF Sign
  <2>2. t + 0 = t
    BY <1>5, <1>6
  <2>3. E = IF le[Len(le)] >= SignBit THEN Append(le, IF v < 0 THEN SignBit ELSE 0)
            ELSE [le EXCEPT ![Len(le)] = IF v < 0 THEN le[Len(le)] + SignBit ELSE le[Len(le)]]
    BY Zenon DEF Encode, m
  <2> HIDE DEF le, s, n, E
  <2> QED BY <1>3, <2>1, <2>2, <2>3
<1> HIDE DEF t, le, n, s, E, w
<1>8. CASE t >= SignBit
  <2>1. E = Append(le, s)
    BY <1>7, <1>8
  <2>2. /\ E \in Element /\ Len(E) = n + 1 /\ E[n + 1] = s /\ \A i \in 1 .. n : E[i] = Digit(m, i)
    <3>1. s \in Byte
      BY <1>6 DEF Byte
    <3> QED BY <1>2, <1>3, <2>1, <3>1 DEF Element
  <2>3. m \div Weight(n) = 0
    BY <1>1, <1>2, <1>5, <1>6
  <2>4. m < SignBit * Weight(n)
    BY <1>1, <1>2, <1>5, <1>6
  <2>5. m >= SignBit * w
    <3>1. m = w * (m \div w) + (m % w) /\ m % w \in Nat
      BY <1>1, <1>5
    <3>2. w * t >= w * SignBit
      BY <1>5, <1>6, <1>8
    <3> QED BY <1>1, <1>4, <1>5, <1>6, <3>1, <3>2
  <2>6. (n + 1) - 1 = n /\ (n + 1) - 2 = n - 1 /\ n + 1 > 1
    BY <1>2
  <2>7. E[n + 1] = (m \div Weight(n)) + s
    BY <1>6, <2>2, <2>3
  <2> QED BY <1>1, <2>2, <2>4, <2>5, <2>6, <2>7 DEF Writes, E, m, s, w
<1>9. CASE ~(t >= SignBit)
  <2>1. E = [le EXCEPT ![n] = t + s]
    BY <1>7, <1>9
  <2>2. t + s \in Byte
    BY <1>5, <1>6, <1>9 DEF Byte
  <2>3. E \in Element /\ Len(E) = n /\ E[n] = t + s /\ \A i \in 1 .. n - 1 : E[i] = Digit(m, i)
    BY <1>2, <1>3, <2>1, <2>2 DEF Element
  <2>4. m < SignBit * w
    <3>1. m = w * (m \div w) + (m % w) /\ m % w \in 0 .. w - 1
      BY <1>1, <1>5
    <3>2. w * (t + 1) <= w * SignBit
      BY <1>5, <1>6, <1>9
    <3> QED BY <1>1, <1>4, <1>5, <1>6, <3>1, <3>2
  <2>5. n > 1 => m >= SignBit * Weight(n - 2)
    <3> SUFFICES ASSUME n > 1 PROVE m >= SignBit * Weight(n - 2)
      OBVIOUS
    <3>1. n - 2 \in Nat /\ (n - 2) + 1 = n - 1
      BY <1>2
    <3>2. w = Radix * Weight(n - 2) /\ Weight(n - 2) \in Nat
      BY <3>1, WeightStep, WeightType DEF w
    <3> QED BY <1>1, <1>2, <1>5, <1>6, <3>2
  <2> QED BY <1>1, <1>2, <1>4, <2>3, <2>4, <2>5 DEF Writes, E, m, s, w
<1> QED BY <1>8, <1>9

\* The length is determined by the number.
LEMMA WritesLength ==
  ASSUME NEW v \in Int, NEW e, Writes(e, v), NEW k \in Nat
  PROVE  Len(e) <= k <=> k > 0 /\ Magnitude(v) < SignBit * Weight(k - 1)
<1> DEFINE n == Len(e)
           m == Magnitude(v)
<1>1. /\ n \in Nat /\ n > 0 /\ m \in Nat /\ m < SignBit * Weight(n - 1)
      /\ n > 1 => m >= SignBit * Weight(n - 2)
  BY ElementLen, MagnitudeType DEF Writes
<1> HIDE DEF n, m
<1>2. ASSUME n <= k PROVE k > 0 /\ m < SignBit * Weight(k - 1)
  <2>1. n - 1 \in Nat /\ k - 1 \in Nat /\ n - 1 <= k - 1
    BY <1>1, <1>2
  <2>2. Weight(n - 1) <= Weight(k - 1) /\ Weight(n - 1) \in Nat /\ Weight(k - 1) \in Nat
    BY <2>1, WeightMonotone, WeightType
  <2>3. SignBit * Weight(n - 1) <= SignBit * Weight(k - 1)
    BY <2>2, Widths
  <2>4. SignBit * Weight(n - 1) \in Nat /\ SignBit * Weight(k - 1) \in Nat
    BY <2>2, Widths
  <2> QED BY <1>1, <1>2, <2>3, <2>4
<1>3. ASSUME k > 0, m < SignBit * Weight(k - 1), n > k PROVE FALSE
  <2>1. n - 2 \in Nat /\ k - 1 \in Nat /\ k - 1 <= n - 2 /\ n > 1
    BY <1>1, <1>3
  <2>2. Weight(k - 1) <= Weight(n - 2) /\ Weight(n - 2) \in Nat /\ Weight(k - 1) \in Nat
    BY <2>1, WeightMonotone, WeightType
  <2>3. SignBit * Weight(k - 1) <= SignBit * Weight(n - 2)
    BY <2>2, Widths
  <2>4. SignBit * Weight(n - 2) \in Nat /\ SignBit * Weight(k - 1) \in Nat
    BY <2>2, Widths
  <2> QED BY <1>1, <1>3, <2>1, <2>3, <2>4
<1>4. n <= k \/ n > k
  BY <1>1
<1> QED BY <1>2, <1>3, <1>4 DEF n, m

\* A number is written in one way.
LEMMA WritesUnique ==
  ASSUME NEW v \in Int, NEW e, NEW d, Writes(e, v), Writes(d, v)
  PROVE  e = d
<1>1. Len(e) \in Nat /\ Len(d) \in Nat /\ Len(e) > 0 /\ Len(d) > 0
  BY ElementLen DEF Writes
<1>2. Len(e) <= Len(d) /\ Len(d) <= Len(e)
  <2>1. Len(e) <= Len(e) /\ Len(d) <= Len(d)
    BY <1>1
  <2>2. Len(e) > 0 /\ Magnitude(v) < SignBit * Weight(Len(e) - 1)
    BY <1>1, <2>1, WritesLength
  <2>3. Len(d) > 0 /\ Magnitude(v) < SignBit * Weight(Len(d) - 1)
    BY <1>1, <2>1, WritesLength
  <2>4. Len(e) <= Len(d)
    BY <1>1, <2>3, WritesLength
  <2>5. Len(d) <= Len(e)
    BY <1>1, <2>2, WritesLength
  <2> QED BY <2>4, <2>5
<1>3. Len(e) = Len(d)
  BY <1>1, <1>2
<1>4. \A i \in 1 .. Len(e) : e[i] = d[i]
  BY <1>1, <1>3 DEF Writes
<1> QED BY <1>3, <1>4 DEF Writes, Element

LEMMA EncodeType ==
  ASSUME NEW v \in Int
  PROVE  /\ Encode(v) \in Element
         /\ v = 0 => Encode(v) = <<>>
         /\ v # 0 => Writes(Encode(v), v)
         /\ \A k \in Nat : Len(Encode(v)) <= k <=> v = 0 \/ (k > 0 /\ Magnitude(v) < SignBit * Weight(k - 1))
<1>1. CASE v = 0
  <2>1. Encode(v) = <<>>
    BY <1>1 DEF Encode
  <2>2. <<>> \in Element /\ Len(<<>>) = 0
    BY DEF Element
  <2> QED BY <1>1, <2>1, <2>2
<1>2. CASE v # 0
  <2>1. Writes(Encode(v), v)
    BY <1>2, EncodeWrites
  <2>2. \A k \in Nat : Len(Encode(v)) <= k <=> k > 0 /\ Magnitude(v) < SignBit * Weight(k - 1)
    BY <2>1, WritesLength
  <2> QED BY <1>2, <2>1, <2>2 DEF Writes
<1> QED BY <1>1, <1>2

\* The magnitude that an element stands for.
Stands(e) == LowBytes(e)[Len(e) - 1] + (e[Len(e)] % SignBit) * Weight(Len(e) - 1)

LEMMA StandsType ==
  ASSUME NEW e \in Element, Len(e) > 0
  PROVE  /\ Len(e) \in Nat /\ Len(e) - 1 \in Nat
         /\ LowBytes(e)[Len(e) - 1] \in 0 .. Weight(Len(e) - 1) - 1
         /\ e[Len(e)] \in 0 .. Radix - 1
         /\ e[Len(e)] % SignBit \in 0 .. SignBit - 1
         /\ e[Len(e)] = (e[Len(e)] % SignBit) + (IF e[Len(e)] >= SignBit THEN SignBit ELSE 0)
         /\ Weight(Len(e) - 1) \in Nat \ {0}
         /\ Stands(e) \in Nat
         /\ Stands(e) < SignBit * Weight(Len(e) - 1)
         /\ Stands(e) \div Weight(Len(e) - 1) = e[Len(e)] % SignBit
<1> DEFINE n == Len(e)
           w == Weight(n - 1)
           b == e[n]
           l == LowBytes(e)[n - 1]
<1>1. n \in Nat /\ n - 1 \in Nat /\ n \in 1 .. n /\ n - 1 \in 0 .. n
  BY ElementLen
<1>2. l \in 0 .. w - 1 /\ w \in Nat \ {0}
  BY <1>1, LowBytesBound, WeightType
<1>3. b \in 0 .. Radix - 1
  BY <1>1, ByteOf
<1>4. Stands(e) = l + (b % SignBit) * w
  BY DEF Stands
<1> HIDE DEF b, w, l, n
<1>5. SignBit \in Nat \ {0} /\ Radix = 2 * SignBit
  BY Widths
<1>6. b % SignBit \in 0 .. SignBit - 1 /\ b = (b % SignBit) + (IF b >= SignBit THEN SignBit ELSE 0)
  BY <1>3, <1>5
<1> DEFINE t == b % SignBit
<1>7. t \in 0 .. SignBit - 1
  BY <1>6
<1> HIDE DEF t
<1>8. t * w \in Nat /\ t * w <= (SignBit - 1) * w
  BY <1>2, <1>5, <1>7
<1>9. l + t * w \in Nat /\ l + t * w < SignBit * w
  BY <1>2, <1>5, <1>7, <1>8
<1>10. (t * w + l) \div w = t
  BY <1>2, <1>7, DivisionUnique
<1>11. (l + t * w) \div w = t
  BY <1>2, <1>8, <1>10
<1> QED BY <1>1, <1>2, <1>3, <1>4, <1>6, <1>9, <1>11 DEF n, w, b, l, t

LEMMA DecodeIs ==
  ASSUME NEW e \in Element, Len(e) > 0
  PROVE  Decode(e) = IF e[Len(e)] >= SignBit THEN -Stands(e) ELSE Stands(e)
<1>1. e # <<>>
  BY ElementLen
<1> QED BY <1>1 DEF Decode, Stands

LEMMA DecodeType ==
  ASSUME NEW e \in Element
  PROVE  /\ Decode(e) \in Int
         /\ Len(e) = 0 => Decode(e) = 0
         /\ Len(e) > 0 => Magnitude(Decode(e)) = Stands(e)
         /\ Len(e) > 0 => Magnitude(Decode(e)) < SignBit * Weight(Len(e) - 1)
<1>1. CASE Len(e) = 0
  BY <1>1, ElementLen DEF Decode
<1>2. CASE Len(e) > 0
  BY <1>2, DecodeIs, StandsType DEF Magnitude
<1> QED BY <1>1, <1>2, ElementLen

\* The bytes below the top one are the digits of what the element stands for.
LEMMA DigitOfStands ==
  ASSUME NEW e \in Element, Len(e) > 0, NEW i \in 1 .. Len(e) - 1
  PROVE  Digit(Stands(e), i) = e[i]
<1> DEFINE n == Len(e)
           d == [e EXCEPT ![n] = e[n] % SignBit]
<1>1. n \in Nat /\ n > 0 /\ i \in 1 .. n /\ n \in i .. n /\ i # n
  BY ElementLen
<1>2. e[n] % SignBit \in Byte
  BY StandsType, Widths DEF Byte
<1>3. d \in Element /\ Len(d) = n /\ d[n] = e[n] % SignBit /\ \A k \in 1 .. n - 1 : d[k] = e[k]
  BY <1>1, <1>2 DEF Element
<1> HIDE DEF d
<1>4. \A k \in 0 .. n - 1 : LowBytes(d)[k] = LowBytes(e)[k]
  <2> DEFINE S == {k \in Nat : k <= n - 1 => LowBytes(d)[k] = LowBytes(e)[k]}
  <2>1. 0 \in S
    BY <1>3, LowBytesIs
  <2>2. ASSUME NEW k \in Nat, k \in S PROVE k + 1 \in S
    <3>1. CASE k + 1 <= n - 1
      <4>1. k + 1 \in 1 .. Len(e) /\ k + 1 \in 1 .. Len(d) /\ k + 1 \in 1 .. n - 1 /\ (k + 1) - 1 = k
        BY <1>1, <1>3, <3>1
      <4>2. LowBytes(d)[k + 1] = LowBytes(d)[k] + d[k + 1] * Weight(k)
        BY <1>3, <4>1, LowBytesIs
      <4>3. LowBytes(e)[k + 1] = LowBytes(e)[k] + e[k + 1] * Weight(k)
        BY <4>1, LowBytesIs
      <4> QED BY <1>3, <2>2, <3>1, <4>1, <4>2, <4>3
    <3> QED BY <3>1
  <2> HIDE DEF S
  <2>3. Nat \subseteq S
    BY <2>1, <2>2, SetInduction
  <2> QED BY <1>1, <2>3 DEF S
<1>5. LowBytes(d)[n] = Stands(e)
  <2>1. LowBytes(d)[n] = LowBytes(d)[n - 1] + d[n] * Weight(n - 1)
    <3>1. n \in 1 .. Len(d)
      BY <1>1, <1>3
    <3> QED BY <1>3, <3>1, LowBytesIs
  <2>2. LowBytes(d)[n - 1] = LowBytes(e)[n - 1]
    BY <1>1, <1>4
  <2> QED BY <1>3, <2>1, <2>2 DEF Stands
<1>6. Digit(LowBytes(d)[n], i) = d[i]
  BY <1>1, <1>3, DigitOfBytes
<1> QED BY <1>1, <1>3, <1>5, <1>6

\* What is written is read back.
LEMMA WritesDecode ==
  ASSUME NEW v \in Int, NEW e, Writes(e, v)
  PROVE  Decode(e) = v
<1> DEFINE n == Len(e)
           m == Magnitude(v)
           w == Weight(n - 1)
<1>1. /\ e \in Element /\ n > 0 /\ \A i \in 1 .. n - 1 : e[i] = Digit(m, i)
      /\ e[n] = (m \div w) + Sign(v) /\ m < SignBit * w /\ m > 0
  BY DEF Writes
<1>2. n \in Nat /\ n - 1 \in 0 .. n /\ w \in Nat \ {0} /\ m \in Nat /\ SignBit \in Nat \ {0}
  BY <1>1, StandsType, MagnitudeType, Widths
<1>3. LowBytes(e)[n - 1] = m % w
  <2>1. \A k \in 0 .. n - 1 : LowBytes(e)[k] = m % Weight(k)
    <3> HIDE DEF n, m, w
    <3> QED BY <1>1, <1>2, BytesOfDigits DEF n
  <2> QED BY <1>2, <2>1
<1>4. m \div w \in 0 .. SignBit - 1
  <2> HIDE DEF n, m, w
  <2> QED BY <1>1, <1>2
<1>5. e[n] % SignBit = m \div w /\ (e[n] >= SignBit <=> v < 0)
  <2> DEFINE q == m \div w
  <2>1. q \in 0 .. SignBit - 1 /\ e[n] = q + (IF v < 0 THEN SignBit ELSE 0)
    BY <1>1, <1>4 DEF Sign
  <2> HIDE DEF q
  <2>2. (q + SignBit) % SignBit = q /\ q % SignBit = q
    BY <1>2, <2>1
  <2>3. e[n] % SignBit = q /\ (e[n] >= SignBit <=> v < 0)
    BY <1>2, <2>1, <2>2
  <2> QED BY <2>3 DEF q
<1>6. Stands(e) = m
  <2>1. Stands(e) = (m % w) + (m \div w) * w
    BY <1>3, <1>5 DEF Stands
  <2>2. (m % w) + (m \div w) * w = m
    <3> HIDE DEF w, m
    <3> QED BY <1>2
  <2> QED BY <2>1, <2>2
<1>7. Decode(e) = IF e[n] >= SignBit THEN -Stands(e) ELSE Stands(e)
  BY <1>1, DecodeIs
<1> QED BY <1>5, <1>6, <1>7, MagnitudeType

\* What is encoded is decoded again.
LEMMA DecodeEncode ==
  ASSUME NEW v \in Int
  PROVE  Decode(Encode(v)) = v
<1>1. CASE v = 0
  BY <1>1, EncodeType, DecodeType
<1>2. CASE v # 0
  BY <1>2, EncodeType, WritesDecode
<1> QED BY <1>1, <1>2

\* Minimal is what the number itself writes.
LEMMA MinimalWrites ==
  ASSUME NEW e \in Element, Len(e) > 0
  PROVE  CheckMinimalDataEncoding(e) <=> Writes(e, Decode(e))
<1> DEFINE n == Len(e)
           v == Decode(e)
           m == Stands(e)
           t == e[n] % SignBit
<1>1. /\ n \in Nat /\ n - 1 \in Nat /\ m \in Nat /\ m < SignBit * Weight(n - 1)
      /\ m \div Weight(n - 1) = t /\ t \in 0 .. SignBit - 1
      /\ e[n] = t + (IF e[n] >= SignBit THEN SignBit ELSE 0)
      /\ Weight(n - 1) \in Nat \ {0} /\ e[n] \in Nat
  BY StandsType
<1>2. v \in Int /\ Magnitude(v) = m /\ v = IF e[n] >= SignBit THEN -m ELSE m
  BY DecodeType, DecodeIs
<1>3. CheckMinimalDataEncoding(e) <=> t # 0 \/ (n > 1 /\ e[n - 1] >= SignBit)
  BY ElementLen DEF CheckMinimalDataEncoding
<1>4. \A i \in 1 .. n - 1 : e[i] = Digit(m, i)
  BY DigitOfStands
<1>5. m > 0 => e[n] = (m \div Weight(n - 1)) + Sign(v)
  BY <1>1, <1>2 DEF Sign
<1> DEFINE Long == m > 0 /\ (n > 1 => m >= SignBit * Weight(n - 2))
<1>6. Writes(e, v) <=> Long
  BY <1>1, <1>2, <1>4, <1>5 DEF Writes
<1>7. SignBit \in Nat /\ SignBit > 1 /\ Radix = 2 * SignBit
  BY Widths
<1>8. m = LowBytes(e)[n - 1] + t * Weight(n - 1) /\ LowBytes(e)[n - 1] \in Nat
  BY StandsType DEF Stands
<1>9. CASE n = 1
  <2>1. LowBytes(e)[n - 1] = 0
    BY <1>9, LowBytesIs
  <2>2. m > 0 <=> t # 0
    <3> HIDE DEF t, m
    <3> QED BY <1>1, <1>8, <2>1
  <2> QED BY <1>3, <1>6, <1>9, <2>2
<1>10. CASE n > 1
  <2> DEFINE u == Weight(n - 2)
             w == Weight(n - 1)
             a == LowBytes(e)[n - 2]
             b == e[n - 1]
  <2>1. /\ n - 2 \in Nat /\ (n - 2) + 1 = n - 1 /\ n - 1 \in 1 .. n /\ n - 2 \in 0 .. n /\ (n - 1) - 1 = n - 2
    BY <1>1, <1>10
  <2>2. w = Radix * u /\ u \in Nat \ {0}
    BY <2>1, WeightStep, WeightType
  <2>3. LowBytes(e)[n - 1] = a + b * u
    BY <2>1, LowBytesIs
  <2>4. a \in 0 .. u - 1
    BY <2>1, LowBytesBound
  <2>5. b \in Nat
    BY <2>1, ByteOf
  <2> HIDE DEF a, b, u, w, t, m
  <2>6. m = a + b * u + t * w
    BY <1>8, <2>3 DEF w
  <2>7. ASSUME t # 0 PROVE m >= SignBit * u
    <3>1. t * w >= w
      BY <1>1, <2>7 DEF w
    <3>2. w >= SignBit * u
      BY <1>7, <2>2
    <3>3. b * u \in Nat
      BY <2>2, <2>5
    <3>4. t * w \in Int /\ w \in Int /\ SignBit * u \in Int
      BY <1>1, <1>7, <2>2 DEF w
    <3> QED BY <2>4, <2>6, <3>1, <3>2, <3>3, <3>4
  <2>8. ASSUME b >= SignBit PROVE m >= SignBit * u
    <3>1. b * u >= SignBit * u
      BY <1>7, <2>2, <2>5, <2>8
    <3>2. t * w \in Nat
      BY <1>1 DEF w
    <3>3. b * u \in Int /\ SignBit * u \in Int
      BY <1>7, <2>2, <2>5
    <3> QED BY <2>4, <2>6, <3>1, <3>2, <3>3
  <2>9. ASSUME t = 0, ~(b >= SignBit) PROVE m < SignBit * u
    <3>1. (b + 1) * u <= SignBit * u
      BY <1>7, <2>2, <2>5, <2>9
    <3>2. t * w = 0
      BY <1>1, <2>9 DEF w
    <3>3. (b + 1) * u = b * u + u
      BY <2>2, <2>5
    <3>4. b * u \in Int /\ SignBit * u \in Int
      BY <1>7, <2>2, <2>5
    <3> QED BY <2>2, <2>4, <2>6, <3>1, <3>2, <3>3, <3>4
  <2>10. SignBit * u > 0 /\ SignBit * u \in Int
    BY <1>7, <2>2
  <2>11. (t # 0 \/ b >= SignBit) <=> m >= SignBit * u
    BY <1>1, <2>7, <2>8, <2>9, <2>10
  <2>12. Long <=> m >= SignBit * u
    BY <1>1, <1>10, <2>10 DEF u
  <2>13. CheckMinimalDataEncoding(e) <=> t # 0 \/ b >= SignBit
    BY <1>3, <1>10 DEF b
  <2> HIDE DEF Long, v
  <2> QED BY <1>6, <2>11, <2>12, <2>13 DEF v
<1>11. n = 1 \/ n > 1
  <2>1. n \in Nat /\ n > 0
    BY ElementLen
  <2> HIDE DEF n
  <2> QED BY <2>1
<1> QED BY <1>9, <1>10, <1>11

\* A number has exactly one element that checkMinimalDataEncoding accepts.
LEMMA MinimalIsEncoded ==
  ASSUME NEW e \in Element
  PROVE  CheckMinimalDataEncoding(e) <=> Encode(Decode(e)) = e
<1>1. CASE Len(e) = 0
  <2>1. e = <<>> /\ Decode(e) = 0 /\ Encode(0) = <<>>
    BY <1>1, ElementLen, DecodeType, EncodeType
  <2> QED BY <2>1 DEF CheckMinimalDataEncoding
<1>2. CASE Len(e) > 0
  <2>1. Decode(e) \in Int
    BY DecodeType
  <2>2. ASSUME Writes(e, Decode(e)) PROVE Encode(Decode(e)) = e
    <3>1. Decode(e) # 0
      BY <2>1, <2>2, MagnitudeType DEF Writes
    <3> QED BY <2>1, <2>2, <3>1, EncodeWrites, WritesUnique
  <2>3. ASSUME Encode(Decode(e)) = e PROVE Writes(e, Decode(e))
    <3>1. Decode(e) # 0
      BY <1>2, <2>1, <2>3, EncodeType
    <3> QED BY <2>1, <2>3, <3>1, EncodeWrites
  <2> QED BY <1>2, <2>2, <2>3, MinimalWrites
<1> QED BY <1>1, <1>2, ElementLen

-----------------------------------------------------------------------------
(***************************************************************************)
(* The int64 fast path.                                                    *)
(***************************************************************************)
Int64 == MinInt64 .. MaxInt64

\* What a BigNum can be.
BigNums == [useBig : BOOLEAN, val : Int] \ {n \in [useBig : {FALSE}, val : Int] : n.val \notin Int64}

LEMMA Int64Is ==
  \A x : x \in Int64 <=> x \in Int /\ -Half <= x /\ x < Half
BY HalfIs DEF Int64, MinInt64, MaxInt64

LEMMA BigNumsAre ==
  /\ \A x \in Int64 : Small(x) \in BigNums /\ Small(x).val = x /\ ~Small(x).useBig
  /\ \A x \in Int : Big(x) \in BigNums /\ Big(x).val = x /\ Big(x).useBig
  /\ \A n \in BigNums : n.val \in Int /\ n.useBig \in BOOLEAN /\ (~n.useBig => n.val \in Int64)
BY Int64Is DEF BigNums, Small, Big

\* An int64 keeps exactly its own range.
LEMMA WrapIs ==
  ASSUME NEW x \in Int
  PROVE  /\ Wrap(x) \in Int64 /\ Wrap(x) \in Int
         /\ \E q \in Int : x = Wrap(x) + q * (2 * Half)
         /\ x \in Int64 => Wrap(x) = x
<1> DEFINE M == 2 * Half
           y == x + Half
<1>1. M \in Nat \ {0} /\ Half \in Nat /\ y \in Int
  BY HalfIs
<1>2. Wrap(x) = (y % M) - Half
  BY DEF Wrap
<1> HIDE DEF M, y
<1>3. y = M * (y \div M) + (y % M) /\ y % M \in 0 .. M - 1 /\ y \div M \in Int
  BY <1>1, Division
<1>4. y = x + Half /\ M = 2 * Half
  BY DEF y, M
<1>5. Wrap(x) \in Int64
  BY <1>1, <1>2, <1>3, <1>4, Int64Is
<1>6. x = Wrap(x) + (y \div M) * (2 * Half)
  BY <1>1, <1>2, <1>3, <1>4
<1>7. ASSUME x \in Int64 PROVE Wrap(x) = x
  <2>1. y \in 0 .. M - 1
    BY <1>1, <1>4, <1>7, Int64Is
  <2>2. y % M = y
    BY <1>1, <2>1
  <2> QED BY <1>1, <1>2, <1>4, <2>2
<1> QED BY <1>3, <1>5, <1>6, <1>7, Int64Is

\* A sum that wraps is off by one range.
LEMMA WrapOfSum ==
  ASSUME NEW x \in Int, -2 * Half <= x, x < 2 * Half
  PROVE  Wrap(x) \in {x, x + 2 * Half, x - 2 * Half} /\ Wrap(x) \in Int64
<1>1. PICK q \in Int : x = Wrap(x) + q * (2 * Half)
  BY WrapIs
<1>2. Wrap(x) \in Int /\ -Half <= Wrap(x) /\ Wrap(x) < Half /\ Half \in Nat /\ Half > 1 /\ Wrap(x) \in Int64
  BY WrapIs, Int64Is, HalfIs
<1>3. q \in {-1, 0, 1}
  BY <1>1, <1>2
<1> QED BY <1>1, <1>2, <1>3

\* The number that an operation leaves: exact, and small only within int64.
Exact(r, v) == r \in BigNums /\ r.val = v

LEMMA AddExact ==
  ASSUME NEW n \in BigNums, NEW m \in BigNums
  PROVE  Exact(Add(n, m), n.val + m.val)
<1> DEFINE a == n.val
           b == m.val
           r == Wrap(a + b)
           overflow == (r < 0) # (a < 0) /\ (r < 0) # (b < 0)
<1>1. a \in Int /\ b \in Int /\ a + b \in Int
  BY BigNumsAre
<1>2. Add(n, m) = IF BothSmall(n, m) /\ ~overflow THEN Small(r) ELSE Big(a + b)
  BY DEF Add
<1>3. ASSUME BothSmall(n, m), ~overflow PROVE r = a + b /\ r \in Int64
  <2>1. a \in Int64 /\ b \in Int64
    BY <1>3, BigNumsAre DEF BothSmall
  <2> HIDE DEF a, b
  <2>2. -Half <= a /\ a < Half /\ -Half <= b /\ b < Half /\ Half \in Nat
    BY <2>1, Int64Is, HalfIs
  <2>3. r \in {a + b, a + b + 2 * Half, a + b - 2 * Half} /\ r \in Int64
    BY <1>1, <2>2, WrapOfSum
  <2>4. -Half <= r /\ r < Half /\ r \in Int
    BY <2>3, Int64Is
  <2> HIDE DEF r
  <2> QED BY <1>1, <1>3, <2>2, <2>3, <2>4
<1> HIDE DEF overflow, r
<1> QED BY <1>1, <1>2, <1>3, BigNumsAre DEF Exact

LEMMA SubExact ==
  ASSUME NEW n \in BigNums, NEW m \in BigNums
  PROVE  Exact(Sub(n, m), n.val - m.val)
<1> DEFINE a == n.val
           b == m.val
           r == Wrap(a - b)
           overflow == (a < 0) # (b < 0) /\ (a < 0) # (r < 0)
<1>1. a \in Int /\ b \in Int /\ a - b \in Int
  BY BigNumsAre
<1>2. Sub(n, m) = IF BothSmall(n, m) /\ ~overflow THEN Small(r) ELSE Big(a - b)
  BY DEF Sub
<1>3. ASSUME BothSmall(n, m), ~overflow PROVE r = a - b /\ r \in Int64
  <2>1. a \in Int64 /\ b \in Int64
    BY <1>3, BigNumsAre DEF BothSmall
  <2> HIDE DEF a, b
  <2>2. -Half <= a /\ a < Half /\ -Half <= b /\ b < Half /\ Half \in Nat
    BY <2>1, Int64Is, HalfIs
  <2>3. r \in {a - b, a - b + 2 * Half, a - b - 2 * Half} /\ r \in Int64
    BY <1>1, <2>2, WrapOfSum
  <2>4. -Half <= r /\ r < Half /\ r \in Int
    BY <2>3, Int64Is
  <2> HIDE DEF r
  <2> QED BY <1>1, <1>3, <2>2, <2>3, <2>4
<1> HIDE DEF overflow, r
<1> QED BY <1>1, <1>2, <1>3, BigNumsAre DEF Exact

\* The truncated quotient: what is left has the dividend's sign and is
\* smaller than the divisor.
LEMMA QuoIs ==
  ASSUME NEW a \in Int, NEW b \in Int, b # 0
  PROVE  /\ Quo(a, b) \in Int /\ Rem(a, b) \in Int
         /\ a = b * Quo(a, b) + Rem(a, b)
         /\ Magnitude(Rem(a, b)) < Magnitude(b)
         /\ Rem(a, b) = 0 \/ (Rem(a, b) < 0) = (a < 0)
         /\ Magnitude(Quo(a, b)) <= Magnitude(a)
<1> DEFINE A == Magnitude(a)
           B == Magnitude(b)
           q == A \div B
           r == A % B
<1>1. A \in Nat /\ B \in Nat \ {0} /\ A = (IF a < 0 THEN -a ELSE a) /\ B = (IF b < 0 THEN -b ELSE b)
  BY DEF Magnitude
<1> HIDE DEF A, B
<1>2. A = B * q + r /\ r \in 0 .. B - 1 /\ q \in Int
  <2>1. A \in Nat /\ B \in Nat \ {0}
    BY <1>1
  <2> QED BY ONLY <2>1
<1>3. q >= 0 /\ q <= A
  BY <1>1, <1>2
<1>4. Quo(a, b) = IF (a < 0) = (b < 0) THEN q ELSE -q
  BY DEF Quo, A, B
<1> HIDE DEF q, r
<1>5. Quo(a, b) \in Int /\ Magnitude(Quo(a, b)) <= A
  BY <1>2, <1>3, <1>4 DEF Magnitude
<1>6. Rem(a, b) = IF a < 0 THEN -r ELSE r
  <2>1. Rem(a, b) = a - b * Quo(a, b)
    BY DEF Rem
  <2>2. CASE a < 0 /\ b < 0
    BY <1>1, <1>2, <1>4, <2>1, <2>2
  <2>3. CASE a < 0 /\ ~(b < 0)
    BY <1>1, <1>2, <1>4, <2>1, <2>3
  <2>4. CASE ~(a < 0) /\ b < 0
    BY <1>1, <1>2, <1>4, <2>1, <2>4
  <2>5. CASE ~(a < 0) /\ ~(b < 0)
    BY <1>1, <1>2, <1>4, <2>1, <2>5
  <2> QED BY <2>2, <2>3, <2>4, <2>5
<1>7. a = b * Quo(a, b) + Rem(a, b)
  BY <1>5 DEF Rem
<1>8. Rem(a, b) \in Int /\ Magnitude(Rem(a, b)) = r /\ (Rem(a, b) = 0 \/ (Rem(a, b) < 0) = (a < 0))
  BY <1>2, <1>6 DEF Magnitude
<1>9. Magnitude(Rem(a, b)) < Magnitude(b)
  BY <1>1, <1>2, <1>8 DEF B
<1>10. Magnitude(Quo(a, b)) <= Magnitude(a)
  BY <1>5 DEF A
<1> HIDE DEF A, B
<1> QED BY <1>5, <1>7, <1>8, <1>9, <1>10

\* The one int64 quotient that is not an int64.
LEMMA QuoOverflow ==
  ASSUME NEW r \in Int64, NEW a \in Int64, a # 0, Quo(r, a) \notin Int64
  PROVE  Quo(r, a) = Half /\ r = -Half /\ a = -1
<1> DEFINE Q == Quo(r, a)
           R == Rem(r, a)
<1>1. /\ -Half <= a /\ a < Half /\ -Half <= r /\ r < Half /\ a \in Int /\ r \in Int
      /\ Half \in Nat /\ Half > 1
  BY Int64Is, HalfIs
<1>2. /\ Q \in Int /\ R \in Int /\ r = a * Q + R /\ Magnitude(R) < Magnitude(a)
      /\ Magnitude(Q) <= Magnitude(r)
  BY <1>1, QuoIs
<1>3. ~(-Half <= Q /\ Q < Half)
  BY <1>2, Int64Is
<1> HIDE DEF Q, R
<1>4. Q = Half /\ r = -Half
  BY <1>1, <1>2, <1>3 DEF Magnitude
<1>5. a = -1
  <2>1. a * Half + R = -Half /\ Magnitude(R) < Magnitude(a)
    BY <1>2, <1>4
  <2>2. CASE a > 0
    BY <1>1, <1>2, <2>1, <2>2 DEF Magnitude
  <2>3. CASE a < -1
    <3>1. a * Half <= -2 * Half
      BY <1>1, <2>3
    <3>2. R < -a /\ -a <= Half
      BY <1>1, <1>2, <2>1, <2>3 DEF Magnitude
    <3>3. a * Half + R < -2 * Half + Half
      BY <1>1, <1>2, <3>1, <3>2
    <3> QED BY <1>1, <2>1, <3>3
  <2> QED BY <1>1, <2>2, <2>3
<1> QED BY <1>4, <1>5 DEF Q

\* The product divided back: when the quotient is the second factor again, the
\* product did not wrap.
LEMMA MulExact ==
  ASSUME NEW n \in BigNums, NEW m \in BigNums
  PROVE  Exact(Mul(n, m), n.val * m.val)
<1> DEFINE a == n.val
           b == m.val
           r == Wrap(a * b)
           fits == /\ BothSmall(n, m)
                   /\ a # -1 \/ b # MinInt64
                   /\ Wrap(Quo(r, a)) = b
<1>1. a \in Int /\ b \in Int /\ a * b \in Int
  BY BigNumsAre
<1>2. CASE BothSmall(n, m) /\ (a = 0 \/ b = 0)
  <2>1. Mul(n, m) = Small(0) /\ a * b = 0
    BY <1>1, <1>2 DEF Mul
  <2>2. 0 \in Int64
    BY Int64Is, HalfIs
  <2> QED BY <2>1, <2>2, BigNumsAre DEF Exact
<1>3. CASE ~(BothSmall(n, m) /\ (a = 0 \/ b = 0))
  <2>1. Mul(n, m) = IF fits THEN Small(r) ELSE Big(a * b)
    BY <1>3 DEF Mul
  <2>2. ASSUME fits PROVE r = a * b /\ r \in Int64
    <3>1. a \in Int64 /\ b \in Int64 /\ a # 0 /\ b # 0
      BY <1>3, <2>2, BigNumsAre DEF BothSmall
    <3>2. r \in Int64 /\ r \in Int
      BY <1>1, WrapIs
    <3>3. PICK k \in Int : a * b = r + k * (2 * Half)
      BY <1>1, WrapIs
    <3> DEFINE Q == Quo(r, a)
               R == Rem(r, a)
    <3> HIDE DEF a, b, r
    <3>4. /\ Q \in Int /\ R \in Int /\ r = a * Q + R /\ Magnitude(R) < Magnitude(a)
          /\ Magnitude(Q) <= Magnitude(r)
      BY <3>1, <3>2, <1>1, QuoIs
    <3>5. /\ -Half <= a /\ a < Half /\ -Half <= b /\ b < Half /\ -Half <= r /\ r < Half
          /\ Half \in Nat /\ Half > 1
      BY <3>1, <3>2, Int64Is, HalfIs
    <3>6. Wrap(Q) = b /\ (a # -1 \/ b # -Half)
      BY <2>2 DEF MinInt64
    <3> HIDE DEF Q, R
    <3>7. CASE Q \in Int64
      <4>1. Q = b
        BY <3>4, <3>6, <3>7, WrapIs
      <4> DEFINE X == a * b
                 Y == k * (2 * Half)
      <4>21. X \in Int /\ Y \in Int /\ X = r + Y /\ r = X + R
        BY <1>1, <3>2, <3>3, <3>4, <3>5, <4>1
      <4> HIDE DEF X, Y
      <4>22. Y = -R
        BY <3>2, <3>4, <4>21
      <4>2. k * (2 * Half) = -R
        BY <4>22 DEF Y
      <4>3. Magnitude(R) < 2 * Half
        BY <1>1, <3>4, <3>5 DEF Magnitude
      <4>4. k = 0
        <5>1. -(2 * Half) < R /\ R < 2 * Half
          BY <3>4, <3>5, <4>3 DEF Magnitude
        <5> QED BY <3>3, <3>4, <3>5, <4>2, <5>1
      <4>5. r = a * b
        BY <3>2, <3>3, <3>5, <4>4
      <4> QED BY <3>2, <4>5
    <3>8. CASE Q \notin Int64
      <4>1. Q = Half /\ r = -Half /\ a = -1
        BY <1>1, <3>1, <3>2, <3>8, QuoOverflow DEF Q
      <4>3. Wrap(Q) = -Half
        <5>1. Half \in Int /\ -2 * Half <= Half /\ Half < 2 * Half
          BY <3>5
        <5>2. Wrap(Half) \in {Half, Half + 2 * Half, Half - 2 * Half} /\ Wrap(Half) \in Int64
          BY <5>1, WrapOfSum
        <5>3. -Half <= Wrap(Half) /\ Wrap(Half) < Half
          BY <5>2, Int64Is
        <5> QED BY <3>5, <4>1, <5>2, <5>3
      <4> QED BY <3>6, <4>1, <4>3
    <3> QED BY <3>7, <3>8
  <2> HIDE DEF fits, r
  <2> QED BY <1>1, <2>1, <2>2, BigNumsAre DEF Exact
<1> QED BY <1>2, <1>3

LEMMA NegateExact ==
  ASSUME NEW n \in BigNums
  PROVE  Exact(Negate(n), -n.val) /\ Exact(AbsValue(n), Magnitude(n.val))
<1> DEFINE a == n.val
<1>1. a \in Int /\ (~n.useBig => a \in Int64) /\ Half \in Nat
  BY BigNumsAre, HalfIs
<1>2. ~n.useBig /\ a # MinInt64 => -a \in Int64
  BY <1>1, Int64Is DEF MinInt64
<1>3. -a \in Int /\ Magnitude(a) \in Int
  BY <1>1, MagnitudeType
<1>4. Exact(Negate(n), -a)
  BY <1>2, <1>3, BigNumsAre DEF Negate, Exact
<1>5. Exact(AbsValue(n), Magnitude(a))
  <2>1. CASE ~n.useBig /\ a >= 0
    BY <1>1, <2>1 DEF AbsValue, Exact, Magnitude
  <2>2. CASE ~n.useBig /\ ~(a >= 0) /\ a # MinInt64
    <3>1. AbsValue(n) = Small(-a) /\ Magnitude(a) = -a
      BY <1>1, <2>2 DEF AbsValue, Magnitude
    <3> QED BY <1>2, <2>2, <3>1, BigNumsAre DEF Exact
  <2>3. CASE n.useBig \/ (~(a >= 0) /\ a = MinInt64)
    <3>1. AbsValue(n) = Big(Magnitude(a))
      BY <2>3 DEF AbsValue
    <3> QED BY <1>3, <3>1, BigNumsAre DEF Exact
  <2> QED BY <2>1, <2>2, <2>3
<1> QED BY <1>4, <1>5

\* The methods on the fast path are exact at every pair of int64 values.
LEMMA FastPathExact ==
  ASSUME NEW x \in Int64, NEW y \in Int64
  PROVE  ExactAt(x, y)
<1>1. Small(x) \in BigNums /\ Small(x).val = x /\ Small(y) \in BigNums /\ Small(y).val = y
  BY BigNumsAre
<1>2. ASSUME NEW r, NEW v, Exact(r, v) PROVE Holds(r, v)
  BY <1>2, BigNumsAre DEF Exact, Holds, Int64
<1>3. Holds(Add(Small(x), Small(y)), x + y)
  BY <1>1, <1>2, AddExact
<1>4. Holds(Sub(Small(x), Small(y)), x - y)
  BY <1>1, <1>2, SubExact
<1>5. Holds(Mul(Small(x), Small(y)), x * y)
  BY <1>1, <1>2, MulExact
<1>6. Holds(Negate(Small(x)), -x) /\ Holds(AbsValue(Small(x)), Magnitude(x))
  BY <1>1, <1>2, NegateExact
<1> QED BY <1>3, <1>4, <1>5, <1>6 DEF ExactAt

\* Quo is the quotient toward zero.
LEMMA TruncatedIs ==
  ASSUME NEW x \in Int, NEW y \in Int, y # 0
  PROVE  Truncated(x, y) = Quo(x, y)
<1> DEFINE P(q) == LET r == x - q * y IN Magnitude(r) < Magnitude(y) /\ (r = 0 \/ (r < 0) = (x < 0))
           S == -Magnitude(x) .. Magnitude(x)
           Q == Quo(x, y)
<1>1. /\ Q \in Int /\ Rem(x, y) \in Int /\ x = y * Q + Rem(x, y)
      /\ Magnitude(Rem(x, y)) < Magnitude(y)
      /\ Rem(x, y) = 0 \/ (Rem(x, y) < 0) = (x < 0)
      /\ Magnitude(Q) <= Magnitude(x)
  BY QuoIs
<1>2. Q \in S
  <2>1. Magnitude(x) \in Nat /\ Magnitude(Q) \in Nat
    BY <1>1, MagnitudeType
  <2> HIDE DEF Q
  <2> QED BY <1>1, <2>1 DEF Magnitude
<1> HIDE DEF Q
<1>3. P(Q)
  <2>1. Rem(x, y) = x - Q * y
    BY <1>1
  <2> QED BY <1>1, <2>1
<1>4. ASSUME NEW q \in S, P(q) PROVE q = Q
  <2> DEFINE r == x - q * y
             R == x - Q * y
             d == q - Q
  <2>1. q \in Int /\ r \in Int /\ R \in Int /\ d \in Int
    BY <1>1, MagnitudeType
  <2>2. /\ Magnitude(r) < Magnitude(y) /\ (r = 0 \/ (r < 0) = (x < 0))
        /\ Magnitude(R) < Magnitude(y) /\ (R = 0 \/ (R < 0) = (x < 0))
    BY <1>3, <1>4
  <2>3. R - r = d * y
    BY <1>1, <2>1
  <2> HIDE DEF r, R, d
  <2>4. Magnitude(R - r) < Magnitude(y)
    BY <2>1, <2>2 DEF Magnitude
  <2>5. d = 0
    <3>1. CASE y > 0
      BY <2>1, <2>3, <2>4, <3>1 DEF Magnitude
    <3>2. CASE y < 0
      BY <2>1, <2>3, <2>4, <3>2 DEF Magnitude
    <3> QED BY <3>1, <3>2
  <2> QED BY <1>1, <2>1, <2>5 DEF d
<1>5. Truncated(x, y) = CHOOSE q \in S : P(q)
  BY DEF Truncated
<1> HIDE DEF P, S
<1>6. (CHOOSE q \in S : P(q)) = Q
  BY <1>2, <1>3, <1>4
<1> QED BY <1>5, <1>6 DEF Q

LEMMA DivExact ==
  ASSUME NEW n \in BigNums, NEW m \in BigNums, m.val # 0
  PROVE  /\ \E r : Div(n, m) = {r} /\ Exact(r, Quo(n.val, m.val))
         /\ \E r : Mod(n, m) = {r} /\ Exact(r, Rem(n.val, m.val))
<1> DEFINE a == n.val
           b == m.val
           Q == Quo(a, b)
           R == Rem(a, b)
<1>1. a \in Int /\ b \in Int /\ Q \in Int /\ R \in Int /\ Magnitude(R) < Magnitude(b)
  BY BigNumsAre, QuoIs
<1>2. ASSUME FitsQuotient(n, m) PROVE Q \in Int64 /\ R \in Int64
  <2>1. a \in Int64 /\ b \in Int64 /\ (a # -Half \/ b # -1)
    BY <1>2, BigNumsAre DEF FitsQuotient, BothSmall, MinInt64
  <2>2. Q \in Int64
    BY <2>1, QuoOverflow
  <2> HIDE DEF a, b, R, Q
  <2>3. -Half <= b /\ b < Half /\ Half \in Nat
    BY <2>1, Int64Is, HalfIs
  <2>4. -Half <= R /\ R < Half
    BY <1>1, <2>3 DEF Magnitude
  <2> QED BY <1>1, <2>2, <2>4, Int64Is
<1>3. Div(n, m) = (IF FitsQuotient(n, m) THEN {Small(Q)} ELSE {Big(Q)})
  BY DEF Div
<1>4. Mod(n, m) = (IF FitsQuotient(n, m) THEN {Small(R)} ELSE {Big(R)})
  BY DEF Mod
<1> HIDE DEF Q, R
<1>5. FitsQuotient(n, m) => Exact(Small(Q), Q) /\ Exact(Small(R), R)
  BY <1>2, BigNumsAre DEF Exact
<1>6. Exact(Big(Q), Q) /\ Exact(Big(R), R)
  BY <1>1, BigNumsAre DEF Exact
<1> QED BY <1>3, <1>4, <1>5, <1>6 DEF Q, R

\* What the numeric opcodes read: an element that is a number, and its value.
LEMMA BigNumRead ==
  ASSUME NEW e \in Element
  PROVE  /\ ~Numeric(e) => BigNumFromBytes(e) = {}
         /\ Numeric(e) => \E n : BigNumFromBytes(e) = {n} /\ Exact(n, Decode(e))
<1>1. Decode(e) \in Int /\ Len(e) \in Nat
  BY DecodeType, ElementLen
<1>2. ASSUME Len(e) <= int64ByteCap PROVE Decode(e) \in Int64
  <2>1. CASE Len(e) = 0
    BY <2>1, DecodeType, Int64Is, HalfIs
  <2>2. CASE Len(e) > 0
    <3>1. Magnitude(Decode(e)) < SignBit * Weight(Len(e) - 1)
      BY <2>2, DecodeType
    <3>2. Len(e) - 1 \in Nat /\ int64ByteCap - 1 \in Nat /\ Len(e) - 1 <= int64ByteCap - 1
      BY <1>1, <1>2, <2>2, WidthAssumption
    <3>3. Weight(Len(e) - 1) <= Weight(int64ByteCap - 1)
      BY <3>2, WeightMonotone
    <3>4. Weight(Len(e) - 1) \in Nat /\ Weight(int64ByteCap - 1) \in Nat
      BY <3>2, WeightType
    <3>5. SignBit * Weight(Len(e) - 1) <= Half
      BY <3>3, <3>4, Widths, HalfIs
    <3>6. Magnitude(Decode(e)) < Half
      BY <1>1, <3>1, <3>4, <3>5, Widths, HalfIs, MagnitudeType
    <3> QED BY <1>1, <3>6, Int64Is, HalfIs DEF Magnitude
  <2> QED BY <1>1, <2>1, <2>2
<1>3. ~Numeric(e) => BigNumFromBytes(e) = {}
  BY <1>1, WidthAssumption DEF Numeric, BigNumFromBytes
<1>4. Numeric(e) => BigNumFromBytes(e) = IF Len(e) <= int64ByteCap THEN {Small(Decode(e))} ELSE {Big(Decode(e))}
  BY <1>1, WidthAssumption DEF Numeric, BigNumFromBytes
<1>5. Len(e) <= int64ByteCap => Exact(Small(Decode(e)), Decode(e))
  BY <1>2, BigNumsAre DEF Exact
<1>6. Exact(Big(Decode(e)), Decode(e))
  BY <1>1, BigNumsAre DEF Exact
<1> QED BY <1>3, <1>4, <1>5, <1>6

\* What they write.
LEMMA BigNumWrite ==
  ASSUME NEW n \in BigNums
  PROVE  /\ BigNumBytes(n) = IF Representable(n.val) THEN {Encode(n.val)} ELSE {}
         /\ Encode(n.val) \in Element
         /\ Representable(n.val) <=> Len(Encode(n.val)) <= maxBigNumLen
<1>1. n.val \in Int
  BY BigNumsAre
<1>2. maxBigNumLen \in Nat /\ maxBigNumLen > 0 /\ maxBigNumLen - 1 \in Nat
  BY WidthAssumption
<1>3. Weight(maxBigNumLen - 1) \in Nat \ {0}
  BY <1>2, WeightType
<1>4. 0 < SignBit * Weight(maxBigNumLen - 1)
  BY <1>3, Widths
<1>5. n.val = 0 => Representable(n.val)
  BY <1>4 DEF Representable, Magnitude
<1>6. Representable(n.val) <=> Len(Encode(n.val)) <= maxBigNumLen
  BY <1>1, <1>2, <1>5, EncodeType DEF Representable
<1> QED BY <1>1, <1>6, EncodeType DEF BigNumBytes

LEMMA PushNumsAre ==
  ASSUME NEW N \in SUBSET BigNums
  PROVE  PushNums(N) = {<<Encode(v)>> : v \in {w \in {n.val : n \in N} : Representable(w)}}
<1>1. UNION {BigNumBytes(n) : n \in N} = {Encode(v) : v \in {w \in {n.val : n \in N} : Representable(w)}}
  BY BigNumWrite
<1> QED BY <1>1 DEF PushNums

-----------------------------------------------------------------------------
(***************************************************************************)
(* The opcode table.                                                       *)
(***************************************************************************)
LEMMA SmallIntOpsAre ==
  SmallIntOps \subseteq {"OP_1", "OP_2", "OP_3", "OP_4", "OP_5", "OP_6", "OP_7", "OP_8", "OP_9", "OP_10",
                         "OP_11", "OP_12", "OP_13", "OP_14", "OP_15", "OP_16"}
<1> SUFFICES ASSUME NEW n \in 1 .. SmallIntMax
             PROVE  SmallIntOp[n] \in
                      {"OP_1", "OP_2", "OP_3", "OP_4", "OP_5", "OP_6", "OP_7", "OP_8", "OP_9", "OP_10",
                       "OP_11", "OP_12", "OP_13", "OP_14", "OP_15", "OP_16"}
  BY DEF SmallIntOps
<1>1. n \in 1 .. 16
  BY WidthAssumption
<1>2. n = 1 \/ n = 2 \/ n = 3 \/ n = 4 \/ n = 5 \/ n = 6 \/ n = 7 \/ n = 8 \/ n = 9 \/ n = 10
      \/ n = 11 \/ n = 12 \/ n = 13 \/ n = 14 \/ n = 15 \/ n = 16
  BY <1>1
<1> QED BY <1>2 DEF SmallIntOp

\* The groups of the opcode table are disjoint: each has one number, and the
\* arms of OpcodeEffect do not overlap.
LEMMA PushDispatch ==
  ASSUME NEW op \in PushOps, NEW i, NEW data, NEW s
  PROVE  OpcodeEffect(i, op, data, s) = PushOpcode(op, data, s)
<1>2. /\ op \notin {"OP_NOP"} /\ op \notin FailingOps /\ op \notin VerifyOps /\ op \notin LockTimeOps /\ op \notin NumericOps
      /\ op \notin {"OP_NUM2BIN", "OP_BIN2NUM"} /\ op \notin StackOps /\ op \notin SpliceOps /\ op \notin BitwiseOps /\ op \notin HashOps
      /\ op \notin StreamOps /\ op \notin SignatureOps /\ op \notin CurveOps /\ op \notin InputOps /\ op \notin TxOps
      /\ op \notin PacketOps /\ op \notin AssetOps
  BY SmallIntOpsAre DEF PushOps, FailingOps, VerifyOps, LockTimeOps, NumericOps, UnaryNumericOps, BinaryNumericOps,
     ShiftOps, ComparisonOps, TernaryNumericOps, StackOps, SpliceOps, BitwiseOps, HashOps, StreamOps, SignatureOps,
     CurveOps, InputOps, TxOps, PacketOps, AssetOps, GroupOpcodes, InputSideOpcodes, OutputSideOpcodes
<1> QED BY <1>2 DEF OpcodeEffect

LEMMA NopDispatch ==
  ASSUME NEW op \in {"OP_NOP"}, NEW i, NEW data, NEW s
  PROVE  OpcodeEffect(i, op, data, s) = {s}
<1>1. op \notin SmallIntOps
  BY SmallIntOpsAre DEF PushOps, FailingOps, VerifyOps, LockTimeOps, NumericOps, UnaryNumericOps, BinaryNumericOps,
     ShiftOps, ComparisonOps, TernaryNumericOps, StackOps, SpliceOps, BitwiseOps, HashOps, StreamOps, SignatureOps,
     CurveOps, InputOps, TxOps, PacketOps, AssetOps, GroupOpcodes, InputSideOpcodes, OutputSideOpcodes
<1>2. /\ op \notin PushOps /\ op \notin FailingOps /\ op \notin VerifyOps /\ op \notin LockTimeOps /\ op \notin NumericOps
      /\ op \notin {"OP_NUM2BIN", "OP_BIN2NUM"} /\ op \notin StackOps /\ op \notin SpliceOps /\ op \notin BitwiseOps /\ op \notin HashOps
      /\ op \notin StreamOps /\ op \notin SignatureOps /\ op \notin CurveOps /\ op \notin InputOps /\ op \notin TxOps
      /\ op \notin PacketOps /\ op \notin AssetOps
  BY <1>1 DEF PushOps, FailingOps, VerifyOps, LockTimeOps, NumericOps, UnaryNumericOps, BinaryNumericOps,
     ShiftOps, ComparisonOps, TernaryNumericOps, StackOps, SpliceOps, BitwiseOps, HashOps, StreamOps, SignatureOps,
     CurveOps, InputOps, TxOps, PacketOps, AssetOps, GroupOpcodes, InputSideOpcodes, OutputSideOpcodes
<1> QED BY <1>2 DEF OpcodeEffect

LEMMA FailingDispatch ==
  ASSUME NEW op \in FailingOps, NEW i, NEW data, NEW s
  PROVE  OpcodeEffect(i, op, data, s) = {}
<1>1. op \notin SmallIntOps
  BY SmallIntOpsAre DEF PushOps, FailingOps, VerifyOps, LockTimeOps, NumericOps, UnaryNumericOps, BinaryNumericOps,
     ShiftOps, ComparisonOps, TernaryNumericOps, StackOps, SpliceOps, BitwiseOps, HashOps, StreamOps, SignatureOps,
     CurveOps, InputOps, TxOps, PacketOps, AssetOps, GroupOpcodes, InputSideOpcodes, OutputSideOpcodes
<1>2. /\ op \notin PushOps /\ op \notin {"OP_NOP"} /\ op \notin VerifyOps /\ op \notin LockTimeOps /\ op \notin NumericOps
      /\ op \notin {"OP_NUM2BIN", "OP_BIN2NUM"} /\ op \notin StackOps /\ op \notin SpliceOps /\ op \notin BitwiseOps /\ op \notin HashOps
      /\ op \notin StreamOps /\ op \notin SignatureOps /\ op \notin CurveOps /\ op \notin InputOps /\ op \notin TxOps
      /\ op \notin PacketOps /\ op \notin AssetOps
  BY <1>1 DEF PushOps, FailingOps, VerifyOps, LockTimeOps, NumericOps, UnaryNumericOps, BinaryNumericOps,
     ShiftOps, ComparisonOps, TernaryNumericOps, StackOps, SpliceOps, BitwiseOps, HashOps, StreamOps, SignatureOps,
     CurveOps, InputOps, TxOps, PacketOps, AssetOps, GroupOpcodes, InputSideOpcodes, OutputSideOpcodes
<1> QED BY <1>2 DEF OpcodeEffect

LEMMA VerifyDispatch ==
  ASSUME NEW op \in VerifyOps, NEW i, NEW data, NEW s
  PROVE  OpcodeEffect(i, op, data, s) = VerifyOpcode(op, s)
<1>1. op \notin SmallIntOps
  BY SmallIntOpsAre DEF PushOps, FailingOps, VerifyOps, LockTimeOps, NumericOps, UnaryNumericOps, BinaryNumericOps,
     ShiftOps, ComparisonOps, TernaryNumericOps, StackOps, SpliceOps, BitwiseOps, HashOps, StreamOps, SignatureOps,
     CurveOps, InputOps, TxOps, PacketOps, AssetOps, GroupOpcodes, InputSideOpcodes, OutputSideOpcodes
<1>2. /\ op \notin PushOps /\ op \notin {"OP_NOP"} /\ op \notin FailingOps /\ op \notin LockTimeOps /\ op \notin NumericOps
      /\ op \notin {"OP_NUM2BIN", "OP_BIN2NUM"} /\ op \notin StackOps /\ op \notin SpliceOps /\ op \notin BitwiseOps /\ op \notin HashOps
      /\ op \notin StreamOps /\ op \notin SignatureOps /\ op \notin CurveOps /\ op \notin InputOps /\ op \notin TxOps
      /\ op \notin PacketOps /\ op \notin AssetOps
  BY <1>1 DEF PushOps, FailingOps, VerifyOps, LockTimeOps, NumericOps, UnaryNumericOps, BinaryNumericOps,
     ShiftOps, ComparisonOps, TernaryNumericOps, StackOps, SpliceOps, BitwiseOps, HashOps, StreamOps, SignatureOps,
     CurveOps, InputOps, TxOps, PacketOps, AssetOps, GroupOpcodes, InputSideOpcodes, OutputSideOpcodes
<1> QED BY <1>2 DEF OpcodeEffect

LEMMA LockTimeDispatch ==
  ASSUME NEW op \in LockTimeOps, NEW i, NEW data, NEW s
  PROVE  OpcodeEffect(i, op, data, s) = LockTimeVerify(i, op, s)
<1>1. op \notin SmallIntOps
  BY SmallIntOpsAre DEF PushOps, FailingOps, VerifyOps, LockTimeOps, NumericOps, UnaryNumericOps, BinaryNumericOps,
     ShiftOps, ComparisonOps, TernaryNumericOps, StackOps, SpliceOps, BitwiseOps, HashOps, StreamOps, SignatureOps,
     CurveOps, InputOps, TxOps, PacketOps, AssetOps, GroupOpcodes, InputSideOpcodes, OutputSideOpcodes
<1>2. /\ op \notin PushOps /\ op \notin {"OP_NOP"} /\ op \notin FailingOps /\ op \notin VerifyOps /\ op \notin NumericOps
      /\ op \notin {"OP_NUM2BIN", "OP_BIN2NUM"} /\ op \notin StackOps /\ op \notin SpliceOps /\ op \notin BitwiseOps /\ op \notin HashOps
      /\ op \notin StreamOps /\ op \notin SignatureOps /\ op \notin CurveOps /\ op \notin InputOps /\ op \notin TxOps
      /\ op \notin PacketOps /\ op \notin AssetOps
  BY <1>1 DEF PushOps, FailingOps, VerifyOps, LockTimeOps, NumericOps, UnaryNumericOps, BinaryNumericOps,
     ShiftOps, ComparisonOps, TernaryNumericOps, StackOps, SpliceOps, BitwiseOps, HashOps, StreamOps, SignatureOps,
     CurveOps, InputOps, TxOps, PacketOps, AssetOps, GroupOpcodes, InputSideOpcodes, OutputSideOpcodes
<1> QED BY <1>2 DEF OpcodeEffect

LEMMA NumericDispatch ==
  ASSUME NEW op \in NumericOps, NEW i, NEW data, NEW s
  PROVE  OpcodeEffect(i, op, data, s) = NumericOpcode(op, s)
<1>1. op \notin SmallIntOps
  BY SmallIntOpsAre DEF PushOps, FailingOps, VerifyOps, LockTimeOps, NumericOps, UnaryNumericOps, BinaryNumericOps,
     ShiftOps, ComparisonOps, TernaryNumericOps, StackOps, SpliceOps, BitwiseOps, HashOps, StreamOps, SignatureOps,
     CurveOps, InputOps, TxOps, PacketOps, AssetOps, GroupOpcodes, InputSideOpcodes, OutputSideOpcodes
<1>2. /\ op \notin PushOps /\ op \notin {"OP_NOP"} /\ op \notin FailingOps /\ op \notin VerifyOps /\ op \notin LockTimeOps
      /\ op \notin {"OP_NUM2BIN", "OP_BIN2NUM"} /\ op \notin StackOps /\ op \notin SpliceOps /\ op \notin BitwiseOps /\ op \notin HashOps
      /\ op \notin StreamOps /\ op \notin SignatureOps /\ op \notin CurveOps /\ op \notin InputOps /\ op \notin TxOps
      /\ op \notin PacketOps /\ op \notin AssetOps
  BY <1>1 DEF PushOps, FailingOps, VerifyOps, LockTimeOps, NumericOps, UnaryNumericOps, BinaryNumericOps,
     ShiftOps, ComparisonOps, TernaryNumericOps, StackOps, SpliceOps, BitwiseOps, HashOps, StreamOps, SignatureOps,
     CurveOps, InputOps, TxOps, PacketOps, AssetOps, GroupOpcodes, InputSideOpcodes, OutputSideOpcodes
<1> QED BY <1>2 DEF OpcodeEffect

LEMMA ConversionDispatch ==
  ASSUME NEW op \in {"OP_NUM2BIN", "OP_BIN2NUM"}, NEW i, NEW data, NEW s
  PROVE  OpcodeEffect(i, op, data, s) = NumConversion(op, s)
<1>1. op \notin SmallIntOps
  BY SmallIntOpsAre DEF PushOps, FailingOps, VerifyOps, LockTimeOps, NumericOps, UnaryNumericOps, BinaryNumericOps,
     ShiftOps, ComparisonOps, TernaryNumericOps, StackOps, SpliceOps, BitwiseOps, HashOps, StreamOps, SignatureOps,
     CurveOps, InputOps, TxOps, PacketOps, AssetOps, GroupOpcodes, InputSideOpcodes, OutputSideOpcodes
<1>2. /\ op \notin PushOps /\ op \notin {"OP_NOP"} /\ op \notin FailingOps /\ op \notin VerifyOps /\ op \notin LockTimeOps
      /\ op \notin NumericOps /\ op \notin StackOps /\ op \notin SpliceOps /\ op \notin BitwiseOps /\ op \notin HashOps
      /\ op \notin StreamOps /\ op \notin SignatureOps /\ op \notin CurveOps /\ op \notin InputOps /\ op \notin TxOps
      /\ op \notin PacketOps /\ op \notin AssetOps
  BY <1>1 DEF PushOps, FailingOps, VerifyOps, LockTimeOps, NumericOps, UnaryNumericOps, BinaryNumericOps,
     ShiftOps, ComparisonOps, TernaryNumericOps, StackOps, SpliceOps, BitwiseOps, HashOps, StreamOps, SignatureOps,
     CurveOps, InputOps, TxOps, PacketOps, AssetOps, GroupOpcodes, InputSideOpcodes, OutputSideOpcodes
<1> QED BY <1>2 DEF OpcodeEffect

LEMMA StackDispatch ==
  ASSUME NEW op \in StackOps, NEW i, NEW data, NEW s
  PROVE  OpcodeEffect(i, op, data, s) = StackOpcode(op, s)
<1>1. op \notin SmallIntOps
  BY SmallIntOpsAre DEF PushOps, FailingOps, VerifyOps, LockTimeOps, NumericOps, UnaryNumericOps, BinaryNumericOps,
     ShiftOps, ComparisonOps, TernaryNumericOps, StackOps, SpliceOps, BitwiseOps, HashOps, StreamOps, SignatureOps,
     CurveOps, InputOps, TxOps, PacketOps, AssetOps, GroupOpcodes, InputSideOpcodes, OutputSideOpcodes
<1>2. /\ op \notin PushOps /\ op \notin {"OP_NOP"} /\ op \notin FailingOps /\ op \notin VerifyOps /\ op \notin LockTimeOps
      /\ op \notin NumericOps /\ op \notin {"OP_NUM2BIN", "OP_BIN2NUM"} /\ op \notin SpliceOps /\ op \notin BitwiseOps /\ op \notin HashOps
      /\ op \notin StreamOps /\ op \notin SignatureOps /\ op \notin CurveOps /\ op \notin InputOps /\ op \notin TxOps
      /\ op \notin PacketOps /\ op \notin AssetOps
  BY <1>1 DEF PushOps, FailingOps, VerifyOps, LockTimeOps, NumericOps, UnaryNumericOps, BinaryNumericOps,
     ShiftOps, ComparisonOps, TernaryNumericOps, StackOps, SpliceOps, BitwiseOps, HashOps, StreamOps, SignatureOps,
     CurveOps, InputOps, TxOps, PacketOps, AssetOps, GroupOpcodes, InputSideOpcodes, OutputSideOpcodes
<1> QED BY <1>2 DEF OpcodeEffect

LEMMA SpliceDispatch ==
  ASSUME NEW op \in SpliceOps, NEW i, NEW data, NEW s
  PROVE  OpcodeEffect(i, op, data, s) = SpliceOpcode(op, s)
<1>1. op \notin SmallIntOps
  BY SmallIntOpsAre DEF PushOps, FailingOps, VerifyOps, LockTimeOps, NumericOps, UnaryNumericOps, BinaryNumericOps,
     ShiftOps, ComparisonOps, TernaryNumericOps, StackOps, SpliceOps, BitwiseOps, HashOps, StreamOps, SignatureOps,
     CurveOps, InputOps, TxOps, PacketOps, AssetOps, GroupOpcodes, InputSideOpcodes, OutputSideOpcodes
<1>2. /\ op \notin PushOps /\ op \notin {"OP_NOP"} /\ op \notin FailingOps /\ op \notin VerifyOps /\ op \notin LockTimeOps
      /\ op \notin NumericOps /\ op \notin {"OP_NUM2BIN", "OP_BIN2NUM"} /\ op \notin StackOps /\ op \notin BitwiseOps /\ op \notin HashOps
      /\ op \notin StreamOps /\ op \notin SignatureOps /\ op \notin CurveOps /\ op \notin InputOps /\ op \notin TxOps
      /\ op \notin PacketOps /\ op \notin AssetOps
  BY <1>1 DEF PushOps, FailingOps, VerifyOps, LockTimeOps, NumericOps, UnaryNumericOps, BinaryNumericOps,
     ShiftOps, ComparisonOps, TernaryNumericOps, StackOps, SpliceOps, BitwiseOps, HashOps, StreamOps, SignatureOps,
     CurveOps, InputOps, TxOps, PacketOps, AssetOps, GroupOpcodes, InputSideOpcodes, OutputSideOpcodes
<1> QED BY <1>2 DEF OpcodeEffect

LEMMA BitwiseDispatch ==
  ASSUME NEW op \in BitwiseOps, NEW i, NEW data, NEW s
  PROVE  OpcodeEffect(i, op, data, s) = BitwiseOpcode(op, s)
<1>1. op \notin SmallIntOps
  BY SmallIntOpsAre DEF PushOps, FailingOps, VerifyOps, LockTimeOps, NumericOps, UnaryNumericOps, BinaryNumericOps,
     ShiftOps, ComparisonOps, TernaryNumericOps, StackOps, SpliceOps, BitwiseOps, HashOps, StreamOps, SignatureOps,
     CurveOps, InputOps, TxOps, PacketOps, AssetOps, GroupOpcodes, InputSideOpcodes, OutputSideOpcodes
<1>2. /\ op \notin PushOps /\ op \notin {"OP_NOP"} /\ op \notin FailingOps /\ op \notin VerifyOps /\ op \notin LockTimeOps
      /\ op \notin NumericOps /\ op \notin {"OP_NUM2BIN", "OP_BIN2NUM"} /\ op \notin StackOps /\ op \notin SpliceOps /\ op \notin HashOps
      /\ op \notin StreamOps /\ op \notin SignatureOps /\ op \notin CurveOps /\ op \notin InputOps /\ op \notin TxOps
      /\ op \notin PacketOps /\ op \notin AssetOps
  BY <1>1 DEF PushOps, FailingOps, VerifyOps, LockTimeOps, NumericOps, UnaryNumericOps, BinaryNumericOps,
     ShiftOps, ComparisonOps, TernaryNumericOps, StackOps, SpliceOps, BitwiseOps, HashOps, StreamOps, SignatureOps,
     CurveOps, InputOps, TxOps, PacketOps, AssetOps, GroupOpcodes, InputSideOpcodes, OutputSideOpcodes
<1> QED BY <1>2 DEF OpcodeEffect

LEMMA HashDispatch ==
  ASSUME NEW op \in HashOps, NEW i, NEW data, NEW s
  PROVE  OpcodeEffect(i, op, data, s) = HashOpcode(op, s)
<1>1. op \notin SmallIntOps
  BY SmallIntOpsAre DEF PushOps, FailingOps, VerifyOps, LockTimeOps, NumericOps, UnaryNumericOps, BinaryNumericOps,
     ShiftOps, ComparisonOps, TernaryNumericOps, StackOps, SpliceOps, BitwiseOps, HashOps, StreamOps, SignatureOps,
     CurveOps, InputOps, TxOps, PacketOps, AssetOps, GroupOpcodes, InputSideOpcodes, OutputSideOpcodes
<1>2. /\ op \notin PushOps /\ op \notin {"OP_NOP"} /\ op \notin FailingOps /\ op \notin VerifyOps /\ op \notin LockTimeOps
      /\ op \notin NumericOps /\ op \notin {"OP_NUM2BIN", "OP_BIN2NUM"} /\ op \notin StackOps /\ op \notin SpliceOps /\ op \notin BitwiseOps
      /\ op \notin StreamOps /\ op \notin SignatureOps /\ op \notin CurveOps /\ op \notin InputOps /\ op \notin TxOps
      /\ op \notin PacketOps /\ op \notin AssetOps
  BY <1>1 DEF PushOps, FailingOps, VerifyOps, LockTimeOps, NumericOps, UnaryNumericOps, BinaryNumericOps,
     ShiftOps, ComparisonOps, TernaryNumericOps, StackOps, SpliceOps, BitwiseOps, HashOps, StreamOps, SignatureOps,
     CurveOps, InputOps, TxOps, PacketOps, AssetOps, GroupOpcodes, InputSideOpcodes, OutputSideOpcodes
<1> QED BY <1>2 DEF OpcodeEffect

LEMMA StreamDispatch ==
  ASSUME NEW op \in StreamOps, NEW i, NEW data, NEW s
  PROVE  OpcodeEffect(i, op, data, s) = StreamOpcode(op, s)
<1>1. op \notin SmallIntOps
  BY SmallIntOpsAre DEF PushOps, FailingOps, VerifyOps, LockTimeOps, NumericOps, UnaryNumericOps, BinaryNumericOps,
     ShiftOps, ComparisonOps, TernaryNumericOps, StackOps, SpliceOps, BitwiseOps, HashOps, StreamOps, SignatureOps,
     CurveOps, InputOps, TxOps, PacketOps, AssetOps, GroupOpcodes, InputSideOpcodes, OutputSideOpcodes
<1>2. /\ op \notin PushOps /\ op \notin {"OP_NOP"} /\ op \notin FailingOps /\ op \notin VerifyOps /\ op \notin LockTimeOps
      /\ op \notin NumericOps /\ op \notin {"OP_NUM2BIN", "OP_BIN2NUM"} /\ op \notin StackOps /\ op \notin SpliceOps /\ op \notin BitwiseOps
      /\ op \notin HashOps /\ op \notin SignatureOps /\ op \notin CurveOps /\ op \notin InputOps /\ op \notin TxOps
      /\ op \notin PacketOps /\ op \notin AssetOps
  BY <1>1 DEF PushOps, FailingOps, VerifyOps, LockTimeOps, NumericOps, UnaryNumericOps, BinaryNumericOps,
     ShiftOps, ComparisonOps, TernaryNumericOps, StackOps, SpliceOps, BitwiseOps, HashOps, StreamOps, SignatureOps,
     CurveOps, InputOps, TxOps, PacketOps, AssetOps, GroupOpcodes, InputSideOpcodes, OutputSideOpcodes
<1> QED BY <1>2 DEF OpcodeEffect

LEMMA SignatureDispatch ==
  ASSUME NEW op \in SignatureOps, NEW i, NEW data, NEW s
  PROVE  OpcodeEffect(i, op, data, s) = SignatureOpcode(i, op, s)
<1>1. op \notin SmallIntOps
  BY SmallIntOpsAre DEF PushOps, FailingOps, VerifyOps, LockTimeOps, NumericOps, UnaryNumericOps, BinaryNumericOps,
     ShiftOps, ComparisonOps, TernaryNumericOps, StackOps, SpliceOps, BitwiseOps, HashOps, StreamOps, SignatureOps,
     CurveOps, InputOps, TxOps, PacketOps, AssetOps, GroupOpcodes, InputSideOpcodes, OutputSideOpcodes
<1>2. /\ op \notin PushOps /\ op \notin {"OP_NOP"} /\ op \notin FailingOps /\ op \notin VerifyOps /\ op \notin LockTimeOps
      /\ op \notin NumericOps /\ op \notin {"OP_NUM2BIN", "OP_BIN2NUM"} /\ op \notin StackOps /\ op \notin SpliceOps /\ op \notin BitwiseOps
      /\ op \notin HashOps /\ op \notin StreamOps /\ op \notin CurveOps /\ op \notin InputOps /\ op \notin TxOps
      /\ op \notin PacketOps /\ op \notin AssetOps
  BY <1>1 DEF PushOps, FailingOps, VerifyOps, LockTimeOps, NumericOps, UnaryNumericOps, BinaryNumericOps,
     ShiftOps, ComparisonOps, TernaryNumericOps, StackOps, SpliceOps, BitwiseOps, HashOps, StreamOps, SignatureOps,
     CurveOps, InputOps, TxOps, PacketOps, AssetOps, GroupOpcodes, InputSideOpcodes, OutputSideOpcodes
<1> QED BY <1>2 DEF OpcodeEffect

LEMMA CurveDispatch ==
  ASSUME NEW op \in CurveOps, NEW i, NEW data, NEW s
  PROVE  OpcodeEffect(i, op, data, s) = CurveOpcode(op, s)
<1>1. op \notin SmallIntOps
  BY SmallIntOpsAre DEF PushOps, FailingOps, VerifyOps, LockTimeOps, NumericOps, UnaryNumericOps, BinaryNumericOps,
     ShiftOps, ComparisonOps, TernaryNumericOps, StackOps, SpliceOps, BitwiseOps, HashOps, StreamOps, SignatureOps,
     CurveOps, InputOps, TxOps, PacketOps, AssetOps, GroupOpcodes, InputSideOpcodes, OutputSideOpcodes
<1>2. /\ op \notin PushOps /\ op \notin {"OP_NOP"} /\ op \notin FailingOps /\ op \notin VerifyOps /\ op \notin LockTimeOps
      /\ op \notin NumericOps /\ op \notin {"OP_NUM2BIN", "OP_BIN2NUM"} /\ op \notin StackOps /\ op \notin SpliceOps /\ op \notin BitwiseOps
      /\ op \notin HashOps /\ op \notin StreamOps /\ op \notin SignatureOps /\ op \notin InputOps /\ op \notin TxOps
      /\ op \notin PacketOps /\ op \notin AssetOps
  BY <1>1 DEF PushOps, FailingOps, VerifyOps, LockTimeOps, NumericOps, UnaryNumericOps, BinaryNumericOps,
     ShiftOps, ComparisonOps, TernaryNumericOps, StackOps, SpliceOps, BitwiseOps, HashOps, StreamOps, SignatureOps,
     CurveOps, InputOps, TxOps, PacketOps, AssetOps, GroupOpcodes, InputSideOpcodes, OutputSideOpcodes
<1> QED BY <1>2 DEF OpcodeEffect

LEMMA InputDispatch ==
  ASSUME NEW op \in InputOps, NEW i, NEW data, NEW s
  PROVE  OpcodeEffect(i, op, data, s) = InputOpcode(i, op, s)
<1>1. op \notin SmallIntOps
  BY SmallIntOpsAre DEF PushOps, FailingOps, VerifyOps, LockTimeOps, NumericOps, UnaryNumericOps, BinaryNumericOps,
     ShiftOps, ComparisonOps, TernaryNumericOps, StackOps, SpliceOps, BitwiseOps, HashOps, StreamOps, SignatureOps,
     CurveOps, InputOps, TxOps, PacketOps, AssetOps, GroupOpcodes, InputSideOpcodes, OutputSideOpcodes
<1>2. /\ op \notin PushOps /\ op \notin {"OP_NOP"} /\ op \notin FailingOps /\ op \notin VerifyOps /\ op \notin LockTimeOps
      /\ op \notin NumericOps /\ op \notin {"OP_NUM2BIN", "OP_BIN2NUM"} /\ op \notin StackOps /\ op \notin SpliceOps /\ op \notin BitwiseOps
      /\ op \notin HashOps /\ op \notin StreamOps /\ op \notin SignatureOps /\ op \notin CurveOps /\ op \notin TxOps
      /\ op \notin PacketOps /\ op \notin AssetOps
  BY <1>1 DEF PushOps, FailingOps, VerifyOps, LockTimeOps, NumericOps, UnaryNumericOps, BinaryNumericOps,
     ShiftOps, ComparisonOps, TernaryNumericOps, StackOps, SpliceOps, BitwiseOps, HashOps, StreamOps, SignatureOps,
     CurveOps, InputOps, TxOps, PacketOps, AssetOps, GroupOpcodes, InputSideOpcodes, OutputSideOpcodes
<1> QED BY <1>2 DEF OpcodeEffect

LEMMA TxDispatch ==
  ASSUME NEW op \in TxOps, NEW i, NEW data, NEW s
  PROVE  OpcodeEffect(i, op, data, s) = TxOpcode(op, s)
<1>1. op \notin SmallIntOps
  BY SmallIntOpsAre DEF PushOps, FailingOps, VerifyOps, LockTimeOps, NumericOps, UnaryNumericOps, BinaryNumericOps,
     ShiftOps, ComparisonOps, TernaryNumericOps, StackOps, SpliceOps, BitwiseOps, HashOps, StreamOps, SignatureOps,
     CurveOps, InputOps, TxOps, PacketOps, AssetOps, GroupOpcodes, InputSideOpcodes, OutputSideOpcodes
<1>2. /\ op \notin PushOps /\ op \notin {"OP_NOP"} /\ op \notin FailingOps /\ op \notin VerifyOps /\ op \notin LockTimeOps
      /\ op \notin NumericOps /\ op \notin {"OP_NUM2BIN", "OP_BIN2NUM"} /\ op \notin StackOps /\ op \notin SpliceOps /\ op \notin BitwiseOps
      /\ op \notin HashOps /\ op \notin StreamOps /\ op \notin SignatureOps /\ op \notin CurveOps /\ op \notin InputOps
      /\ op \notin PacketOps /\ op \notin AssetOps
  BY <1>1 DEF PushOps, FailingOps, VerifyOps, LockTimeOps, NumericOps, UnaryNumericOps, BinaryNumericOps,
     ShiftOps, ComparisonOps, TernaryNumericOps, StackOps, SpliceOps, BitwiseOps, HashOps, StreamOps, SignatureOps,
     CurveOps, InputOps, TxOps, PacketOps, AssetOps, GroupOpcodes, InputSideOpcodes, OutputSideOpcodes
<1> QED BY <1>2 DEF OpcodeEffect

LEMMA PacketDispatch ==
  ASSUME NEW op \in PacketOps, NEW i, NEW data, NEW s
  PROVE  OpcodeEffect(i, op, data, s) = PacketOpcode(op, s)
<1>1. op \notin SmallIntOps
  BY SmallIntOpsAre DEF PushOps, FailingOps, VerifyOps, LockTimeOps, NumericOps, UnaryNumericOps, BinaryNumericOps,
     ShiftOps, ComparisonOps, TernaryNumericOps, StackOps, SpliceOps, BitwiseOps, HashOps, StreamOps, SignatureOps,
     CurveOps, InputOps, TxOps, PacketOps, AssetOps, GroupOpcodes, InputSideOpcodes, OutputSideOpcodes
<1>2. /\ op \notin PushOps /\ op \notin {"OP_NOP"} /\ op \notin FailingOps /\ op \notin VerifyOps /\ op \notin LockTimeOps
      /\ op \notin NumericOps /\ op \notin {"OP_NUM2BIN", "OP_BIN2NUM"} /\ op \notin StackOps /\ op \notin SpliceOps /\ op \notin BitwiseOps
      /\ op \notin HashOps /\ op \notin StreamOps /\ op \notin SignatureOps /\ op \notin CurveOps /\ op \notin InputOps
      /\ op \notin TxOps /\ op \notin AssetOps
  BY <1>1 DEF PushOps, FailingOps, VerifyOps, LockTimeOps, NumericOps, UnaryNumericOps, BinaryNumericOps,
     ShiftOps, ComparisonOps, TernaryNumericOps, StackOps, SpliceOps, BitwiseOps, HashOps, StreamOps, SignatureOps,
     CurveOps, InputOps, TxOps, PacketOps, AssetOps, GroupOpcodes, InputSideOpcodes, OutputSideOpcodes
<1> QED BY <1>2 DEF OpcodeEffect

LEMMA AssetDispatch ==
  ASSUME NEW op \in AssetOps, NEW i, NEW data, NEW s
  PROVE  OpcodeEffect(i, op, data, s) = AssetOpcode(op, s)
<1>1. op \notin SmallIntOps
  BY SmallIntOpsAre DEF PushOps, FailingOps, VerifyOps, LockTimeOps, NumericOps, UnaryNumericOps, BinaryNumericOps,
     ShiftOps, ComparisonOps, TernaryNumericOps, StackOps, SpliceOps, BitwiseOps, HashOps, StreamOps, SignatureOps,
     CurveOps, InputOps, TxOps, PacketOps, AssetOps, GroupOpcodes, InputSideOpcodes, OutputSideOpcodes
<1>2. /\ op \notin PushOps /\ op \notin {"OP_NOP"} /\ op \notin FailingOps /\ op \notin VerifyOps /\ op \notin LockTimeOps
      /\ op \notin NumericOps /\ op \notin {"OP_NUM2BIN", "OP_BIN2NUM"} /\ op \notin StackOps /\ op \notin SpliceOps /\ op \notin BitwiseOps
      /\ op \notin HashOps /\ op \notin StreamOps /\ op \notin SignatureOps /\ op \notin CurveOps /\ op \notin InputOps
      /\ op \notin TxOps /\ op \notin PacketOps
  BY <1>1 DEF PushOps, FailingOps, VerifyOps, LockTimeOps, NumericOps, UnaryNumericOps, BinaryNumericOps,
     ShiftOps, ComparisonOps, TernaryNumericOps, StackOps, SpliceOps, BitwiseOps, HashOps, StreamOps, SignatureOps,
     CurveOps, InputOps, TxOps, PacketOps, AssetOps, GroupOpcodes, InputSideOpcodes, OutputSideOpcodes
<1> QED BY <1>2 DEF OpcodeEffect

\* What an opcode computes: BigNums that hold exactly the values V.
Computes(N, V) == N \in SUBSET BigNums /\ {r.val : r \in N} = V

LEMMA BoolIs ==
  ASSUME NEW b
  PROVE  Computes(Bool(b), BooleanValue(b))
<1>1. 0 \in Int64 /\ 1 \in Int64
  BY Int64Is, HalfIs
<1> QED BY <1>1, BigNumsAre DEF Bool, BooleanValue, Computes

LEMMA OneIs ==
  ASSUME NEW r, NEW v, Exact(r, v)
  PROVE  Computes({r}, {v})
BY DEF Exact, Computes

\* The unary opcodes compute on the integers.
LEMMA UnaryExact ==
  ASSUME NEW op \in UnaryNumericOps, NEW n \in BigNums
  PROVE  Computes(UnaryNumeric(op, n), UnaryValue(op, n.val))
<1>0. n.val \in Int /\ Small(1) \in BigNums /\ Small(1).val = 1 /\ Small(2) \in BigNums /\ Small(2).val = 2
  <2>1. 1 \in Int64
    BY Int64Is, HalfIs
  <2>2. 2 \in Int64
    <3>1. Weight(int64ByteCap - 1) \in Nat /\ Weight(int64ByteCap - 1) > 0
      BY WidthAssumption, WeightType
    <3>2. SignBit > 2 /\ SignBit \in Nat
      BY WidthAssumption, Widths
    <3>3. Half > 2
      BY <3>1, <3>2, HalfIs
    <3> QED BY <3>3, Int64Is, HalfIs
  <2> QED BY <2>1, <2>2, BigNumsAre
<1>1. CASE op = "OP_1ADD"
  <2>1. UnaryNumeric(op, n) = {Add(n, Small(1))} /\ UnaryValue(op, n.val) = {n.val + 1}
    BY <1>1 DEF UnaryNumeric, UnaryValue
  <2>2. Exact(Add(n, Small(1)), n.val + 1)
    BY <1>0, AddExact
  <2> QED BY <2>1, <2>2, OneIs
<1>2. CASE op = "OP_1SUB"
  <2>1. UnaryNumeric(op, n) = {Sub(n, Small(1))} /\ UnaryValue(op, n.val) = {n.val - 1}
    BY <1>2 DEF UnaryNumeric, UnaryValue
  <2>2. Exact(Sub(n, Small(1)), n.val - 1)
    BY <1>0, SubExact
  <2> QED BY <2>1, <2>2, OneIs
<1>3. CASE op = "OP_2MUL"
  <2>1. UnaryNumeric(op, n) = {Add(n, n)} /\ UnaryValue(op, n.val) = {2 * n.val}
    BY <1>3 DEF UnaryNumeric, UnaryValue
  <2>2. Exact(Add(n, n), 2 * n.val)
    <3>1. n.val + n.val = 2 * n.val
      BY <1>0
    <3> QED BY <3>1, AddExact
  <2> QED BY <2>1, <2>2, OneIs
<1>4. CASE op = "OP_2DIV"
  <2>1. UnaryNumeric(op, n) = Div(n, Small(2)) /\ UnaryValue(op, n.val) = {Truncated(n.val, 2)}
    BY <1>4 DEF UnaryNumeric, UnaryValue
  <2>2. PICK r : Div(n, Small(2)) = {r} /\ Exact(r, Quo(n.val, 2))
    BY <1>0, DivExact
  <2>3. Truncated(n.val, 2) = Quo(n.val, 2)
    BY <1>0, TruncatedIs
  <2> QED BY <2>1, <2>2, <2>3, OneIs
<1>5. CASE op = "OP_NEGATE"
  <2>1. UnaryNumeric(op, n) = {Negate(n)} /\ UnaryValue(op, n.val) = {-n.val}
    BY <1>5 DEF UnaryNumeric, UnaryValue
  <2> QED BY <2>1, NegateExact, OneIs
<1>6. CASE op = "OP_ABS"
  <2>1. UnaryNumeric(op, n) = {AbsValue(n)} /\ UnaryValue(op, n.val) = {Magnitude(n.val)}
    BY <1>6 DEF UnaryNumeric, UnaryValue
  <2> QED BY <2>1, NegateExact, OneIs
<1>7. CASE op = "OP_NOT"
  <2>1. UnaryNumeric(op, n) = Bool(n.val = 0) /\ UnaryValue(op, n.val) = BooleanValue(n.val = 0)
    BY <1>7 DEF UnaryNumeric, UnaryValue
  <2> QED BY <2>1, BoolIs
<1>8. CASE op = "OP_0NOTEQUAL"
  <2>1. UnaryNumeric(op, n) = Bool(n.val # 0) /\ UnaryValue(op, n.val) = BooleanValue(n.val # 0)
    BY <1>8 DEF UnaryNumeric, UnaryValue
  <2> QED BY <2>1, BoolIs
<1> QED BY <1>1, <1>2, <1>3, <1>4, <1>5, <1>6, <1>7, <1>8 DEF UnaryNumericOps

\* So do the binary ones.
LEMMA BinaryExact ==
  ASSUME NEW op \in BinaryNumericOps, NEW n \in BigNums, NEW m \in BigNums
  PROVE  Computes(BinaryNumeric(op, n, m), BinaryValue(op, n.val, m.val))
<1> DEFINE x == n.val
           y == m.val
<1>0. x \in Int /\ y \in Int
  BY BigNumsAre
<1>1. CASE op = "OP_ADD"
  <2>1. BinaryNumeric(op, n, m) = {Add(n, m)} /\ BinaryValue(op, x, y) = {x + y}
    BY <1>1 DEF BinaryNumeric, BinaryValue
  <2> QED BY <2>1, AddExact, OneIs
<1>2. CASE op = "OP_SUB"
  <2>1. BinaryNumeric(op, n, m) = {Sub(n, m)} /\ BinaryValue(op, x, y) = {x - y}
    BY <1>2 DEF BinaryNumeric, BinaryValue
  <2> QED BY <2>1, SubExact, OneIs
<1>3. CASE op = "OP_MUL"
  <2>1. BinaryNumeric(op, n, m) = {Mul(n, m)} /\ BinaryValue(op, x, y) = {x * y}
    BY <1>3 DEF BinaryNumeric, BinaryValue
  <2> QED BY <2>1, MulExact, OneIs
<1>4. CASE op = "OP_DIV"
  <2>1. BinaryNumeric(op, n, m) = Div(n, m) /\ BinaryValue(op, x, y) = IF y = 0 THEN {} ELSE {Truncated(x, y)}
    BY <1>4 DEF BinaryNumeric, BinaryValue
  <2>2. CASE y = 0
    BY <2>1, <2>2 DEF Div, Computes
  <2>3. CASE y # 0
    <3>1. PICK r : Div(n, m) = {r} /\ Exact(r, Quo(x, y))
      BY <2>3, DivExact
    <3>2. Truncated(x, y) = Quo(x, y)
      BY <1>0, <2>3, TruncatedIs
    <3> QED BY <2>1, <2>3, <3>1, <3>2, OneIs
  <2> QED BY <2>2, <2>3
<1>5. CASE op = "OP_MOD"
  <2>1. /\ BinaryNumeric(op, n, m) = Mod(n, m)
        /\ BinaryValue(op, x, y) = IF y = 0 THEN {} ELSE {x - y * Truncated(x, y)}
    BY <1>5 DEF BinaryNumeric, BinaryValue
  <2>2. CASE y = 0
    BY <2>1, <2>2 DEF Mod, Computes
  <2>3. CASE y # 0
    <3>1. PICK r : Mod(n, m) = {r} /\ Exact(r, Rem(x, y))
      BY <2>3, DivExact
    <3>2. x - y * Truncated(x, y) = Rem(x, y)
      BY <1>0, <2>3, TruncatedIs DEF Rem
    <3> QED BY <2>1, <2>3, <3>1, <3>2, OneIs
  <2> QED BY <2>2, <2>3
<1> QED BY <1>1, <1>2, <1>3, <1>4, <1>5 DEF BinaryNumericOps

\* And the comparisons.
LEMMA ComparisonExact ==
  ASSUME NEW op \in ComparisonOps, NEW n \in BigNums, NEW m \in BigNums
  PROVE  Computes(Comparison(op, n, m), BinaryValue(op, n.val, m.val))
<1> DEFINE x == n.val
           y == m.val
<1>0. x \in Int /\ y \in Int
  BY BigNumsAre
<1>1. CASE op = "OP_BOOLAND"
  <2>1. Comparison(op, n, m) = Bool(x # 0 /\ y # 0) /\ BinaryValue(op, x, y) = BooleanValue(x # 0 /\ y # 0)
    BY <1>1 DEF Comparison, BinaryValue
  <2>2. Computes(Bool(x # 0 /\ y # 0), BooleanValue(x # 0 /\ y # 0))
    BY BoolIs
  <2> QED BY <2>1, <2>2
<1>2. CASE op = "OP_BOOLOR"
  <2>1. Comparison(op, n, m) = Bool(x # 0 \/ y # 0) /\ BinaryValue(op, x, y) = BooleanValue(x # 0 \/ y # 0)
    BY <1>2 DEF Comparison, BinaryValue
  <2>2. Computes(Bool(x # 0 \/ y # 0), BooleanValue(x # 0 \/ y # 0))
    BY BoolIs
  <2> QED BY <2>1, <2>2
<1>3. CASE op = "OP_NUMEQUAL"
  <2>1. Comparison(op, n, m) = Bool(x = y) /\ BinaryValue(op, x, y) = BooleanValue(x = y)
    BY <1>3 DEF Comparison, BinaryValue
  <2>2. Computes(Bool(x = y), BooleanValue(x = y))
    BY BoolIs
  <2> QED BY <2>1, <2>2
<1>4. CASE op = "OP_NUMNOTEQUAL"
  <2>1. Comparison(op, n, m) = Bool(x # y) /\ BinaryValue(op, x, y) = BooleanValue(x # y)
    BY <1>4 DEF Comparison, BinaryValue
  <2>2. Computes(Bool(x # y), BooleanValue(x # y))
    BY BoolIs
  <2> QED BY <2>1, <2>2
<1>5. CASE op = "OP_LESSTHAN"
  <2>1. Comparison(op, n, m) = Bool(x < y) /\ BinaryValue(op, x, y) = BooleanValue(x < y)
    BY <1>5 DEF Comparison, BinaryValue
  <2>2. Computes(Bool(x < y), BooleanValue(x < y))
    BY BoolIs
  <2> QED BY <2>1, <2>2
<1>6. CASE op = "OP_GREATERTHAN"
  <2>1. Comparison(op, n, m) = Bool(x > y) /\ BinaryValue(op, x, y) = BooleanValue(x > y)
    BY <1>6 DEF Comparison, BinaryValue
  <2>2. Computes(Bool(x > y), BooleanValue(x > y))
    BY BoolIs
  <2> QED BY <2>1, <2>2
<1>7. CASE op = "OP_LESSTHANOREQUAL"
  <2>1. Comparison(op, n, m) = Bool(x <= y) /\ BinaryValue(op, x, y) = BooleanValue(x <= y)
    BY <1>7 DEF Comparison, BinaryValue
  <2>2. Computes(Bool(x <= y), BooleanValue(x <= y))
    BY BoolIs
  <2> QED BY <2>1, <2>2
<1>8. CASE op = "OP_GREATERTHANOREQUAL"
  <2>1. Comparison(op, n, m) = Bool(x >= y) /\ BinaryValue(op, x, y) = BooleanValue(x >= y)
    BY <1>8 DEF Comparison, BinaryValue
  <2>2. Computes(Bool(x >= y), BooleanValue(x >= y))
    BY BoolIs
  <2> QED BY <2>1, <2>2
<1>9. CASE op = "OP_MIN"
  <2>1. Comparison(op, n, m) = {IF x < y THEN n ELSE m} /\ BinaryValue(op, x, y) = {IF x <= y THEN x ELSE y}
    BY <1>9 DEF Comparison, BinaryValue
  <2>2. Exact(IF x < y THEN n ELSE m, IF x <= y THEN x ELSE y)
    BY <1>0 DEF Exact
  <2> QED BY <2>1, <2>2, OneIs
<1>10. CASE op = "OP_MAX"
  <2>1. Comparison(op, n, m) = {IF x > y THEN n ELSE m} /\ BinaryValue(op, x, y) = {IF x <= y THEN y ELSE x}
    BY <1>10 DEF Comparison, BinaryValue
  <2>2. Exact(IF x > y THEN n ELSE m, IF x <= y THEN y ELSE x)
    BY <1>0 DEF Exact
  <2> QED BY <2>1, <2>2, OneIs
<1> QED BY <1>1, <1>2, <1>3, <1>4, <1>5, <1>6, <1>7, <1>8, <1>9, <1>10 DEF ComparisonOps

-----------------------------------------------------------------------------
(***************************************************************************)
(* Numeric opcodes: the exact value or an error.                           *)
(***************************************************************************)

LEMMA BelowIs ==
  ASSUME NEW T, NEW s \in Seq(T), NEW n \in 0 .. Len(s)
  PROVE  /\ Below(s, n) \in Seq(T) /\ Len(Below(s, n)) = Len(s) - n
         /\ \A k \in 1 .. Len(s) - n : Below(s, n)[k] = s[k]
BY DEF Below

\* The values that an opcode computes, pushed.
LEMMA Pushed ==
  ASSUME NEW N, NEW V, Computes(N, V), NEW B \in Seq(Element)
  PROVE  {B \o r : r \in PushNums(N)} = {Append(B, Encode(v)) : v \in {w \in V : Representable(w)}}
<1>1. N \in SUBSET BigNums /\ {n.val : n \in N} = V
  BY DEF Computes
<1>2. PushNums(N) = {<<Encode(v)>> : v \in {w \in V : Representable(w)}}
  BY <1>1, PushNumsAre
<1>3. \A v \in V : v \in Int
  BY <1>1, BigNumsAre
<1>4. \A v \in V : B \o <<Encode(v)>> = Append(B, Encode(v))
  BY <1>3, EncodeType, AppendIs
<1> QED BY <1>2, <1>4

LEMMA NothingPushed ==
  ASSUME NEW B
  PROVE  {B \o r : r \in PushNums({})} = {}
BY DEF PushNums

\* The element a unary opcode leaves.
LEMMA UnaryResult ==
  ASSUME NEW s \in Seq(Element), Len(s) >= 1, NEW op \in UnaryNumericOps
  PROVE  NumericOpcode(op, s) =
           {Append(Below(s, 1), Encode(v)) :
              v \in {w \in UnaryValue(op, Decode(Last(s))) : Numeric(Last(s)) /\ Representable(w)}}
<1> DEFINE a == s[Len(s)]
           N == UNION {UnaryNumeric(op, x) : x \in BigNumFromBytes(a)}
           B == Below(s, 1)
           V == UnaryValue(op, Decode(a))
<1>1. Last(s) = a /\ a \in Element /\ B \in Seq(Element)
  BY BelowIs DEF Last
<1>2. NumericOpcode(op, s) = {B \o r : r \in PushNums(N)}
  <2>1. op \in NumericOps /\ op \notin BinaryNumericOps /\ op \notin ComparisonOps /\ op \notin ShiftOps
        /\ op \notin TernaryNumericOps
    BY DEF NumericOps, UnaryNumericOps, BinaryNumericOps, ComparisonOps, ShiftOps, TernaryNumericOps
  <2>3. NumericOpcode(op, s) = Num1(s, LAMBDA x : UnaryNumeric(op, x))
    BY <2>1 DEF NumericOpcode
  <2>4. Num1(s, LAMBDA x : UnaryNumeric(op, x)) = {B \o r : r \in PushNums(N)}
    BY DEF Num1, Take1
  <2> QED BY <2>3, <2>4
<1>3. CASE ~Numeric(a)
  <2>1. N = {}
    BY <1>1, <1>3, BigNumRead
  <2> HIDE DEF N, B
  <2> QED BY <1>1, <1>2, <1>3, <2>1, NothingPushed
<1>4. CASE Numeric(a)
  <2>1. PICK n : BigNumFromBytes(a) = {n} /\ Exact(n, Decode(a))
    BY <1>1, <1>4, BigNumRead
  <2>2. N = UnaryNumeric(op, n) /\ n \in BigNums /\ n.val = Decode(a)
    BY <2>1 DEF Exact
  <2>3. Computes(N, V)
    BY <2>2, UnaryExact
  <2> HIDE DEF N, B, V
  <2>4. {B \o r : r \in PushNums(N)} = {Append(B, Encode(v)) : v \in {w \in V : Representable(w)}}
    BY <1>1, <2>3, Pushed
  <2> QED BY <1>1, <1>2, <1>4, <2>4 DEF V, B
<1> QED BY <1>3, <1>4

\* The element a binary opcode leaves.
LEMMA BinaryResult ==
  ASSUME NEW s \in Seq(Element), Len(s) >= 2, NEW op \in BinaryNumericOps \cup ComparisonOps
  PROVE  NumericOpcode(op, s) =
           {Append(Below(s, 2), Encode(v)) :
              v \in {w \in BinaryValue(op, Decode(Last(Front(s))), Decode(Last(s))) :
                        Numeric(Last(Front(s))) /\ Numeric(Last(s)) /\ Representable(w)}}
<1> DEFINE a == s[Len(s) - 1]
           b == s[Len(s)]
           F(x, y) == IF op \in BinaryNumericOps THEN BinaryNumeric(op, x, y) ELSE Comparison(op, x, y)
           N1 == UNION {BinaryNumeric(op, x, y) : x \in BigNumFromBytes(a), y \in BigNumFromBytes(b)}
           N2 == UNION {Comparison(op, x, y) : x \in BigNumFromBytes(a), y \in BigNumFromBytes(b)}
           N == IF op \in BinaryNumericOps THEN N1 ELSE N2
           B == Below(s, 2)
           V == BinaryValue(op, Decode(a), Decode(b))
<1>1. Last(s) = b /\ Last(Front(s)) = a /\ a \in Element /\ b \in Element /\ B \in Seq(Element)
  BY BelowIs DEF Last, Front
<1>2. NumericOpcode(op, s) = {B \o r : r \in PushNums(N)}
  <2>1. op \in NumericOps /\ op \notin UnaryNumericOps /\ op \notin ShiftOps /\ op \notin TernaryNumericOps
        /\ ~(op \in BinaryNumericOps /\ op \in ComparisonOps)
    BY DEF NumericOps, UnaryNumericOps, BinaryNumericOps, ComparisonOps, ShiftOps, TernaryNumericOps
  <2>3. CASE op \in BinaryNumericOps
    <3>1. NumericOpcode(op, s) = Num2(s, LAMBDA x, y : BinaryNumeric(op, x, y))
      BY <2>1, <2>3 DEF NumericOpcode
    <3>2. Num2(s, LAMBDA x, y : BinaryNumeric(op, x, y)) = {B \o r : r \in PushNums(N1)}
      BY DEF Num2, Take2
    <3>3. N = N1
      BY <2>3
    <3> HIDE DEF N, N1, N2, B
    <3> QED BY <3>1, <3>2, <3>3
  <2>4. CASE op \in ComparisonOps
    <3>1. NumericOpcode(op, s) = Num2(s, LAMBDA x, y : Comparison(op, x, y))
      BY <2>1, <2>4 DEF NumericOpcode
    <3>2. Num2(s, LAMBDA x, y : Comparison(op, x, y)) = {B \o r : r \in PushNums(N2)}
      BY DEF Num2, Take2
    <3>3. N = N2
      BY <2>1, <2>4
    <3> HIDE DEF N, N1, N2, B
    <3> QED BY <3>1, <3>2, <3>3
  <2> HIDE DEF N, B
  <2> QED BY <2>3, <2>4
<1>3. CASE ~(Numeric(a) /\ Numeric(b))
  <2>1. N = {}
    BY <1>1, <1>3, BigNumRead
  <2> HIDE DEF N, B
  <2> QED BY <1>1, <1>2, <1>3, <2>1, NothingPushed
<1>4. CASE Numeric(a) /\ Numeric(b)
  <2>1. PICK n : BigNumFromBytes(a) = {n} /\ Exact(n, Decode(a))
    BY <1>1, <1>4, BigNumRead
  <2>2. PICK m : BigNumFromBytes(b) = {m} /\ Exact(m, Decode(b))
    BY <1>1, <1>4, BigNumRead
  <2>30. n \in BigNums /\ n.val = Decode(a) /\ m \in BigNums /\ m.val = Decode(b)
    BY <2>1, <2>2 DEF Exact
  <2>31. N1 = BinaryNumeric(op, n, m) /\ N2 = Comparison(op, n, m)
    BY <2>1, <2>2
  <2> HIDE DEF N1, N2
  <2>3. N = F(n, m) /\ n \in BigNums /\ n.val = Decode(a) /\ m \in BigNums /\ m.val = Decode(b)
    BY <2>30, <2>31
  <2>4. Computes(F(n, m), BinaryValue(op, n.val, m.val))
    BY <2>3, BinaryExact, ComparisonExact
  <2> HIDE DEF N, F
  <2>5. Computes(N, V)
    BY <2>3, <2>4
  <2> HIDE DEF N, B, V
  <2>6. {B \o r : r \in PushNums(N)} = {Append(B, Encode(v)) : v \in {w \in V : Representable(w)}}
    BY <1>1, <2>5, Pushed
  <2> QED BY <1>1, <1>2, <1>4, <2>6 DEF V, B
<1> QED BY <1>3, <1>4

LEMMA NumericExactHolds ==
  ASSUME dstack \in Seq(Element)
  PROVE  NumericExact
<1>1. \A x, y \in Operands64 : ExactAt(x, y)
  <2>1. MinInt64 \in Int64 /\ MaxInt64 \in Int64
    BY Int64Is, HalfIs DEF MinInt64, MaxInt64
  <2>2. Operands64 \subseteq Int64
    BY <2>1 DEF Operands64, Int64
  <2> QED BY <2>2, FastPathExact
<1>2. ASSUME NEW op \in UnaryNumericOps, Len(dstack) >= 1
      PROVE  LET a == Last(dstack)
              IN NumericOpcode(op, dstack) =
                    {Append(Below(dstack, 1), Encode(v)) :
                        v \in {w \in UnaryValue(op, Decode(a)) : Numeric(a) /\ Representable(w)}}
  BY <1>2, UnaryResult
<1>3. ASSUME NEW op \in BinaryNumericOps \cup ComparisonOps, Len(dstack) >= 2
      PROVE   LET a == Last(Front(dstack))
                  b == Last(dstack)
              IN NumericOpcode(op, dstack) =
                    {Append(Below(dstack, 2), Encode(v)) :
                        v \in {w \in BinaryValue(op, Decode(a), Decode(b)) :
                                  Numeric(a) /\ Numeric(b) /\ Representable(w)}}
  BY <1>3, BinaryResult
<1> QED BY <1>1, <1>2, <1>3 DEF NumericExact

-----------------------------------------------------------------------------
(***************************************************************************)
(* Stacks.                                                                 *)
(***************************************************************************)
\* Taking out the entry at a depth.
LEMMA NipIs ==
  ASSUME NEW T, NEW s \in Seq(T), NEW d \in Nat
  PROVE  /\ d >= Len(s) => nipN(s, d) = {} /\ NipN(s, d) = {} /\ MoveUp(s, d) = {} /\ CopyUp(s, d) = {}
         /\ d < Len(s) => \E r \in Seq(T) :
              /\ NipN(s, d) = {r} /\ MoveUp(s, d) = {Append(r, s[Len(s) - d])}
              /\ CopyUp(s, d) = {Append(s, s[Len(s) - d])}
              /\ nipN(s, d) = {[so |-> s[Len(s) - d], stk |-> r]}
              /\ Len(r) = Len(s) - 1
              /\ \A k \in 1 .. Len(s) - 1 : r[k] = s[IF k < Len(s) - d THEN k ELSE k + 1]
<1>0. Len(s) \in Nat
  OBVIOUS
<1>1. ASSUME d >= Len(s)
      PROVE  nipN(s, d) = {} /\ NipN(s, d) = {} /\ MoveUp(s, d) = {} /\ CopyUp(s, d) = {}
  <2>1. nipN(s, d) = {} /\ Peek(s, d) = {}
    <3>1. ~(d <= Len(s) - 1) /\ ~(d < Len(s))
      BY <1>0, <1>1
    <3> QED BY <3>1, Zenon DEF nipN, Peek
  <2> QED BY <2>1 DEF NipN, MoveUp, CopyUp
<1>2. ASSUME d < Len(s)
      PROVE  \E r \in Seq(T) :
              /\ NipN(s, d) = {r} /\ MoveUp(s, d) = {Append(r, s[Len(s) - d])}
              /\ CopyUp(s, d) = {Append(s, s[Len(s) - d])}
              /\ nipN(s, d) = {[so |-> s[Len(s) - d], stk |-> r]}
              /\ Len(r) = Len(s) - 1
              /\ \A k \in 1 .. Len(s) - 1 : r[k] = s[IF k < Len(s) - d THEN k ELSE k + 1]
  <2> DEFINE x == s[Len(s) - d]
             p == SubSeq(s, 1, Len(s) - d - 1)
             q == SubSeq(s, Len(s) - d + 1, Len(s))
             r == p \o q
  <2>1. Len(s) \in Nat /\ p \in Seq(T) /\ q \in Seq(T) /\ Len(p) = Len(s) - d - 1 /\ Len(q) = d
    BY <1>2
  <2>2. /\ \A k \in 1 .. Len(s) - d - 1 : p[k] = s[k]
        /\ \A k \in 1 .. d : q[k] = s[Len(s) - d + k]
    BY <1>2
  <2>3. nipN(s, d) = {[so |-> x, stk |-> r]}
    <3>1. d >= 0 /\ d <= Len(s) - 1
      BY <1>0, <1>2
    <3> QED BY <3>1 DEF nipN
  <2> HIDE DEF p, q
  <2>4. r \in Seq(T) /\ Len(r) = Len(s) - 1
    BY <1>2, <2>1
  <2>5. ASSUME NEW k \in 1 .. Len(s) - 1 PROVE r[k] = s[IF k < Len(s) - d THEN k ELSE k + 1]
    <3>1. CASE k < Len(s) - d
      BY <1>2, <2>1, <2>2, <3>1
    <3>2. CASE ~(k < Len(s) - d)
      <4>1. r[k] = q[k - Len(p)] /\ k - Len(p) \in 1 .. d /\ Len(s) - d + (k - Len(p)) = k + 1
        <5>1. k - Len(p) \in 1 .. d /\ Len(s) - d + (k - Len(p)) = k + 1 /\ k > Len(p) /\ k <= Len(p) + Len(q)
          BY <1>0, <1>2, <2>1, <3>2
        <5>2. r[k] = q[k - Len(p)]
          BY <2>1, <5>1
        <5> QED BY <5>1, <5>2
      <4> QED BY <2>2, <3>2, <4>1
    <3> QED BY <3>1, <3>2
  <2> HIDE DEF r, x
  <2>6. NipN(s, d) = {r} /\ MoveUp(s, d) = {Append(r, x)}
    BY <2>3 DEF NipN, MoveUp
  <2>7. CopyUp(s, d) = {Append(s, x)}
    BY <1>2 DEF CopyUp, Peek, x
  <2> QED BY <2>3, <2>4, <2>5, <2>6, <2>7 DEF x
<1> QED BY <1>1, <1>2

\* What replaces the top of a stack, by position.
LEMMA Replaced ==
  ASSUME NEW T, NEW s \in Seq(T), NEW n \in 0 .. Len(s), NEW to \in Seq(1 .. Len(s) - n),
         NEW r \in Seq(T), Len(r) = n + Len(to),
         \A k \in 1 .. n : r[k] = s[k],
         \A k \in 1 .. Len(to) : r[n + k] = s[n + to[k]]
  PROVE  r = SubSeq(s, 1, n) \o [k \in 1 .. Len(to) |-> s[n + to[k]]]
<1> DEFINE p == SubSeq(s, 1, n)
           q == [k \in 1 .. Len(to) |-> s[n + to[k]]]
<1>0. Len(s) \in Nat /\ Len(to) \in Nat /\ n \in Nat
  OBVIOUS
<1>1. p \in Seq(T) /\ Len(p) = n /\ \A k \in 1 .. n : p[k] = s[k]
  OBVIOUS
<1>2. \A k \in 1 .. Len(to) : s[n + to[k]] \in T
  OBVIOUS
<1>3. q \in Seq(T) /\ Len(q) = Len(to) /\ \A k \in 1 .. Len(to) : q[k] = s[n + to[k]]
  BY <1>2
<1> HIDE DEF p, q
<1>4. p \o q \in Seq(T) /\ Len(p \o q) = Len(r)
  <2>1. p \o q \in Seq(T) /\ Len(p \o q) = Len(p) + Len(q)
    BY <1>1, <1>3, ConcatIs
  <2> QED BY <1>1, <1>3, <2>1
<1>5. ASSUME NEW k \in 1 .. Len(r) PROVE r[k] = (p \o q)[k]
  <2>1. CASE k <= n
    <3>1. k \in 1 .. Len(p) /\ k \in 1 .. n
      BY <1>0, <1>1, <2>1
    <3>2. (p \o q)[k] = p[k]
      BY <1>0, <1>1, <1>3, <3>1
    <3> QED BY <1>1, <3>1, <3>2
  <2>2. CASE ~(k <= n)
    <3>1. k - n \in 1 .. Len(to) /\ n + (k - n) = k
      BY <1>0, <2>2
    <3>2. (p \o q)[k] = q[k - n]
      BY <1>0, <1>1, <1>3, <2>2
    <3> QED BY <1>3, <3>1, <3>2
  <2> QED BY <2>1, <2>2
<1> QED BY <1>4, <1>5, SameSeq DEF p, q

\* What is left of s without its element at d, with that element copied or
\* moved to the top.
Nipped(r, s, d) ==
    /\ Len(r) = Len(s) - 1
    /\ \A k \in 1 .. Len(s) - d - 1 : r[k] = s[k]
    /\ \A k \in Len(s) - d .. Len(s) - 1 : r[k] = s[k + 1]
CopiedUp(r, s, d) ==
    /\ Len(r) = Len(s) + 1
    /\ \A k \in 1 .. Len(s) : r[k] = s[k]
    /\ r[Len(s) + 1] = s[Len(s) - d]
MovedUp(r, s, d) ==
    /\ Len(r) = Len(s)
    /\ \A k \in 1 .. Len(s) - d - 1 : r[k] = s[k]
    /\ \A k \in Len(s) - d .. Len(s) - 1 : r[k] = s[k + 1]
    /\ r[Len(s)] = s[Len(s) - d]

LEMMA CopyUpIs ==
  ASSUME NEW T, NEW s \in Seq(T), NEW d \in Nat, d < Len(s)
  PROVE  \E r \in Seq(T) : CopyUp(s, d) = {r} /\ CopiedUp(r, s, d)
<1>1. Len(s) \in Nat /\ s[Len(s) - d] \in T
  OBVIOUS
<1>2. CopyUp(s, d) = {Append(s, s[Len(s) - d])}
  BY NipIs
<1> DEFINE r == Append(s, s[Len(s) - d])
<1>3. r \in Seq(T) /\ CopiedUp(r, s, d)
  BY <1>1 DEF CopiedUp
<1> HIDE DEF r
<1>4. CopyUp(s, d) = {r}
  BY <1>2 DEF r
<1> QED BY <1>3, <1>4

LEMMA MoveUpIs ==
  ASSUME NEW T, NEW s \in Seq(T), NEW d \in Nat, d < Len(s)
  PROVE  \E r \in Seq(T) : MoveUp(s, d) = {r} /\ MovedUp(r, s, d)
<1>1. Len(s) \in Nat /\ s[Len(s) - d] \in T
  OBVIOUS
<1>2. PICK q \in Seq(T) : /\ MoveUp(s, d) = {Append(q, s[Len(s) - d])} /\ Len(q) = Len(s) - 1
                          /\ \A k \in 1 .. Len(s) - 1 : q[k] = s[IF k < Len(s) - d THEN k ELSE k + 1]
  BY NipIs
<1> DEFINE x == s[Len(s) - d]
           r == Append(q, x)
<1>3. r \in Seq(T) /\ Len(r) = Len(s) /\ r[Len(s)] = x /\ \A k \in 1 .. Len(s) - 1 : r[k] = q[k]
  BY <1>1, <1>2
<1>4. \A k \in 1 .. Len(s) - d - 1 : r[k] = s[k]
  BY <1>1, <1>2, <1>3
<1>5. \A k \in Len(s) - d .. Len(s) - 1 : r[k] = s[k + 1]
  BY <1>1, <1>2, <1>3
<1> HIDE DEF r
<1>6. MoveUp(s, d) = {r}
  BY <1>2 DEF r
<1>7. MovedUp(r, s, d)
  BY <1>3, <1>4, <1>5 DEF MovedUp
<1> QED BY <1>3, <1>6, <1>7

LEMMA NipNIs ==
  ASSUME NEW T, NEW s \in Seq(T), NEW d \in Nat, d < Len(s)
  PROVE  \E r \in Seq(T) : /\ NipN(s, d) = {r} /\ Nipped(r, s, d)
                           /\ nipN(s, d) = {[so |-> s[Len(s) - d], stk |-> r]}
<1>1. Len(s) \in Nat
  OBVIOUS
<1>2. PICK r \in Seq(T) : /\ NipN(s, d) = {r} /\ Len(r) = Len(s) - 1
                          /\ \A k \in 1 .. Len(s) - 1 : r[k] = s[IF k < Len(s) - d THEN k ELSE k + 1]
                          /\ nipN(s, d) = {[so |-> s[Len(s) - d], stk |-> r]}
  BY NipIs
<1>3. \A k \in 1 .. Len(s) - d - 1 : r[k] = s[k]
  <2> SUFFICES ASSUME NEW k \in 1 .. Len(s) - d - 1 PROVE r[k] = s[k]
    OBVIOUS
  <2>1. k \in 1 .. Len(s) - 1 /\ k < Len(s) - d
    BY <1>1
  <2> QED BY <1>2, <2>1
<1>4. \A k \in Len(s) - d .. Len(s) - 1 : r[k] = s[k + 1]
  <2> SUFFICES ASSUME NEW k \in Len(s) - d .. Len(s) - 1 PROVE r[k] = s[k + 1]
    OBVIOUS
  <2>1. k \in 1 .. Len(s) - 1 /\ ~(k < Len(s) - d)
    BY <1>1
  <2> QED BY <1>2, <2>1
<1>5. Nipped(r, s, d)
  BY <1>2, <1>3, <1>4 DEF Nipped
<1> QED BY <1>2, <1>5

\* Each fails on a stack that is too short.
LEMMA TooShort ==
  ASSUME NEW T, NEW s \in Seq(T), NEW d \in Nat, d >= Len(s)
  PROVE  nipN(s, d) = {} /\ NipN(s, d) = {} /\ MoveUp(s, d) = {} /\ CopyUp(s, d) = {}
BY NipIs

\* X is what an opcode leaves that replaces the top n of s as to says.
Replaces(X, s, n, to) ==
    X = IF Len(s) - n < 0 THEN {}
        ELSE {SubSeq(s, 1, Len(s) - n) \o [k \in 1 .. Len(to) |-> s[(Len(s) - n) + to[k]]]}

LEMMA ReplacesBy ==
  ASSUME NEW T, NEW s \in Seq(T), NEW n \in 0 .. Len(s), NEW to \in Seq(1 .. n), NEW X, NEW r \in Seq(T),
         X = {r}, Len(r) = Len(s) - n + Len(to),
         \A k \in 1 .. Len(s) - n : r[k] = s[k],
         \A k \in 1 .. Len(to) : r[(Len(s) - n) + k] = s[(Len(s) - n) + to[k]]
  PROVE  Replaces(X, s, n, to)
<1> DEFINE m == Len(s) - n
<1>1. Len(s) \in Nat /\ m \in 0 .. Len(s) /\ n = Len(s) - m /\ ~(m < 0)
  OBVIOUS
<1> HIDE DEF m
<1>2. to \in Seq(1 .. Len(s) - m)
  BY <1>1
<1>3. Len(r) = m + Len(to)
  BY DEF m
<1>4. (\A k \in 1 .. m : r[k] = s[k]) /\ \A k \in 1 .. Len(to) : r[m + k] = s[m + to[k]]
  BY DEF m
<1>5. r = SubSeq(s, 1, m) \o [k \in 1 .. Len(to) |-> s[m + to[k]]]
  BY <1>1, <1>2, <1>3, <1>4, Replaced
<1> QED BY <1>1, <1>5 DEF Replaces, m

\* The turns of each loop, and with them the picture of each opcode.
LEMMA DropN2Turns ==
  ASSUME NEW s
  PROVE  DropN(s, 2) = UNION {NipN(t, 0) : t \in NipN(s, 0)}
<1> DEFINE A(S) == UNION {NipN(t, 0) : t \in S}
           R(f) == f = [k \in 0 .. 2 |-> IF k = 0 THEN {s} ELSE A(f[k - 1])]
           h == [k \in 0 .. 2 |-> IF k = 0 THEN {s} ELSE IF k = 1 THEN A({s}) ELSE A(A({s}))]
           g == CHOOSE f : R(f)
<1>1. DropN(s, 2) = g[2]
  BY DEF DropN, Loop
<1>2. \A S : A(S) = UNION {NipN(t, 0) : t \in S}
  OBVIOUS
<1> HIDE DEF A
<1>3. R(h)
  OBVIOUS
<1>4. R(g)
  <2> HIDE DEF h, R
  <2> QED BY <1>3
<1> HIDE DEF g
<1>5. ASSUME NEW k \in 0 .. 2 PROVE g[k] = IF k = 0 THEN {s} ELSE A(g[k - 1])
  BY <1>4, Zenon
<1> HIDE DEF R
<1>6. g[0] = {s} /\ g[1] = A(g[0]) /\ g[2] = A(g[1])
  BY <1>5
<1>7. A({s}) = NipN(s, 0)
  BY <1>2
<1> QED BY <1>1, <1>2, <1>6, <1>7

LEMMA Result2DROP ==
  ASSUME NEW T, NEW s \in Seq(T)
  PROVE  Replaces(DropN(s, 2), s, 2, <<>>)
<1>0. Len(s) \in Nat
  OBVIOUS
<1>1. DropN(s, 2) = UNION {NipN(t, 0) : t \in NipN(s, 0)}
  BY DropN2Turns
<1>2. CASE Len(s) < 2
  <2>1. CASE Len(s) = 0
    <3>0. 0 \in Nat /\ 0 >= Len(s)
      BY <2>1
    <3>1. NipN(s, 0) = {}
      BY <3>0, TooShort
    <3> QED BY <1>0, <1>1, <1>2, <3>1 DEF Replaces
  <2>2. CASE Len(s) = 1
    <3>0. 0 \in Nat /\ 0 < Len(s)
      BY <2>2
    <3>1. PICK r \in Seq(T) : NipN(s, 0) = {r} /\ Nipped(r, s, 0)
      BY <3>0, NipNIs
    <3>2. 0 >= Len(r)
      BY <2>2, <3>1 DEF Nipped
    <3>3. NipN(r, 0) = {}
      BY <3>0, <3>2, TooShort
    <3> QED BY <1>0, <1>1, <1>2, <3>1, <3>3 DEF Replaces
  <2>3. Len(s) = 0 \/ Len(s) = 1
    BY <1>0, <1>2
  <2> QED BY <2>1, <2>2, <2>3
<1>3. CASE Len(s) >= 2
  <2> DEFINE b == Len(s) - 2
             to == <<>>
  <2>0. b \in Nat /\ 2 \in 0 .. Len(s) /\ Len(s) = b + 2
    BY <1>0, <1>3
  <2> HIDE DEF b
  <2>10. 0 \in Nat /\ 0 < Len(s)
    BY <2>0
  <2>11. PICK r1 \in Seq(T) : NipN(s, 0) = {r1} /\ Nipped(r1, s, 0)
    BY <2>10, NipNIs
  <2>12. Len(r1) = b + 1 /\ \A k \in 1 .. b : r1[k] = s[k]
    BY <2>0, <2>11 DEF Nipped
  <2>13. r1[b + 1] = s[b + 1]
    BY <2>0, <2>11 DEF Nipped
  <2>20. 0 \in Nat /\ 0 < Len(r1)
    BY <2>0, <2>12
  <2>21. PICK r2 \in Seq(T) : NipN(r1, 0) = {r2} /\ Nipped(r2, r1, 0)
    BY <2>20, NipNIs
  <2>22. Len(r2) = b + 0 /\ \A k \in 1 .. b : r2[k] = s[k]
    BY <2>0, <2>12, <2>21 DEF Nipped
  <2>40. DropN(s, 2) = {r2}
    BY <1>1, <2>11, <2>21
  <2>41. \A k \in 1 .. Len(to) : r2[b + k] = s[b + to[k]]
    OBVIOUS
  <2>42. to \in Seq(1 .. 2) /\ Len(to) = 0
    OBVIOUS
  <2> HIDE DEF to
  <2>43. Len(r2) = Len(s) - 2 + Len(to)
    BY <2>0, <2>22, <2>42
  <2>44. Replaces(DropN(s, 2), s, 2, to)
    BY <2>0, <2>40, <2>22, <2>41, <2>42, <2>43, ReplacesBy DEF b
  <2> QED BY <2>44 DEF to
<1> QED BY <1>0, <1>2, <1>3

LEMMA DupN2Turns ==
  ASSUME NEW s
  PROVE  DupN(s, 2) = UNION {CopyUp(t, 1) : t \in CopyUp(s, 1)}
<1> DEFINE A(S) == UNION {CopyUp(t, 2 - 1) : t \in S}
           R(f) == f = [k \in 0 .. 2 |-> IF k = 0 THEN {s} ELSE A(f[k - 1])]
           h == [k \in 0 .. 2 |-> IF k = 0 THEN {s} ELSE IF k = 1 THEN A({s}) ELSE A(A({s}))]
           g == CHOOSE f : R(f)
<1>1. DupN(s, 2) = g[2]
  BY DEF DupN, Loop
<1>2. \A S : A(S) = UNION {CopyUp(t, 1) : t \in S}
  OBVIOUS
<1> HIDE DEF A
<1>3. R(h)
  OBVIOUS
<1>4. R(g)
  <2> HIDE DEF h, R
  <2> QED BY <1>3
<1> HIDE DEF g
<1>5. ASSUME NEW k \in 0 .. 2 PROVE g[k] = IF k = 0 THEN {s} ELSE A(g[k - 1])
  BY <1>4, Zenon
<1> HIDE DEF R
<1>6. g[0] = {s} /\ g[1] = A(g[0]) /\ g[2] = A(g[1])
  BY <1>5
<1>7. A({s}) = CopyUp(s, 1)
  BY <1>2
<1> QED BY <1>1, <1>2, <1>6, <1>7

LEMMA Result2DUP ==
  ASSUME NEW T, NEW s \in Seq(T)
  PROVE  Replaces(DupN(s, 2), s, 2, <<1, 2, 1, 2>>)
<1>0. Len(s) \in Nat
  OBVIOUS
<1>1. DupN(s, 2) = UNION {CopyUp(t, 1) : t \in CopyUp(s, 1)}
  BY DupN2Turns
<1>2. CASE Len(s) < 2
  <2>1. 1 >= Len(s) /\ 1 \in Nat
    BY <1>0, <1>2
  <2>2. CopyUp(s, 1) = {}
    BY <2>1, TooShort
  <2> QED BY <1>0, <1>1, <1>2, <2>2 DEF Replaces
<1>3. CASE Len(s) >= 2
  <2> DEFINE b == Len(s) - 2
             to == <<1, 2, 1, 2>>
  <2>0. b \in Nat /\ 2 \in 0 .. Len(s) /\ Len(s) = b + 2
    BY <1>0, <1>3
  <2> HIDE DEF b
  <2>10. 1 \in Nat /\ 1 < Len(s)
    BY <2>0
  <2>11. PICK r1 \in Seq(T) : CopyUp(s, 1) = {r1} /\ CopiedUp(r1, s, 1)
    BY <2>10, CopyUpIs
  <2>12. Len(r1) = b + 3 /\ \A k \in 1 .. b : r1[k] = s[k]
    BY <2>0, <2>11 DEF CopiedUp
  <2>13. r1[b + 1] = s[b + 1]
    BY <2>0, <2>11 DEF CopiedUp
  <2>14. r1[b + 2] = s[b + 2]
    BY <2>0, <2>11 DEF CopiedUp
  <2>15. r1[b + 3] = s[b + 1]
    BY <2>0, <2>11 DEF CopiedUp
  <2>20. 1 \in Nat /\ 1 < Len(r1)
    BY <2>0, <2>12
  <2>21. PICK r2 \in Seq(T) : CopyUp(r1, 1) = {r2} /\ CopiedUp(r2, r1, 1)
    BY <2>20, CopyUpIs
  <2>22. Len(r2) = b + 4 /\ \A k \in 1 .. b : r2[k] = s[k]
    BY <2>0, <2>12, <2>21 DEF CopiedUp
  <2>23. r2[b + 1] = s[b + 1]
    <3>1. r2[b + 1] = r1[b + 1]
      BY <2>0, <2>12, <2>21 DEF CopiedUp
    <3> QED BY <3>1, <2>13
  <2>24. r2[b + 2] = s[b + 2]
    <3>1. r2[b + 2] = r1[b + 2]
      BY <2>0, <2>12, <2>21 DEF CopiedUp
    <3> QED BY <3>1, <2>14
  <2>25. r2[b + 3] = s[b + 1]
    <3>1. r2[b + 3] = r1[b + 3]
      BY <2>0, <2>12, <2>21 DEF CopiedUp
    <3> QED BY <3>1, <2>15
  <2>26. r2[b + 4] = s[b + 2]
    <3>1. r2[b + 4] = r1[b + 2]
      BY <2>0, <2>12, <2>21 DEF CopiedUp
    <3> QED BY <3>1, <2>14
  <2>40. DupN(s, 2) = {r2}
    BY <1>1, <2>11, <2>21
  <2>41. \A k \in 1 .. Len(to) : r2[b + k] = s[b + to[k]]
    <3> SUFFICES ASSUME NEW k \in 1 .. 4 PROVE r2[b + k] = s[b + to[k]]
      OBVIOUS
    <3>1. k = 1 \/ k = 2 \/ k = 3 \/ k = 4
      OBVIOUS
    <3>11. CASE k = 1
      BY <3>11, <2>23
    <3>12. CASE k = 2
      BY <3>12, <2>24
    <3>13. CASE k = 3
      BY <3>13, <2>25
    <3>14. CASE k = 4
      BY <3>14, <2>26
    <3> QED BY <3>1, <3>11, <3>12, <3>13, <3>14
  <2>42. to \in Seq(1 .. 2) /\ Len(to) = 4
    OBVIOUS
  <2> HIDE DEF to
  <2>43. Len(r2) = Len(s) - 2 + Len(to)
    BY <2>0, <2>22, <2>42
  <2>44. Replaces(DupN(s, 2), s, 2, to)
    BY <2>0, <2>40, <2>22, <2>41, <2>42, <2>43, ReplacesBy DEF b
  <2> QED BY <2>44 DEF to
<1> QED BY <1>0, <1>2, <1>3

LEMMA DupN3Turns ==
  ASSUME NEW s
  PROVE  DupN(s, 3) = UNION {CopyUp(t, 2) : t \in UNION {CopyUp(u, 2) : u \in CopyUp(s, 2)}}
<1> DEFINE A(S) == UNION {CopyUp(t, 3 - 1) : t \in S}
           R(f) == f = [k \in 0 .. 3 |-> IF k = 0 THEN {s} ELSE A(f[k - 1])]
           h == [k \in 0 .. 3 |-> IF k = 0 THEN {s} ELSE IF k = 1 THEN A({s}) ELSE IF k = 2 THEN A(A({s})) ELSE A(A(A({s})))]
           g == CHOOSE f : R(f)
<1>1. DupN(s, 3) = g[3]
  BY DEF DupN, Loop
<1>2. \A S : A(S) = UNION {CopyUp(t, 2) : t \in S}
  OBVIOUS
<1> HIDE DEF A
<1>3. R(h)
  OBVIOUS
<1>4. R(g)
  <2> HIDE DEF h, R
  <2> QED BY <1>3
<1> HIDE DEF g
<1>5. ASSUME NEW k \in 0 .. 3 PROVE g[k] = IF k = 0 THEN {s} ELSE A(g[k - 1])
  BY <1>4, Zenon
<1> HIDE DEF R
<1>6. g[0] = {s} /\ g[1] = A(g[0]) /\ g[2] = A(g[1]) /\ g[3] = A(g[2])
  BY <1>5
<1>7. A({s}) = CopyUp(s, 2)
  BY <1>2
<1> QED BY <1>1, <1>2, <1>6, <1>7

LEMMA Result3DUP ==
  ASSUME NEW T, NEW s \in Seq(T)
  PROVE  Replaces(DupN(s, 3), s, 3, <<1, 2, 3, 1, 2, 3>>)
<1>0. Len(s) \in Nat
  OBVIOUS
<1>1. DupN(s, 3) = UNION {CopyUp(t, 2) : t \in UNION {CopyUp(u, 2) : u \in CopyUp(s, 2)}}
  BY DupN3Turns
<1>2. CASE Len(s) < 3
  <2>1. 2 >= Len(s) /\ 2 \in Nat
    BY <1>0, <1>2
  <2>2. CopyUp(s, 2) = {}
    BY <2>1, TooShort
  <2> QED BY <1>0, <1>1, <1>2, <2>2 DEF Replaces
<1>3. CASE Len(s) >= 3
  <2> DEFINE b == Len(s) - 3
             to == <<1, 2, 3, 1, 2, 3>>
  <2>0. b \in Nat /\ 3 \in 0 .. Len(s) /\ Len(s) = b + 3
    BY <1>0, <1>3
  <2> HIDE DEF b
  <2>10. 2 \in Nat /\ 2 < Len(s)
    BY <2>0
  <2>11. PICK r1 \in Seq(T) : CopyUp(s, 2) = {r1} /\ CopiedUp(r1, s, 2)
    BY <2>10, CopyUpIs
  <2>12. Len(r1) = b + 4 /\ \A k \in 1 .. b : r1[k] = s[k]
    BY <2>0, <2>11 DEF CopiedUp
  <2>13. r1[b + 1] = s[b + 1]
    BY <2>0, <2>11 DEF CopiedUp
  <2>14. r1[b + 2] = s[b + 2]
    BY <2>0, <2>11 DEF CopiedUp
  <2>15. r1[b + 3] = s[b + 3]
    BY <2>0, <2>11 DEF CopiedUp
  <2>16. r1[b + 4] = s[b + 1]
    BY <2>0, <2>11 DEF CopiedUp
  <2>20. 2 \in Nat /\ 2 < Len(r1)
    BY <2>0, <2>12
  <2>21. PICK r2 \in Seq(T) : CopyUp(r1, 2) = {r2} /\ CopiedUp(r2, r1, 2)
    BY <2>20, CopyUpIs
  <2>22. Len(r2) = b + 5 /\ \A k \in 1 .. b : r2[k] = s[k]
    BY <2>0, <2>12, <2>21 DEF CopiedUp
  <2>23. r2[b + 1] = s[b + 1]
    <3>1. r2[b + 1] = r1[b + 1]
      BY <2>0, <2>12, <2>21 DEF CopiedUp
    <3> QED BY <3>1, <2>13
  <2>24. r2[b + 2] = s[b + 2]
    <3>1. r2[b + 2] = r1[b + 2]
      BY <2>0, <2>12, <2>21 DEF CopiedUp
    <3> QED BY <3>1, <2>14
  <2>25. r2[b + 3] = s[b + 3]
    <3>1. r2[b + 3] = r1[b + 3]
      BY <2>0, <2>12, <2>21 DEF CopiedUp
    <3> QED BY <3>1, <2>15
  <2>26. r2[b + 4] = s[b + 1]
    <3>1. r2[b + 4] = r1[b + 4]
      BY <2>0, <2>12, <2>21 DEF CopiedUp
    <3> QED BY <3>1, <2>16
  <2>27. r2[b + 5] = s[b + 2]
    <3>1. r2[b + 5] = r1[b + 2]
      BY <2>0, <2>12, <2>21 DEF CopiedUp
    <3> QED BY <3>1, <2>14
  <2>30. 2 \in Nat /\ 2 < Len(r2)
    BY <2>0, <2>22
  <2>31. PICK r3 \in Seq(T) : CopyUp(r2, 2) = {r3} /\ CopiedUp(r3, r2, 2)
    BY <2>30, CopyUpIs
  <2>32. Len(r3) = b + 6 /\ \A k \in 1 .. b : r3[k] = s[k]
    BY <2>0, <2>22, <2>31 DEF CopiedUp
  <2>33. r3[b + 1] = s[b + 1]
    <3>1. r3[b + 1] = r2[b + 1]
      BY <2>0, <2>22, <2>31 DEF CopiedUp
    <3> QED BY <3>1, <2>23
  <2>34. r3[b + 2] = s[b + 2]
    <3>1. r3[b + 2] = r2[b + 2]
      BY <2>0, <2>22, <2>31 DEF CopiedUp
    <3> QED BY <3>1, <2>24
  <2>35. r3[b + 3] = s[b + 3]
    <3>1. r3[b + 3] = r2[b + 3]
      BY <2>0, <2>22, <2>31 DEF CopiedUp
    <3> QED BY <3>1, <2>25
  <2>36. r3[b + 4] = s[b + 1]
    <3>1. r3[b + 4] = r2[b + 4]
      BY <2>0, <2>22, <2>31 DEF CopiedUp
    <3> QED BY <3>1, <2>26
  <2>37. r3[b + 5] = s[b + 2]
    <3>1. r3[b + 5] = r2[b + 5]
      BY <2>0, <2>22, <2>31 DEF CopiedUp
    <3> QED BY <3>1, <2>27
  <2>38. r3[b + 6] = s[b + 3]
    <3>1. r3[b + 6] = r2[b + 3]
      BY <2>0, <2>22, <2>31 DEF CopiedUp
    <3> QED BY <3>1, <2>25
  <2>40. DupN(s, 3) = {r3}
    <3>1. UNION {CopyUp(t, 2) : t \in {r1}} = {r2}
      BY <2>21
    <3>2. UNION {CopyUp(t, 2) : t \in {r2}} = {r3}
      BY <2>31
    <3> QED BY <1>1, <2>11, <3>1, <3>2
  <2>41. \A k \in 1 .. Len(to) : r3[b + k] = s[b + to[k]]
    <3> SUFFICES ASSUME NEW k \in 1 .. 6 PROVE r3[b + k] = s[b + to[k]]
      OBVIOUS
    <3>1. k = 1 \/ k = 2 \/ k = 3 \/ k = 4 \/ k = 5 \/ k = 6
      OBVIOUS
    <3>11. CASE k = 1
      BY <3>11, <2>33
    <3>12. CASE k = 2
      BY <3>12, <2>34
    <3>13. CASE k = 3
      BY <3>13, <2>35
    <3>14. CASE k = 4
      BY <3>14, <2>36
    <3>15. CASE k = 5
      BY <3>15, <2>37
    <3>16. CASE k = 6
      BY <3>16, <2>38
    <3> QED BY <3>1, <3>11, <3>12, <3>13, <3>14, <3>15, <3>16
  <2>42. to \in Seq(1 .. 3) /\ Len(to) = 6
    OBVIOUS
  <2> HIDE DEF to
  <2>43. Len(r3) = Len(s) - 3 + Len(to)
    BY <2>0, <2>32, <2>42
  <2>44. Replaces(DupN(s, 3), s, 3, to)
    BY <2>0, <2>40, <2>32, <2>41, <2>42, <2>43, ReplacesBy DEF b
  <2> QED BY <2>44 DEF to
<1> QED BY <1>0, <1>2, <1>3

LEMMA OverN2Turns ==
  ASSUME NEW s
  PROVE  OverN(s, 2) = UNION {CopyUp(t, 3) : t \in CopyUp(s, 3)}
<1> DEFINE A(S) == UNION {CopyUp(t, 2 * 2 - 1) : t \in S}
           R(f) == f = [k \in 0 .. 2 |-> IF k = 0 THEN {s} ELSE A(f[k - 1])]
           h == [k \in 0 .. 2 |-> IF k = 0 THEN {s} ELSE IF k = 1 THEN A({s}) ELSE A(A({s}))]
           g == CHOOSE f : R(f)
<1>1. OverN(s, 2) = g[2]
  BY DEF OverN, Loop
<1>2. \A S : A(S) = UNION {CopyUp(t, 3) : t \in S}
  OBVIOUS
<1> HIDE DEF A
<1>3. R(h)
  OBVIOUS
<1>4. R(g)
  <2> HIDE DEF h, R
  <2> QED BY <1>3
<1> HIDE DEF g
<1>5. ASSUME NEW k \in 0 .. 2 PROVE g[k] = IF k = 0 THEN {s} ELSE A(g[k - 1])
  BY <1>4, Zenon
<1> HIDE DEF R
<1>6. g[0] = {s} /\ g[1] = A(g[0]) /\ g[2] = A(g[1])
  BY <1>5
<1>7. A({s}) = CopyUp(s, 3)
  BY <1>2
<1> QED BY <1>1, <1>2, <1>6, <1>7

LEMMA Result2OVER ==
  ASSUME NEW T, NEW s \in Seq(T)
  PROVE  Replaces(OverN(s, 2), s, 4, <<1, 2, 3, 4, 1, 2>>)
<1>0. Len(s) \in Nat
  OBVIOUS
<1>1. OverN(s, 2) = UNION {CopyUp(t, 3) : t \in CopyUp(s, 3)}
  BY OverN2Turns
<1>2. CASE Len(s) < 4
  <2>1. 3 >= Len(s) /\ 3 \in Nat
    BY <1>0, <1>2
  <2>2. CopyUp(s, 3) = {}
    BY <2>1, TooShort
  <2> QED BY <1>0, <1>1, <1>2, <2>2 DEF Replaces
<1>3. CASE Len(s) >= 4
  <2> DEFINE b == Len(s) - 4
             to == <<1, 2, 3, 4, 1, 2>>
  <2>0. b \in Nat /\ 4 \in 0 .. Len(s) /\ Len(s) = b + 4
    BY <1>0, <1>3
  <2> HIDE DEF b
  <2>10. 3 \in Nat /\ 3 < Len(s)
    BY <2>0
  <2>11. PICK r1 \in Seq(T) : CopyUp(s, 3) = {r1} /\ CopiedUp(r1, s, 3)
    BY <2>10, CopyUpIs
  <2>12. Len(r1) = b + 5 /\ \A k \in 1 .. b : r1[k] = s[k]
    BY <2>0, <2>11 DEF CopiedUp
  <2>13. r1[b + 1] = s[b + 1]
    BY <2>0, <2>11 DEF CopiedUp
  <2>14. r1[b + 2] = s[b + 2]
    BY <2>0, <2>11 DEF CopiedUp
  <2>15. r1[b + 3] = s[b + 3]
    BY <2>0, <2>11 DEF CopiedUp
  <2>16. r1[b + 4] = s[b + 4]
    BY <2>0, <2>11 DEF CopiedUp
  <2>17. r1[b + 5] = s[b + 1]
    BY <2>0, <2>11 DEF CopiedUp
  <2>20. 3 \in Nat /\ 3 < Len(r1)
    BY <2>0, <2>12
  <2>21. PICK r2 \in Seq(T) : CopyUp(r1, 3) = {r2} /\ CopiedUp(r2, r1, 3)
    BY <2>20, CopyUpIs
  <2>22. Len(r2) = b + 6 /\ \A k \in 1 .. b : r2[k] = s[k]
    BY <2>0, <2>12, <2>21 DEF CopiedUp
  <2>23. r2[b + 1] = s[b + 1]
    <3>1. r2[b + 1] = r1[b + 1]
      BY <2>0, <2>12, <2>21 DEF CopiedUp
    <3> QED BY <3>1, <2>13
  <2>24. r2[b + 2] = s[b + 2]
    <3>1. r2[b + 2] = r1[b + 2]
      BY <2>0, <2>12, <2>21 DEF CopiedUp
    <3> QED BY <3>1, <2>14
  <2>25. r2[b + 3] = s[b + 3]
    <3>1. r2[b + 3] = r1[b + 3]
      BY <2>0, <2>12, <2>21 DEF CopiedUp
    <3> QED BY <3>1, <2>15
  <2>26. r2[b + 4] = s[b + 4]
    <3>1. r2[b + 4] = r1[b + 4]
      BY <2>0, <2>12, <2>21 DEF CopiedUp
    <3> QED BY <3>1, <2>16
  <2>27. r2[b + 5] = s[b + 1]
    <3>1. r2[b + 5] = r1[b + 5]
      BY <2>0, <2>12, <2>21 DEF CopiedUp
    <3> QED BY <3>1, <2>17
  <2>28. r2[b + 6] = s[b + 2]
    <3>1. r2[b + 6] = r1[b + 2]
      BY <2>0, <2>12, <2>21 DEF CopiedUp
    <3> QED BY <3>1, <2>14
  <2>40. OverN(s, 2) = {r2}
    BY <1>1, <2>11, <2>21
  <2>41. \A k \in 1 .. Len(to) : r2[b + k] = s[b + to[k]]
    <3> SUFFICES ASSUME NEW k \in 1 .. 6 PROVE r2[b + k] = s[b + to[k]]
      OBVIOUS
    <3>1. k = 1 \/ k = 2 \/ k = 3 \/ k = 4 \/ k = 5 \/ k = 6
      OBVIOUS
    <3>11. CASE k = 1
      BY <3>11, <2>23
    <3>12. CASE k = 2
      BY <3>12, <2>24
    <3>13. CASE k = 3
      BY <3>13, <2>25
    <3>14. CASE k = 4
      BY <3>14, <2>26
    <3>15. CASE k = 5
      BY <3>15, <2>27
    <3>16. CASE k = 6
      BY <3>16, <2>28
    <3> QED BY <3>1, <3>11, <3>12, <3>13, <3>14, <3>15, <3>16
  <2>42. to \in Seq(1 .. 4) /\ Len(to) = 6
    OBVIOUS
  <2> HIDE DEF to
  <2>43. Len(r2) = Len(s) - 4 + Len(to)
    BY <2>0, <2>22, <2>42
  <2>44. Replaces(OverN(s, 2), s, 4, to)
    BY <2>0, <2>40, <2>22, <2>41, <2>42, <2>43, ReplacesBy DEF b
  <2> QED BY <2>44 DEF to
<1> QED BY <1>0, <1>2, <1>3

LEMMA RotN2Turns ==
  ASSUME NEW s
  PROVE  RotN(s, 2) = UNION {MoveUp(t, 5) : t \in MoveUp(s, 5)}
<1> DEFINE A(S) == UNION {MoveUp(t, 3 * 2 - 1) : t \in S}
           R(f) == f = [k \in 0 .. 2 |-> IF k = 0 THEN {s} ELSE A(f[k - 1])]
           h == [k \in 0 .. 2 |-> IF k = 0 THEN {s} ELSE IF k = 1 THEN A({s}) ELSE A(A({s}))]
           g == CHOOSE f : R(f)
<1>1. RotN(s, 2) = g[2]
  BY DEF RotN, Loop
<1>2. \A S : A(S) = UNION {MoveUp(t, 5) : t \in S}
  OBVIOUS
<1> HIDE DEF A
<1>3. R(h)
  OBVIOUS
<1>4. R(g)
  <2> HIDE DEF h, R
  <2> QED BY <1>3
<1> HIDE DEF g
<1>5. ASSUME NEW k \in 0 .. 2 PROVE g[k] = IF k = 0 THEN {s} ELSE A(g[k - 1])
  BY <1>4, Zenon
<1> HIDE DEF R
<1>6. g[0] = {s} /\ g[1] = A(g[0]) /\ g[2] = A(g[1])
  BY <1>5
<1>7. A({s}) = MoveUp(s, 5)
  BY <1>2
<1> QED BY <1>1, <1>2, <1>6, <1>7

LEMMA Result2ROT ==
  ASSUME NEW T, NEW s \in Seq(T)
  PROVE  Replaces(RotN(s, 2), s, 6, <<3, 4, 5, 6, 1, 2>>)
<1>0. Len(s) \in Nat
  OBVIOUS
<1>1. RotN(s, 2) = UNION {MoveUp(t, 5) : t \in MoveUp(s, 5)}
  BY RotN2Turns
<1>2. CASE Len(s) < 6
  <2>1. 5 >= Len(s) /\ 5 \in Nat
    BY <1>0, <1>2
  <2>2. MoveUp(s, 5) = {}
    BY <2>1, TooShort
  <2> QED BY <1>0, <1>1, <1>2, <2>2 DEF Replaces
<1>3. CASE Len(s) >= 6
  <2> DEFINE b == Len(s) - 6
             to == <<3, 4, 5, 6, 1, 2>>
  <2>0. b \in Nat /\ 6 \in 0 .. Len(s) /\ Len(s) = b + 6
    BY <1>0, <1>3
  <2> HIDE DEF b
  <2>10. 5 \in Nat /\ 5 < Len(s)
    BY <2>0
  <2>11. PICK r1 \in Seq(T) : MoveUp(s, 5) = {r1} /\ MovedUp(r1, s, 5)
    BY <2>10, MoveUpIs
  <2>12. Len(r1) = b + 6 /\ \A k \in 1 .. b : r1[k] = s[k]
    BY <2>0, <2>11 DEF MovedUp
  <2>13. r1[b + 1] = s[b + 2]
    BY <2>0, <2>11 DEF MovedUp
  <2>14. r1[b + 2] = s[b + 3]
    BY <2>0, <2>11 DEF MovedUp
  <2>15. r1[b + 3] = s[b + 4]
    BY <2>0, <2>11 DEF MovedUp
  <2>16. r1[b + 4] = s[b + 5]
    BY <2>0, <2>11 DEF MovedUp
  <2>17. r1[b + 5] = s[b + 6]
    BY <2>0, <2>11 DEF MovedUp
  <2>18. r1[b + 6] = s[b + 1]
    BY <2>0, <2>11 DEF MovedUp
  <2>20. 5 \in Nat /\ 5 < Len(r1)
    BY <2>0, <2>12
  <2>21. PICK r2 \in Seq(T) : MoveUp(r1, 5) = {r2} /\ MovedUp(r2, r1, 5)
    BY <2>20, MoveUpIs
  <2>22. Len(r2) = b + 6 /\ \A k \in 1 .. b : r2[k] = s[k]
    BY <2>0, <2>12, <2>21 DEF MovedUp
  <2>23. r2[b + 1] = s[b + 3]
    <3>1. r2[b + 1] = r1[b + 2]
      BY <2>0, <2>12, <2>21 DEF MovedUp
    <3> QED BY <3>1, <2>14
  <2>24. r2[b + 2] = s[b + 4]
    <3>1. r2[b + 2] = r1[b + 3]
      BY <2>0, <2>12, <2>21 DEF MovedUp
    <3> QED BY <3>1, <2>15
  <2>25. r2[b + 3] = s[b + 5]
    <3>1. r2[b + 3] = r1[b + 4]
      BY <2>0, <2>12, <2>21 DEF MovedUp
    <3> QED BY <3>1, <2>16
  <2>26. r2[b + 4] = s[b + 6]
    <3>1. r2[b + 4] = r1[b + 5]
      BY <2>0, <2>12, <2>21 DEF MovedUp
    <3> QED BY <3>1, <2>17
  <2>27. r2[b + 5] = s[b + 1]
    <3>1. r2[b + 5] = r1[b + 6]
      BY <2>0, <2>12, <2>21 DEF MovedUp
    <3> QED BY <3>1, <2>18
  <2>28. r2[b + 6] = s[b + 2]
    <3>1. r2[b + 6] = r1[b + 1]
      BY <2>0, <2>12, <2>21 DEF MovedUp
    <3> QED BY <3>1, <2>13
  <2>40. RotN(s, 2) = {r2}
    BY <1>1, <2>11, <2>21
  <2>41. \A k \in 1 .. Len(to) : r2[b + k] = s[b + to[k]]
    <3> SUFFICES ASSUME NEW k \in 1 .. 6 PROVE r2[b + k] = s[b + to[k]]
      OBVIOUS
    <3>1. k = 1 \/ k = 2 \/ k = 3 \/ k = 4 \/ k = 5 \/ k = 6
      OBVIOUS
    <3>11. CASE k = 1
      BY <3>11, <2>23
    <3>12. CASE k = 2
      BY <3>12, <2>24
    <3>13. CASE k = 3
      BY <3>13, <2>25
    <3>14. CASE k = 4
      BY <3>14, <2>26
    <3>15. CASE k = 5
      BY <3>15, <2>27
    <3>16. CASE k = 6
      BY <3>16, <2>28
    <3> QED BY <3>1, <3>11, <3>12, <3>13, <3>14, <3>15, <3>16
  <2>42. to \in Seq(1 .. 6) /\ Len(to) = 6
    OBVIOUS
  <2> HIDE DEF to
  <2>43. Len(r2) = Len(s) - 6 + Len(to)
    BY <2>0, <2>22, <2>42
  <2>44. Replaces(RotN(s, 2), s, 6, to)
    BY <2>0, <2>40, <2>22, <2>41, <2>42, <2>43, ReplacesBy DEF b
  <2> QED BY <2>44 DEF to
<1> QED BY <1>0, <1>2, <1>3

LEMMA SwapN2Turns ==
  ASSUME NEW s
  PROVE  SwapN(s, 2) = UNION {MoveUp(t, 3) : t \in MoveUp(s, 3)}
<1> DEFINE A(S) == UNION {MoveUp(t, 2 * 2 - 1) : t \in S}
           R(f) == f = [k \in 0 .. 2 |-> IF k = 0 THEN {s} ELSE A(f[k - 1])]
           h == [k \in 0 .. 2 |-> IF k = 0 THEN {s} ELSE IF k = 1 THEN A({s}) ELSE A(A({s}))]
           g == CHOOSE f : R(f)
<1>1. SwapN(s, 2) = g[2]
  BY DEF SwapN, Loop
<1>2. \A S : A(S) = UNION {MoveUp(t, 3) : t \in S}
  OBVIOUS
<1> HIDE DEF A
<1>3. R(h)
  OBVIOUS
<1>4. R(g)
  <2> HIDE DEF h, R
  <2> QED BY <1>3
<1> HIDE DEF g
<1>5. ASSUME NEW k \in 0 .. 2 PROVE g[k] = IF k = 0 THEN {s} ELSE A(g[k - 1])
  BY <1>4, Zenon
<1> HIDE DEF R
<1>6. g[0] = {s} /\ g[1] = A(g[0]) /\ g[2] = A(g[1])
  BY <1>5
<1>7. A({s}) = MoveUp(s, 3)
  BY <1>2
<1> QED BY <1>1, <1>2, <1>6, <1>7

LEMMA Result2SWAP ==
  ASSUME NEW T, NEW s \in Seq(T)
  PROVE  Replaces(SwapN(s, 2), s, 4, <<3, 4, 1, 2>>)
<1>0. Len(s) \in Nat
  OBVIOUS
<1>1. SwapN(s, 2) = UNION {MoveUp(t, 3) : t \in MoveUp(s, 3)}
  BY SwapN2Turns
<1>2. CASE Len(s) < 4
  <2>1. 3 >= Len(s) /\ 3 \in Nat
    BY <1>0, <1>2
  <2>2. MoveUp(s, 3) = {}
    BY <2>1, TooShort
  <2> QED BY <1>0, <1>1, <1>2, <2>2 DEF Replaces
<1>3. CASE Len(s) >= 4
  <2> DEFINE b == Len(s) - 4
             to == <<3, 4, 1, 2>>
  <2>0. b \in Nat /\ 4 \in 0 .. Len(s) /\ Len(s) = b + 4
    BY <1>0, <1>3
  <2> HIDE DEF b
  <2>10. 3 \in Nat /\ 3 < Len(s)
    BY <2>0
  <2>11. PICK r1 \in Seq(T) : MoveUp(s, 3) = {r1} /\ MovedUp(r1, s, 3)
    BY <2>10, MoveUpIs
  <2>12. Len(r1) = b + 4 /\ \A k \in 1 .. b : r1[k] = s[k]
    BY <2>0, <2>11 DEF MovedUp
  <2>13. r1[b + 1] = s[b + 2]
    BY <2>0, <2>11 DEF MovedUp
  <2>14. r1[b + 2] = s[b + 3]
    BY <2>0, <2>11 DEF MovedUp
  <2>15. r1[b + 3] = s[b + 4]
    BY <2>0, <2>11 DEF MovedUp
  <2>16. r1[b + 4] = s[b + 1]
    BY <2>0, <2>11 DEF MovedUp
  <2>20. 3 \in Nat /\ 3 < Len(r1)
    BY <2>0, <2>12
  <2>21. PICK r2 \in Seq(T) : MoveUp(r1, 3) = {r2} /\ MovedUp(r2, r1, 3)
    BY <2>20, MoveUpIs
  <2>22. Len(r2) = b + 4 /\ \A k \in 1 .. b : r2[k] = s[k]
    BY <2>0, <2>12, <2>21 DEF MovedUp
  <2>23. r2[b + 1] = s[b + 3]
    <3>1. r2[b + 1] = r1[b + 2]
      BY <2>0, <2>12, <2>21 DEF MovedUp
    <3> QED BY <3>1, <2>14
  <2>24. r2[b + 2] = s[b + 4]
    <3>1. r2[b + 2] = r1[b + 3]
      BY <2>0, <2>12, <2>21 DEF MovedUp
    <3> QED BY <3>1, <2>15
  <2>25. r2[b + 3] = s[b + 1]
    <3>1. r2[b + 3] = r1[b + 4]
      BY <2>0, <2>12, <2>21 DEF MovedUp
    <3> QED BY <3>1, <2>16
  <2>26. r2[b + 4] = s[b + 2]
    <3>1. r2[b + 4] = r1[b + 1]
      BY <2>0, <2>12, <2>21 DEF MovedUp
    <3> QED BY <3>1, <2>13
  <2>40. SwapN(s, 2) = {r2}
    BY <1>1, <2>11, <2>21
  <2>41. \A k \in 1 .. Len(to) : r2[b + k] = s[b + to[k]]
    <3> SUFFICES ASSUME NEW k \in 1 .. 4 PROVE r2[b + k] = s[b + to[k]]
      OBVIOUS
    <3>1. k = 1 \/ k = 2 \/ k = 3 \/ k = 4
      OBVIOUS
    <3>11. CASE k = 1
      BY <3>11, <2>23
    <3>12. CASE k = 2
      BY <3>12, <2>24
    <3>13. CASE k = 3
      BY <3>13, <2>25
    <3>14. CASE k = 4
      BY <3>14, <2>26
    <3> QED BY <3>1, <3>11, <3>12, <3>13, <3>14
  <2>42. to \in Seq(1 .. 4) /\ Len(to) = 4
    OBVIOUS
  <2> HIDE DEF to
  <2>43. Len(r2) = Len(s) - 4 + Len(to)
    BY <2>0, <2>22, <2>42
  <2>44. Replaces(SwapN(s, 2), s, 4, to)
    BY <2>0, <2>40, <2>22, <2>41, <2>42, <2>43, ReplacesBy DEF b
  <2> QED BY <2>44 DEF to
<1> QED BY <1>0, <1>2, <1>3

LEMMA DropN1Turns ==
  ASSUME NEW s
  PROVE  DropN(s, 1) = NipN(s, 0)
<1> DEFINE A(S) == UNION {NipN(t, 0) : t \in S}
           R(f) == f = [k \in 0 .. 1 |-> IF k = 0 THEN {s} ELSE A(f[k - 1])]
           h == [k \in 0 .. 1 |-> IF k = 0 THEN {s} ELSE A({s})]
           g == CHOOSE f : R(f)
<1>1. DropN(s, 1) = g[1]
  BY DEF DropN, Loop
<1>2. \A S : A(S) = UNION {NipN(t, 0) : t \in S}
  OBVIOUS
<1> HIDE DEF A
<1>3. R(h)
  OBVIOUS
<1>4. R(g)
  <2> HIDE DEF h, R
  <2> QED BY <1>3
<1> HIDE DEF g
<1>5. ASSUME NEW k \in 0 .. 1 PROVE g[k] = IF k = 0 THEN {s} ELSE A(g[k - 1])
  BY <1>4, Zenon
<1> HIDE DEF R
<1>6. g[0] = {s} /\ g[1] = A(g[0])
  BY <1>5
<1>7. A({s}) = NipN(s, 0)
  BY <1>2
<1> QED BY <1>1, <1>2, <1>6, <1>7

LEMMA ResultDROP ==
  ASSUME NEW T, NEW s \in Seq(T)
  PROVE  Replaces(DropN(s, 1), s, 1, <<>>)
<1>0. Len(s) \in Nat
  OBVIOUS
<1>1. DropN(s, 1) = NipN(s, 0)
  BY DropN1Turns
<1>2. CASE Len(s) < 1
  <2>1. 0 >= Len(s) /\ 0 \in Nat
    BY <1>0, <1>2
  <2>2. NipN(s, 0) = {}
    BY <2>1, TooShort
  <2> QED BY <1>0, <1>1, <1>2, <2>2 DEF Replaces
<1>3. CASE Len(s) >= 1
  <2> DEFINE b == Len(s) - 1
             to == <<>>
  <2>0. b \in Nat /\ 1 \in 0 .. Len(s) /\ Len(s) = b + 1
    BY <1>0, <1>3
  <2> HIDE DEF b
  <2>10. 0 \in Nat /\ 0 < Len(s)
    BY <2>0
  <2>11. PICK r1 \in Seq(T) : NipN(s, 0) = {r1} /\ Nipped(r1, s, 0)
    BY <2>10, NipNIs
  <2>12. Len(r1) = b + 0 /\ \A k \in 1 .. b : r1[k] = s[k]
    BY <2>0, <2>11 DEF Nipped
  <2>40. DropN(s, 1) = {r1}
    BY <1>1, <2>11
  <2>41. \A k \in 1 .. Len(to) : r1[b + k] = s[b + to[k]]
    OBVIOUS
  <2>42. to \in Seq(1 .. 1) /\ Len(to) = 0
    OBVIOUS
  <2> HIDE DEF to
  <2>43. Len(r1) = Len(s) - 1 + Len(to)
    BY <2>0, <2>12, <2>42
  <2>44. Replaces(DropN(s, 1), s, 1, to)
    BY <2>0, <2>40, <2>12, <2>41, <2>42, <2>43, ReplacesBy DEF b
  <2> QED BY <2>44 DEF to
<1> QED BY <1>0, <1>2, <1>3

LEMMA DupN1Turns ==
  ASSUME NEW s
  PROVE  DupN(s, 1) = CopyUp(s, 0)
<1> DEFINE A(S) == UNION {CopyUp(t, 1 - 1) : t \in S}
           R(f) == f = [k \in 0 .. 1 |-> IF k = 0 THEN {s} ELSE A(f[k - 1])]
           h == [k \in 0 .. 1 |-> IF k = 0 THEN {s} ELSE A({s})]
           g == CHOOSE f : R(f)
<1>1. DupN(s, 1) = g[1]
  BY DEF DupN, Loop
<1>2. \A S : A(S) = UNION {CopyUp(t, 0) : t \in S}
  OBVIOUS
<1> HIDE DEF A
<1>3. R(h)
  OBVIOUS
<1>4. R(g)
  <2> HIDE DEF h, R
  <2> QED BY <1>3
<1> HIDE DEF g
<1>5. ASSUME NEW k \in 0 .. 1 PROVE g[k] = IF k = 0 THEN {s} ELSE A(g[k - 1])
  BY <1>4, Zenon
<1> HIDE DEF R
<1>6. g[0] = {s} /\ g[1] = A(g[0])
  BY <1>5
<1>7. A({s}) = CopyUp(s, 0)
  BY <1>2
<1> QED BY <1>1, <1>2, <1>6, <1>7

LEMMA ResultDUP ==
  ASSUME NEW T, NEW s \in Seq(T)
  PROVE  Replaces(DupN(s, 1), s, 1, <<1, 1>>)
<1>0. Len(s) \in Nat
  OBVIOUS
<1>1. DupN(s, 1) = CopyUp(s, 0)
  BY DupN1Turns
<1>2. CASE Len(s) < 1
  <2>1. 0 >= Len(s) /\ 0 \in Nat
    BY <1>0, <1>2
  <2>2. CopyUp(s, 0) = {}
    BY <2>1, TooShort
  <2> QED BY <1>0, <1>1, <1>2, <2>2 DEF Replaces
<1>3. CASE Len(s) >= 1
  <2> DEFINE b == Len(s) - 1
             to == <<1, 1>>
  <2>0. b \in Nat /\ 1 \in 0 .. Len(s) /\ Len(s) = b + 1
    BY <1>0, <1>3
  <2> HIDE DEF b
  <2>10. 0 \in Nat /\ 0 < Len(s)
    BY <2>0
  <2>11. PICK r1 \in Seq(T) : CopyUp(s, 0) = {r1} /\ CopiedUp(r1, s, 0)
    BY <2>10, CopyUpIs
  <2>12. Len(r1) = b + 2 /\ \A k \in 1 .. b : r1[k] = s[k]
    BY <2>0, <2>11 DEF CopiedUp
  <2>13. r1[b + 1] = s[b + 1]
    BY <2>0, <2>11 DEF CopiedUp
  <2>14. r1[b + 2] = s[b + 1]
    BY <2>0, <2>11 DEF CopiedUp
  <2>40. DupN(s, 1) = {r1}
    BY <1>1, <2>11
  <2>41. \A k \in 1 .. Len(to) : r1[b + k] = s[b + to[k]]
    <3> SUFFICES ASSUME NEW k \in 1 .. 2 PROVE r1[b + k] = s[b + to[k]]
      OBVIOUS
    <3>1. k = 1 \/ k = 2
      OBVIOUS
    <3>11. CASE k = 1
      BY <3>11, <2>13
    <3>12. CASE k = 2
      BY <3>12, <2>14
    <3> QED BY <3>1, <3>11, <3>12
  <2>42. to \in Seq(1 .. 1) /\ Len(to) = 2
    OBVIOUS
  <2> HIDE DEF to
  <2>43. Len(r1) = Len(s) - 1 + Len(to)
    BY <2>0, <2>12, <2>42
  <2>44. Replaces(DupN(s, 1), s, 1, to)
    BY <2>0, <2>40, <2>12, <2>41, <2>42, <2>43, ReplacesBy DEF b
  <2> QED BY <2>44 DEF to
<1> QED BY <1>0, <1>2, <1>3

LEMMA ResultNIP ==
  ASSUME NEW T, NEW s \in Seq(T)
  PROVE  Replaces(NipN(s, 1), s, 2, <<2>>)
<1>0. Len(s) \in Nat
  OBVIOUS
<1>1. NipN(s, 1) = NipN(s, 1)
  BY Zenon
<1>2. CASE Len(s) < 2
  <2>1. 1 >= Len(s) /\ 1 \in Nat
    BY <1>0, <1>2
  <2>2. NipN(s, 1) = {}
    BY <2>1, TooShort
  <2> QED BY <1>0, <1>1, <1>2, <2>2 DEF Replaces
<1>3. CASE Len(s) >= 2
  <2> DEFINE b == Len(s) - 2
             to == <<2>>
  <2>0. b \in Nat /\ 2 \in 0 .. Len(s) /\ Len(s) = b + 2
    BY <1>0, <1>3
  <2> HIDE DEF b
  <2>10. 1 \in Nat /\ 1 < Len(s)
    BY <2>0
  <2>11. PICK r1 \in Seq(T) : NipN(s, 1) = {r1} /\ Nipped(r1, s, 1)
    BY <2>10, NipNIs
  <2>12. Len(r1) = b + 1 /\ \A k \in 1 .. b : r1[k] = s[k]
    BY <2>0, <2>11 DEF Nipped
  <2>13. r1[b + 1] = s[b + 2]
    BY <2>0, <2>11 DEF Nipped
  <2>40. NipN(s, 1) = {r1}
    BY <1>1, <2>11
  <2>41. \A k \in 1 .. Len(to) : r1[b + k] = s[b + to[k]]
    <3> SUFFICES ASSUME NEW k \in 1 .. 1 PROVE r1[b + k] = s[b + to[k]]
      OBVIOUS
    <3>1. k = 1
      OBVIOUS
    <3>11. CASE k = 1
      BY <3>11, <2>13
    <3> QED BY <3>1, <3>11
  <2>42. to \in Seq(1 .. 2) /\ Len(to) = 1
    OBVIOUS
  <2> HIDE DEF to
  <2>43. Len(r1) = Len(s) - 2 + Len(to)
    BY <2>0, <2>12, <2>42
  <2>44. Replaces(NipN(s, 1), s, 2, to)
    BY <2>0, <2>40, <2>12, <2>41, <2>42, <2>43, ReplacesBy DEF b
  <2> QED BY <2>44 DEF to
<1> QED BY <1>0, <1>2, <1>3

LEMMA OverN1Turns ==
  ASSUME NEW s
  PROVE  OverN(s, 1) = CopyUp(s, 1)
<1> DEFINE A(S) == UNION {CopyUp(t, 2 * 1 - 1) : t \in S}
           R(f) == f = [k \in 0 .. 1 |-> IF k = 0 THEN {s} ELSE A(f[k - 1])]
           h == [k \in 0 .. 1 |-> IF k = 0 THEN {s} ELSE A({s})]
           g == CHOOSE f : R(f)
<1>1. OverN(s, 1) = g[1]
  BY DEF OverN, Loop
<1>2. \A S : A(S) = UNION {CopyUp(t, 1) : t \in S}
  OBVIOUS
<1> HIDE DEF A
<1>3. R(h)
  OBVIOUS
<1>4. R(g)
  <2> HIDE DEF h, R
  <2> QED BY <1>3
<1> HIDE DEF g
<1>5. ASSUME NEW k \in 0 .. 1 PROVE g[k] = IF k = 0 THEN {s} ELSE A(g[k - 1])
  BY <1>4, Zenon
<1> HIDE DEF R
<1>6. g[0] = {s} /\ g[1] = A(g[0])
  BY <1>5
<1>7. A({s}) = CopyUp(s, 1)
  BY <1>2
<1> QED BY <1>1, <1>2, <1>6, <1>7

LEMMA ResultOVER ==
  ASSUME NEW T, NEW s \in Seq(T)
  PROVE  Replaces(OverN(s, 1), s, 2, <<1, 2, 1>>)
<1>0. Len(s) \in Nat
  OBVIOUS
<1>1. OverN(s, 1) = CopyUp(s, 1)
  BY OverN1Turns
<1>2. CASE Len(s) < 2
  <2>1. 1 >= Len(s) /\ 1 \in Nat
    BY <1>0, <1>2
  <2>2. CopyUp(s, 1) = {}
    BY <2>1, TooShort
  <2> QED BY <1>0, <1>1, <1>2, <2>2 DEF Replaces
<1>3. CASE Len(s) >= 2
  <2> DEFINE b == Len(s) - 2
             to == <<1, 2, 1>>
  <2>0. b \in Nat /\ 2 \in 0 .. Len(s) /\ Len(s) = b + 2
    BY <1>0, <1>3
  <2> HIDE DEF b
  <2>10. 1 \in Nat /\ 1 < Len(s)
    BY <2>0
  <2>11. PICK r1 \in Seq(T) : CopyUp(s, 1) = {r1} /\ CopiedUp(r1, s, 1)
    BY <2>10, CopyUpIs
  <2>12. Len(r1) = b + 3 /\ \A k \in 1 .. b : r1[k] = s[k]
    BY <2>0, <2>11 DEF CopiedUp
  <2>13. r1[b + 1] = s[b + 1]
    BY <2>0, <2>11 DEF CopiedUp
  <2>14. r1[b + 2] = s[b + 2]
    BY <2>0, <2>11 DEF CopiedUp
  <2>15. r1[b + 3] = s[b + 1]
    BY <2>0, <2>11 DEF CopiedUp
  <2>40. OverN(s, 1) = {r1}
    BY <1>1, <2>11
  <2>41. \A k \in 1 .. Len(to) : r1[b + k] = s[b + to[k]]
    <3> SUFFICES ASSUME NEW k \in 1 .. 3 PROVE r1[b + k] = s[b + to[k]]
      OBVIOUS
    <3>1. k = 1 \/ k = 2 \/ k = 3
      OBVIOUS
    <3>11. CASE k = 1
      BY <3>11, <2>13
    <3>12. CASE k = 2
      BY <3>12, <2>14
    <3>13. CASE k = 3
      BY <3>13, <2>15
    <3> QED BY <3>1, <3>11, <3>12, <3>13
  <2>42. to \in Seq(1 .. 2) /\ Len(to) = 3
    OBVIOUS
  <2> HIDE DEF to
  <2>43. Len(r1) = Len(s) - 2 + Len(to)
    BY <2>0, <2>12, <2>42
  <2>44. Replaces(OverN(s, 1), s, 2, to)
    BY <2>0, <2>40, <2>12, <2>41, <2>42, <2>43, ReplacesBy DEF b
  <2> QED BY <2>44 DEF to
<1> QED BY <1>0, <1>2, <1>3

LEMMA RotN1Turns ==
  ASSUME NEW s
  PROVE  RotN(s, 1) = MoveUp(s, 2)
<1> DEFINE A(S) == UNION {MoveUp(t, 3 * 1 - 1) : t \in S}
           R(f) == f = [k \in 0 .. 1 |-> IF k = 0 THEN {s} ELSE A(f[k - 1])]
           h == [k \in 0 .. 1 |-> IF k = 0 THEN {s} ELSE A({s})]
           g == CHOOSE f : R(f)
<1>1. RotN(s, 1) = g[1]
  BY DEF RotN, Loop
<1>2. \A S : A(S) = UNION {MoveUp(t, 2) : t \in S}
  OBVIOUS
<1> HIDE DEF A
<1>3. R(h)
  OBVIOUS
<1>4. R(g)
  <2> HIDE DEF h, R
  <2> QED BY <1>3
<1> HIDE DEF g
<1>5. ASSUME NEW k \in 0 .. 1 PROVE g[k] = IF k = 0 THEN {s} ELSE A(g[k - 1])
  BY <1>4, Zenon
<1> HIDE DEF R
<1>6. g[0] = {s} /\ g[1] = A(g[0])
  BY <1>5
<1>7. A({s}) = MoveUp(s, 2)
  BY <1>2
<1> QED BY <1>1, <1>2, <1>6, <1>7

LEMMA ResultROT ==
  ASSUME NEW T, NEW s \in Seq(T)
  PROVE  Replaces(RotN(s, 1), s, 3, <<2, 3, 1>>)
<1>0. Len(s) \in Nat
  OBVIOUS
<1>1. RotN(s, 1) = MoveUp(s, 2)
  BY RotN1Turns
<1>2. CASE Len(s) < 3
  <2>1. 2 >= Len(s) /\ 2 \in Nat
    BY <1>0, <1>2
  <2>2. MoveUp(s, 2) = {}
    BY <2>1, TooShort
  <2> QED BY <1>0, <1>1, <1>2, <2>2 DEF Replaces
<1>3. CASE Len(s) >= 3
  <2> DEFINE b == Len(s) - 3
             to == <<2, 3, 1>>
  <2>0. b \in Nat /\ 3 \in 0 .. Len(s) /\ Len(s) = b + 3
    BY <1>0, <1>3
  <2> HIDE DEF b
  <2>10. 2 \in Nat /\ 2 < Len(s)
    BY <2>0
  <2>11. PICK r1 \in Seq(T) : MoveUp(s, 2) = {r1} /\ MovedUp(r1, s, 2)
    BY <2>10, MoveUpIs
  <2>12. Len(r1) = b + 3 /\ \A k \in 1 .. b : r1[k] = s[k]
    BY <2>0, <2>11 DEF MovedUp
  <2>13. r1[b + 1] = s[b + 2]
    BY <2>0, <2>11 DEF MovedUp
  <2>14. r1[b + 2] = s[b + 3]
    BY <2>0, <2>11 DEF MovedUp
  <2>15. r1[b + 3] = s[b + 1]
    BY <2>0, <2>11 DEF MovedUp
  <2>40. RotN(s, 1) = {r1}
    BY <1>1, <2>11
  <2>41. \A k \in 1 .. Len(to) : r1[b + k] = s[b + to[k]]
    <3> SUFFICES ASSUME NEW k \in 1 .. 3 PROVE r1[b + k] = s[b + to[k]]
      OBVIOUS
    <3>1. k = 1 \/ k = 2 \/ k = 3
      OBVIOUS
    <3>11. CASE k = 1
      BY <3>11, <2>13
    <3>12. CASE k = 2
      BY <3>12, <2>14
    <3>13. CASE k = 3
      BY <3>13, <2>15
    <3> QED BY <3>1, <3>11, <3>12, <3>13
  <2>42. to \in Seq(1 .. 3) /\ Len(to) = 3
    OBVIOUS
  <2> HIDE DEF to
  <2>43. Len(r1) = Len(s) - 3 + Len(to)
    BY <2>0, <2>12, <2>42
  <2>44. Replaces(RotN(s, 1), s, 3, to)
    BY <2>0, <2>40, <2>12, <2>41, <2>42, <2>43, ReplacesBy DEF b
  <2> QED BY <2>44 DEF to
<1> QED BY <1>0, <1>2, <1>3

LEMMA SwapN1Turns ==
  ASSUME NEW s
  PROVE  SwapN(s, 1) = MoveUp(s, 1)
<1> DEFINE A(S) == UNION {MoveUp(t, 2 * 1 - 1) : t \in S}
           R(f) == f = [k \in 0 .. 1 |-> IF k = 0 THEN {s} ELSE A(f[k - 1])]
           h == [k \in 0 .. 1 |-> IF k = 0 THEN {s} ELSE A({s})]
           g == CHOOSE f : R(f)
<1>1. SwapN(s, 1) = g[1]
  BY DEF SwapN, Loop
<1>2. \A S : A(S) = UNION {MoveUp(t, 1) : t \in S}
  OBVIOUS
<1> HIDE DEF A
<1>3. R(h)
  OBVIOUS
<1>4. R(g)
  <2> HIDE DEF h, R
  <2> QED BY <1>3
<1> HIDE DEF g
<1>5. ASSUME NEW k \in 0 .. 1 PROVE g[k] = IF k = 0 THEN {s} ELSE A(g[k - 1])
  BY <1>4, Zenon
<1> HIDE DEF R
<1>6. g[0] = {s} /\ g[1] = A(g[0])
  BY <1>5
<1>7. A({s}) = MoveUp(s, 1)
  BY <1>2
<1> QED BY <1>1, <1>2, <1>6, <1>7

LEMMA ResultSWAP ==
  ASSUME NEW T, NEW s \in Seq(T)
  PROVE  Replaces(SwapN(s, 1), s, 2, <<2, 1>>)
<1>0. Len(s) \in Nat
  OBVIOUS
<1>1. SwapN(s, 1) = MoveUp(s, 1)
  BY SwapN1Turns
<1>2. CASE Len(s) < 2
  <2>1. 1 >= Len(s) /\ 1 \in Nat
    BY <1>0, <1>2
  <2>2. MoveUp(s, 1) = {}
    BY <2>1, TooShort
  <2> QED BY <1>0, <1>1, <1>2, <2>2 DEF Replaces
<1>3. CASE Len(s) >= 2
  <2> DEFINE b == Len(s) - 2
             to == <<2, 1>>
  <2>0. b \in Nat /\ 2 \in 0 .. Len(s) /\ Len(s) = b + 2
    BY <1>0, <1>3
  <2> HIDE DEF b
  <2>10. 1 \in Nat /\ 1 < Len(s)
    BY <2>0
  <2>11. PICK r1 \in Seq(T) : MoveUp(s, 1) = {r1} /\ MovedUp(r1, s, 1)
    BY <2>10, MoveUpIs
  <2>12. Len(r1) = b + 2 /\ \A k \in 1 .. b : r1[k] = s[k]
    BY <2>0, <2>11 DEF MovedUp
  <2>13. r1[b + 1] = s[b + 2]
    BY <2>0, <2>11 DEF MovedUp
  <2>14. r1[b + 2] = s[b + 1]
    BY <2>0, <2>11 DEF MovedUp
  <2>40. SwapN(s, 1) = {r1}
    BY <1>1, <2>11
  <2>41. \A k \in 1 .. Len(to) : r1[b + k] = s[b + to[k]]
    <3> SUFFICES ASSUME NEW k \in 1 .. 2 PROVE r1[b + k] = s[b + to[k]]
      OBVIOUS
    <3>1. k = 1 \/ k = 2
      OBVIOUS
    <3>11. CASE k = 1
      BY <3>11, <2>13
    <3>12. CASE k = 2
      BY <3>12, <2>14
    <3> QED BY <3>1, <3>11, <3>12
  <2>42. to \in Seq(1 .. 2) /\ Len(to) = 2
    OBVIOUS
  <2> HIDE DEF to
  <2>43. Len(r1) = Len(s) - 2 + Len(to)
    BY <2>0, <2>12, <2>42
  <2>44. Replaces(SwapN(s, 1), s, 2, to)
    BY <2>0, <2>40, <2>12, <2>41, <2>42, <2>43, ReplacesBy DEF b
  <2> QED BY <2>44 DEF to
<1> QED BY <1>0, <1>2, <1>3

LEMMA ResultTUCK ==
  ASSUME NEW T, NEW s \in Seq(T)
  PROVE  Replaces(Tuck(s), s, 2, <<2, 1, 2>>)
<1>0. Len(s) \in Nat
  OBVIOUS
<1>1. CASE Len(s) = 0
  <2>0. 0 \in Nat /\ 0 >= Len(s)
    BY <1>1
  <2>1. nipN(s, 0) = {}
    BY <2>0, TooShort
  <2>2. Tuck(s) = {}
    BY <2>1 DEF Tuck
  <2> QED BY <1>0, <1>1, <2>2 DEF Replaces
<1>3. CASE Len(s) = 1
  <2>0. 0 \in Nat /\ 0 < Len(s)
    BY <1>3
  <2>1. PICK r \in Seq(T) : nipN(s, 0) = {[so |-> s[Len(s) - 0], stk |-> r]} /\ Nipped(r, s, 0)
    BY <2>0, NipNIs
  <2>20. 0 >= Len(r)
    BY <1>3, <2>1 DEF Nipped
  <2>2. nipN(r, 0) = {}
    BY <2>0, <2>20, TooShort
  <2>3. Tuck(s) = {}
    BY <2>1, <2>2 DEF Tuck
  <2> QED BY <1>0, <1>3, <2>3 DEF Replaces
<1>4. CASE Len(s) >= 2
  <2> DEFINE b == Len(s) - 2
             to == <<2, 1, 2>>
  <2>0. b \in Nat /\ 2 \in 0 .. Len(s) /\ Len(s) = b + 2
    BY <1>0, <1>4
  <2> HIDE DEF b
  <2>1. PICK r \in Seq(T) : nipN(s, 0) = {[so |-> s[Len(s) - 0], stk |-> r]} /\ Nipped(r, s, 0)
    BY <2>0, NipNIs
  <2>2. Len(r) = b + 1 /\ r[b + 1] = s[b + 1] /\ \A k \in 1 .. b : r[k] = s[k]
    BY <2>0, <2>1 DEF Nipped
  <2>20. 0 \in Nat /\ 0 < Len(r)
    BY <2>0, <2>2
  <2>3. PICK q \in Seq(T) : nipN(r, 0) = {[so |-> r[Len(r) - 0], stk |-> q]} /\ Nipped(q, r, 0)
    BY <2>20, NipNIs
  <2>4. Len(q) = b /\ \A k \in 1 .. b : q[k] = s[k]
    BY <2>0, <2>2, <2>3 DEF Nipped
  <2> DEFINE x == s[b + 2]
             y == s[b + 1]
             z == q \o <<x, y, x>>
  <2>5. s[Len(s) - 0] = x /\ r[Len(r) - 0] = y /\ x \in T /\ y \in T
    BY <2>0, <2>2
  <2> HIDE DEF x, y
  <2> DEFINE v == [so |-> x, stk |-> r]
             w == [so |-> y, stk |-> q]
  <2>61. nipN(s, 0) = {v} /\ nipN(r, 0) = {w} /\ v.stk = r /\ v.so = x /\ w.stk = q /\ w.so = y
    BY <2>1, <2>3, <2>5
  <2> HIDE DEF v, w
  <2>62. UNION {nipN(u.stk, 0) : u \in nipN(s, 0)} = {w}
    BY <2>61
  <2>63. Tuck(s) = {w.stk \o <<v.so, w.so, v.so>>}
    <3> DEFINE W == UNION {nipN(u.stk, 0) : u \in nipN(s, 0)}
               V == nipN(s, 0)
    <3>1. Tuck(s) = {t.stk \o <<u.so, t.so, u.so>> : t \in W, u \in V}
      BY DEF Tuck
    <3>2. W = {w} /\ V = {v}
      BY <2>61, <2>62
    <3> HIDE DEF W, V
    <3> QED BY <3>1, <3>2
  <2>6. Tuck(s) = {z}
    BY <2>61, <2>63
  <2>7. /\ z \in Seq(T) /\ Len(z) = b + 3 /\ (\A k \in 1 .. b : z[k] = s[k])
        /\ z[b + 1] = x /\ z[b + 2] = y /\ z[b + 3] = x
    BY <2>0, <2>4, <2>5
  <2> HIDE DEF z
  <2>8. \A k \in 1 .. Len(to) : z[b + k] = s[b + to[k]]
    <3> SUFFICES ASSUME NEW k \in 1 .. 3 PROVE z[b + k] = s[b + to[k]]
      OBVIOUS
    <3>1. k = 1 \/ k = 2 \/ k = 3
      OBVIOUS
    <3> QED BY <2>7, <3>1 DEF x, y
  <2>9. to \in Seq(1 .. 2) /\ Len(to) = 3
    OBVIOUS
  <2> HIDE DEF to
  <2>10. Len(z) = Len(s) - 2 + Len(to)
    BY <2>0, <2>7, <2>9
  <2>11. Replaces(Tuck(s), s, 2, to)
    BY <2>0, <2>6, <2>7, <2>8, <2>9, <2>10, ReplacesBy DEF b
  <2> QED BY <2>11 DEF to
<1>5. ASSUME Len(s) < 2 PROVE Len(s) = 0 \/ Len(s) = 1
  BY <1>0, <1>5
<1>6. Len(s) < 2 \/ Len(s) >= 2
  BY <1>0
<1> QED BY <1>1, <1>3, <1>4, <1>5, <1>6

\* All pictures.
LEMMA StackResult ==
  ASSUME NEW T, NEW s \in Seq(T), NEW op \in DOMAIN Transformation
  PROVE  Replaces(StackOpcode(op, s), s, Transformation[op].n, Transformation[op].to)
<1>3. CASE op = "OP_2DROP"
  <2>1. StackOpcode(op, s) = DropN(s, 2)
    BY <1>3 DEF StackOpcode
  <2>2. Transformation[op] = [n |-> 2, to |-> <<>>]
    BY <1>3 DEF Transformation
  <2> QED BY <2>1, <2>2, Result2DROP
<1>4. CASE op = "OP_2DUP"
  <2>1. StackOpcode(op, s) = DupN(s, 2)
    BY <1>4 DEF StackOpcode
  <2>2. Transformation[op] = [n |-> 2, to |-> <<1, 2, 1, 2>>]
    BY <1>4 DEF Transformation
  <2> QED BY <2>1, <2>2, Result2DUP
<1>5. CASE op = "OP_3DUP"
  <2>1. StackOpcode(op, s) = DupN(s, 3)
    BY <1>5 DEF StackOpcode
  <2>2. Transformation[op] = [n |-> 3, to |-> <<1, 2, 3, 1, 2, 3>>]
    BY <1>5 DEF Transformation
  <2> QED BY <2>1, <2>2, Result3DUP
<1>6. CASE op = "OP_2OVER"
  <2>1. StackOpcode(op, s) = OverN(s, 2)
    BY <1>6 DEF StackOpcode
  <2>2. Transformation[op] = [n |-> 4, to |-> <<1, 2, 3, 4, 1, 2>>]
    BY <1>6 DEF Transformation
  <2> QED BY <2>1, <2>2, Result2OVER
<1>7. CASE op = "OP_2ROT"
  <2>1. StackOpcode(op, s) = RotN(s, 2)
    BY <1>7 DEF StackOpcode
  <2>2. Transformation[op] = [n |-> 6, to |-> <<3, 4, 5, 6, 1, 2>>]
    BY <1>7 DEF Transformation
  <2> QED BY <2>1, <2>2, Result2ROT
<1>8. CASE op = "OP_2SWAP"
  <2>1. StackOpcode(op, s) = SwapN(s, 2)
    BY <1>8 DEF StackOpcode
  <2>2. Transformation[op] = [n |-> 4, to |-> <<3, 4, 1, 2>>]
    BY <1>8 DEF Transformation
  <2> QED BY <2>1, <2>2, Result2SWAP
<1>9. CASE op = "OP_DROP"
  <2>1. StackOpcode(op, s) = DropN(s, 1)
    BY <1>9 DEF StackOpcode
  <2>2. Transformation[op] = [n |-> 1, to |-> <<>>]
    BY <1>9 DEF Transformation
  <2> QED BY <2>1, <2>2, ResultDROP
<1>10. CASE op = "OP_DUP"
  <2>1. StackOpcode(op, s) = DupN(s, 1)
    BY <1>10 DEF StackOpcode
  <2>2. Transformation[op] = [n |-> 1, to |-> <<1, 1>>]
    BY <1>10 DEF Transformation
  <2> QED BY <2>1, <2>2, ResultDUP
<1>11. CASE op = "OP_NIP"
  <2>1. StackOpcode(op, s) = NipN(s, 1)
    BY <1>11 DEF StackOpcode
  <2>2. Transformation[op] = [n |-> 2, to |-> <<2>>]
    BY <1>11 DEF Transformation
  <2> QED BY <2>1, <2>2, ResultNIP
<1>12. CASE op = "OP_OVER"
  <2>1. StackOpcode(op, s) = OverN(s, 1)
    BY <1>12 DEF StackOpcode
  <2>2. Transformation[op] = [n |-> 2, to |-> <<1, 2, 1>>]
    BY <1>12 DEF Transformation
  <2> QED BY <2>1, <2>2, ResultOVER
<1>13. CASE op = "OP_ROT"
  <2>1. StackOpcode(op, s) = RotN(s, 1)
    BY <1>13 DEF StackOpcode
  <2>2. Transformation[op] = [n |-> 3, to |-> <<2, 3, 1>>]
    BY <1>13 DEF Transformation
  <2> QED BY <2>1, <2>2, ResultROT
<1>14. CASE op = "OP_SWAP"
  <2>1. StackOpcode(op, s) = SwapN(s, 1)
    BY <1>14 DEF StackOpcode
  <2>2. Transformation[op] = [n |-> 2, to |-> <<2, 1>>]
    BY <1>14 DEF Transformation
  <2> QED BY <2>1, <2>2, ResultSWAP
<1>15. CASE op = "OP_TUCK"
  <2>1. StackOpcode(op, s) = Tuck(s)
    BY <1>15 DEF StackOpcode
  <2>2. Transformation[op] = [n |-> 2, to |-> <<2, 1, 2>>]
    BY <1>15 DEF Transformation
  <2> QED BY <2>1, <2>2, ResultTUCK
<1> QED BY <1>3, <1>4, <1>5, <1>6, <1>7, <1>8, <1>9, <1>10, <1>11, <1>12, <1>13, <1>14, <1>15 DEF Transformation

LEMMA StackTransformationsHold ==
  ASSUME NEW T, dstack \in Seq(T)
  PROVE  StackTransformations
<1> SUFFICES ASSUME NEW op \in DOMAIN Transformation
             PROVE  LET t == Transformation[op]
                        n == Len(dstack) - t.n
                    IN StackOpcode(op, dstack) =
                          IF n < 0 THEN {}
                          ELSE {SubSeq(dstack, 1, n) \o [k \in 1 .. Len(t.to) |-> dstack[n + t.to[k]]]}
  BY DEF StackTransformations
<1>1. Replaces(StackOpcode(op, dstack), dstack, Transformation[op].n, Transformation[op].to)
  BY StackResult
<1> QED BY <1>1 DEF Replaces

-----------------------------------------------------------------------------
(***************************************************************************)
(* Conversions.                                                            *)
(***************************************************************************)
LEMMA DigitAbove ==
  ASSUME NEW m \in Nat, NEW i \in Nat \ {0}, m < Weight(i - 1)
  PROVE  Digit(m, i) = 0 /\ m \div Weight(i - 1) = 0
<1>1. i - 1 \in Nat /\ Weight(i - 1) \in Nat \ {0} /\ Radix \in Nat /\ Radix > 1
  BY WeightType, Widths
<1> DEFINE w == Weight(i - 1)
<1> HIDE DEF w
<1>2. m \div w = 0
  BY <1>1 DEF w
<1>3. 0 % Radix = 0
  BY <1>1
<1> QED BY <1>2, <1>3 DEF Digit, w

LEMMA DigitTop ==
  ASSUME NEW m \in Nat, NEW i \in Nat \ {0}, m < SignBit * Weight(i - 1)
  PROVE  Digit(m, i) = m \div Weight(i - 1) /\ m \div Weight(i - 1) \in 0 .. SignBit - 1
<1>1. i - 1 \in Nat /\ Weight(i - 1) \in Nat \ {0}
  BY WeightType
<1> DEFINE w == Weight(i - 1)
           q == m \div w
<1>2. w \in Nat \ {0} /\ m < SignBit * w /\ SignBit \in Nat
  BY <1>1, Widths
<1> HIDE DEF w
<1>3. q \in 0 .. SignBit - 1
  BY <1>2
<1> HIDE DEF q
<1>4. q % Radix = q
  BY <1>3, Widths
<1> QED BY <1>3, <1>4 DEF Digit, w, q

\* A sign bit weighs between two bytes.
LEMMA TopWeight ==
  ASSUME NEW n \in Nat \ {0}
  PROVE  SignBit * Weight(n - 1) <= Weight(n) /\ SignBit * Weight(n - 1) \in Nat /\ Weight(n) \in Nat
         /\ Weight(n - 1) <= SignBit * Weight(n - 1)
<1>1. n - 1 \in Nat /\ (n - 1) + 1 = n
  OBVIOUS
<1>2. Weight(n) = Radix * Weight(n - 1) /\ Weight(n - 1) \in Nat
  BY <1>1, WeightStep, WeightType
<1> DEFINE w == Weight(n - 1)
<1> HIDE DEF w
<1>3. w \in Nat /\ Weight(n) = 2 * SignBit * w
  BY <1>2, Widths DEF w
<1> QED BY <1>3, Widths DEF w

\* The bytes of e spell m, with the sign on the top one.
Spells(e, m, sign) ==
    /\ e \in Element /\ Len(e) > 0 /\ sign \in {0, SignBit}
    /\ \A i \in 1 .. Len(e) - 1 : e[i] = Digit(m, i)
    /\ e[Len(e)] = (m \div Weight(Len(e) - 1)) + sign
    /\ m < SignBit * Weight(Len(e) - 1)

\* Bytes with a sign at the end spell one number.
LEMMA SpellsDecode ==
  ASSUME NEW m \in Nat, NEW e, NEW sign, Spells(e, m, sign)
  PROVE  Decode(e) = IF sign = SignBit THEN -m ELSE m
<1> DEFINE n == Len(e)
           w == Weight(n - 1)
<1>1. /\ e \in Element /\ n > 0 /\ \A i \in 1 .. n - 1 : e[i] = Digit(m, i)
      /\ e[n] = (m \div w) + sign /\ m < SignBit * w /\ sign \in {0, SignBit}
  BY DEF Spells
<1>2. n \in Nat /\ n - 1 \in 0 .. n /\ w \in Nat \ {0} /\ SignBit \in Nat \ {0}
  BY <1>1, StandsType, Widths
<1>3. LowBytes(e)[n - 1] = m % w
  <2>1. \A k \in 0 .. n - 1 : LowBytes(e)[k] = m % Weight(k)
    <3> HIDE DEF n, w
    <3> QED BY <1>1, <1>2, BytesOfDigits DEF n
  <2> QED BY <1>2, <2>1
<1>4. m \div w \in 0 .. SignBit - 1
  <2> HIDE DEF n, w
  <2> QED BY <1>1, <1>2
<1>5. e[n] % SignBit = m \div w /\ (e[n] >= SignBit <=> sign = SignBit)
  <2> DEFINE q == m \div w
  <2>1. q \in 0 .. SignBit - 1 /\ e[n] = q + sign /\ sign \in {0, SignBit}
    BY <1>1, <1>4
  <2> HIDE DEF q
  <2>2. (q + SignBit) % SignBit = q /\ q % SignBit = q
    BY <1>2, <2>1
  <2>3. e[n] % SignBit = q /\ (e[n] >= SignBit <=> sign = SignBit)
    BY <1>2, <2>1, <2>2
  <2> QED BY <2>3 DEF q
<1>6. Stands(e) = m
  <2>1. Stands(e) = (m % w) + (m \div w) * w
    BY <1>3, <1>5 DEF Stands
  <2>2. (m % w) + (m \div w) * w = m
    <3> HIDE DEF w
    <3> QED BY <1>2
  <2> QED BY <2>1, <2>2
<1>7. Decode(e) = IF e[n] >= SignBit THEN -Stands(e) ELSE Stands(e)
  BY <1>1, DecodeIs
<1> QED BY <1>5, <1>6, <1>7

\* OP_BIN2NUM: the trailing zeros go, and what is left is the encoding.
LEMMA MinimallyEncodes ==
  ASSUME NEW e \in Element
  PROVE  MinimallyEncode(e) = Encode(Decode(e))
<1>1. CASE Len(e) = 0
  <2>1. e = <<>>
    BY <1>1, ElementLen
  <2> QED BY <2>1, <1>1, DecodeType, EncodeType DEF MinimallyEncode
<1>2. CASE Len(e) > 0
  <2> DEFINE n == Len(e)
             v == Decode(e)
             M == Stands(e)
             d == [e EXCEPT ![n] = e[n] % SignBit]
             sign == IF e[n] >= SignBit THEN SignBit ELSE 0
             c == ByteCount(M)
  <2>1. /\ n \in Nat /\ n - 1 \in Nat /\ M \in Nat /\ M < SignBit * Weight(n - 1)
        /\ M \div Weight(n - 1) = e[n] % SignBit /\ e[n] % SignBit \in 0 .. SignBit - 1 /\ n > 0 /\ n # 0
    BY <1>2, StandsType
  <2>2. v = IF e[n] >= SignBit THEN -M ELSE M
    BY <1>2, DecodeIs
  <2>3. d \in Element /\ Len(d) = n /\ d[n] = e[n] % SignBit /\ \A i \in 1 .. n - 1 : d[i] = e[i]
    <3>1. e[n] % SignBit \in Byte
      BY <2>1, Widths DEF Byte
    <3> QED BY <2>1, <3>1 DEF Element
  <2>4. \A i \in 1 .. n : d[i] = Digit(M, i)
    <3>1. d[n] = Digit(M, n)
      <4> HIDE DEF M
      <4> QED BY <2>1, <2>3, DigitTop
    <3>2. \A i \in 1 .. n - 1 : d[i] = Digit(M, i)
      BY <1>2, <2>3, DigitOfStands
    <3> HIDE DEF d, n, M
    <3>3. ASSUME NEW i \in 1 .. n PROVE i = n \/ i \in 1 .. n - 1
      BY <2>1
    <3> QED BY <3>1, <3>2, <3>3
  <2>5. MinimallyEncode(e) = LET m == TrimRight(d)
                             IN IF m = <<>> THEN <<>>
                                ELSE IF m[Len(m)] >= SignBit THEN Append(m, sign)
                                ELSE [m EXCEPT ![Len(m)] = m[Len(m)] + sign]
    <3>1. e # <<>>
      BY <1>2, ElementLen
    <3> QED BY <3>1, Zenon DEF MinimallyEncode
  <2>6. c \in Nat /\ M < Weight(c) /\ (c > 0 => M >= Weight(c - 1))
    BY <2>1, ByteCountIs
  <2> HIDE DEF d, n, M, v, sign
  <2>7. c <= n
    <3> SUFFICES ASSUME c > n PROVE FALSE
      BY <2>1, <2>6
    <3>1. c - 1 \in Nat /\ n <= c - 1
      BY <2>1, <2>6
    <3>2. Weight(n) <= Weight(c - 1)
      BY <2>1, <3>1, WeightMonotone
    <3>3. SignBit * Weight(n - 1) <= Weight(n) /\ SignBit * Weight(n - 1) \in Nat /\ Weight(n) \in Nat
      BY <2>1, TopWeight
    <3>4. Weight(c - 1) \in Nat
      BY <3>1, WeightType
    <3> HIDE DEF c
    <3> QED BY <2>1, <2>6, <3>1, <3>2, <3>3, <3>4
  <2>8. c > 0 => d[c] # 0
    <3> SUFFICES ASSUME c > 0 PROVE d[c] # 0
      OBVIOUS
    <3>1. M > 0
      <4>1. Weight(c - 1) \in Nat \ {0}
        BY <2>6, WeightType
      <4> QED BY <2>1, <2>6, <4>1
    <3>2. LittleEndian(M)[c] > 0 /\ LittleEndian(M)[c] = Digit(M, c)
      <4>1. c \in 1 .. c
        BY <2>6
      <4>2. LittleEndian(M)[c] = Digit(M, c)
        BY <2>1, <4>1, LittleEndianIs
      <4> QED BY <2>1, <3>1, <4>2, LittleEndianValue
    <3>3. c \in 1 .. n
      BY <2>1, <2>6, <2>7
    <3> QED BY <2>4, <3>2, <3>3
  <2>9. \A i \in c + 1 .. n : d[i] = 0
    <3> SUFFICES ASSUME NEW i \in c + 1 .. n PROVE d[i] = 0
      OBVIOUS
    <3>1. i \in Nat \ {0} /\ c <= i - 1 /\ i - 1 \in Nat /\ i \in 1 .. n
      BY <2>1, <2>6
    <3>2. Weight(c) <= Weight(i - 1) /\ Weight(c) \in Nat /\ Weight(i - 1) \in Nat
      BY <2>6, <3>1, WeightMonotone, WeightType
    <3>3. M < Weight(i - 1)
      BY <2>1, <2>6, <3>2
    <3> QED BY <2>1, <2>4, <3>1, <3>3, DigitAbove
  <2> HIDE DEF c
  <2> DEFINE P(k) == (k > 0 => d[k] # 0) /\ \A i \in k + 1 .. Len(d) : d[i] = 0
  <2>10. c \in 0 .. Len(d) /\ P(c)
    BY <2>1, <2>3, <2>6, <2>7, <2>8, <2>9
  <2>11. ASSUME NEW k \in 0 .. Len(d), P(k) PROVE k = c
    <3>1. CASE k < c
      <4>1. c \in k + 1 .. Len(d) /\ c > 0
        BY <2>3, <2>10, <3>1
      <4> QED BY <2>8, <2>11, <4>1
    <3>2. CASE k > c
      <4>1. k \in c + 1 .. n /\ k > 0
        BY <2>3, <2>6, <2>11, <3>2
      <4> QED BY <2>9, <2>11, <4>1
    <3> QED BY <2>3, <2>6, <3>1, <3>2
  <2>12. TrimRight(d) = SubSeq(d, 1, c)
    <3>1. TrimRight(d) = SubSeq(d, 1, CHOOSE k \in 0 .. Len(d) : P(k))
      BY DEF TrimRight
    <3> HIDE DEF P
    <3>2. (CHOOSE k \in 0 .. Len(d) : P(k)) = c
      BY <2>10, <2>11
    <3> QED BY <3>1, <3>2
  <2>13. TrimRight(d) = LittleEndian(M)
    <3> DEFINE t == SubSeq(d, 1, c)
               le == LittleEndian(M)
    <3>1. t \in Seq(Byte) /\ Len(t) = c /\ \A i \in 1 .. c : t[i] = d[i]
      BY <2>3, <2>10 DEF Element
    <3>2. le \in Seq(Byte) /\ Len(le) = c /\ \A i \in 1 .. c : le[i] = Digit(M, i)
      BY <2>1, LittleEndianIs DEF c, Element
    <3>3. \A i \in 1 .. c : t[i] = le[i]
      BY <2>1, <2>4, <2>6, <2>7, <3>1, <3>2
    <3> HIDE DEF t, le
    <3>4. t = le
      BY <3>1, <3>2, <3>3, SameSeq
    <3> QED BY <2>12, <3>4 DEF t, le
  <2>14. CASE M = 0
    <3>1. v = 0
      BY <1>2, <2>14, DecodeType, MagnitudeType DEF v, M
    <3>2. c = 0
      <4>1. 0 < Weight(0) /\ 0 \in Nat
        BY WeightStep
      <4> QED BY <2>14, <4>1, ByteCountUnique DEF c
    <3>3. TrimRight(d) = <<>>
      <4>1. Len(LittleEndian(M)) = 0 /\ LittleEndian(M) \in Element
        BY <2>1, <3>2, LittleEndianIs DEF c
      <4> QED BY <2>13, <4>1, ElementLen
    <3>4. MinimallyEncode(e) = <<>>
      BY <2>5, <3>3, Zenon
    <3> QED BY <3>1, <3>4, EncodeType DEF v
  <2>15. CASE M # 0
    <3>1. v # 0 /\ Magnitude(v) = M /\ (v < 0 <=> e[n] >= SignBit) /\ v \in Int
      BY <2>1, <2>2, <2>15 DEF Magnitude
    <3> DEFINE le == LittleEndian(M)
               m == Len(le)
    <3>2. Encode(v) = IF le[m] >= SignBit THEN Append(le, IF v < 0 THEN SignBit ELSE 0)
                      ELSE [le EXCEPT ![m] = IF v < 0 THEN le[m] + SignBit ELSE le[m]]
      BY <3>1, Zenon DEF Encode
    <3>3. le \in Element /\ m = c /\ m > 0
      BY <2>1, <2>15, LittleEndianIs, LittleEndianValue DEF c
    <3>4. le # <<>> /\ le[m] \in Nat
      BY <3>3, ElementLen, ByteOf
    <3>5. MinimallyEncode(e) = IF le[m] >= SignBit THEN Append(le, sign) ELSE [le EXCEPT ![m] = le[m] + sign]
      BY <2>5, <2>13, <3>4, Zenon
    <3>6. sign = (IF v < 0 THEN SignBit ELSE 0)
      BY <3>1 DEF sign
    <3>7. le[m] + sign = (IF v < 0 THEN le[m] + SignBit ELSE le[m])
      BY <3>4, <3>6
    <3> HIDE DEF le, m
    <3>8. MinimallyEncode(e) = Encode(v)
      <4>1. Encode(v) = IF le[m] >= SignBit THEN Append(le, sign) ELSE [le EXCEPT ![m] = le[m] + sign]
        <5> DEFINE a == IF v < 0 THEN SignBit ELSE 0
                   b == IF v < 0 THEN le[m] + SignBit ELSE le[m]
        <5>1. Encode(v) = IF le[m] >= SignBit THEN Append(le, a) ELSE [le EXCEPT ![m] = b]
          BY <3>2, Zenon
        <5>2. sign = a /\ le[m] + sign = b
          BY <3>6, <3>7, Zenon
        <5> HIDE DEF a, b
        <5> QED BY <5>1, <5>2, Zenon
      <4> DEFINE X == IF le[m] >= SignBit THEN Append(le, sign) ELSE [le EXCEPT ![m] = le[m] + sign]
      <4>2. MinimallyEncode(e) = X /\ Encode(v) = X
        BY <3>5, <4>1
      <4> HIDE DEF X
      <4> QED BY <4>2
    <3> QED BY <3>8 DEF v
  <2> QED BY <2>14, <2>15
<1> QED BY <1>1, <1>2, ElementLen

\* Bytes as a sequence.
LEMMA BytesAre ==
  ASSUME NEW n \in Nat, NEW f, \A i \in 1 .. n : f[i] \in Byte
  PROVE  LET b == SubSeq([i \in 1 .. n |-> f[i]], 1, n)
         IN b \in Element /\ Len(b) = n /\ \A i \in 1 .. n : b[i] = f[i]
BY DEF Element

\* OP_NUM2BIN: the bytes of e, padded to size, spell the same number.
LEMMA FixedIs ==
  ASSUME NEW e \in Element, NEW size \in Nat, Len(e) <= size, NEW n, BigNumBytes(n) = {e}
  PROVE  \E W \in Element : FixedBytes(n, size) = {W} /\ Len(W) = size /\ Decode(W) = Decode(e)
<1> DEFINE L == Len(e)
           body(i) == IF i < L THEN e[i] ELSE IF i = L THEN e[i] % SignBit ELSE 0
           sign == IF e # <<>> /\ e[L] >= SignBit THEN SignBit ELSE 0
           f == [i \in 1 .. size |-> IF i = size THEN body(i) + sign ELSE body(i)]
           W == SubSeq(f, 1, size)
<1>1. FixedBytes(n, size) = {W}
  <2>1. {x \in BigNumBytes(n) : Len(x) <= size} = {e}
    OBVIOUS
  <2> QED BY <2>1 DEF FixedBytes, Bytes
<1>2. L \in Nat /\ L <= size /\ (e = <<>> <=> L = 0)
  BY ElementLen
<1>3. SignBit \in Nat /\ SignBit > 1 /\ Radix = 2 * SignBit /\ sign \in {0, SignBit}
  BY Widths
<1>4. L > 0 => e[L] % SignBit \in 0 .. SignBit - 1
  BY StandsType
<1>5. ASSUME NEW i \in 1 .. size PROVE body(i) \in 0 .. Radix - 1 /\ (i >= L => body(i) \in 0 .. SignBit - 1)
  <2>1. CASE i < L
    <3>1. i \in 1 .. Len(e)
      BY <1>2, <2>1
    <3>2. e[i] \in 0 .. Radix - 1
      BY <3>1, ByteOf
    <3> QED BY <1>2, <2>1, <3>2
  <2>2. CASE i = L
    BY <1>3, <1>4, <2>2
  <2>3. CASE i > L
    BY <1>2, <1>3, <2>3
  <2> QED BY <1>2, <2>1, <2>2, <2>3
<1> HIDE DEF sign
<1>6. \A i \in 1 .. size : f[i] \in Byte
  <2> SUFFICES ASSUME NEW i \in 1 .. size PROVE f[i] \in 0 .. Radix - 1
    BY DEF Byte
  <2>1. body(i) \in 0 .. Radix - 1 /\ (i >= L => body(i) \in 0 .. SignBit - 1)
    BY <1>5
  <2>2. f[i] = IF i = size THEN body(i) + sign ELSE body(i)
    OBVIOUS
  <2> HIDE DEF body, f
  <2> QED BY <1>2, <1>3, <2>1, <2>2
<1>7. W \in Element /\ Len(W) = size /\ \A i \in 1 .. size : W[i] = f[i]
  <2> HIDE DEF body
  <2>1. f = [i \in 1 .. size |-> f[i]]
    OBVIOUS
  <2> HIDE DEF f
  <2> QED BY <1>6, <2>1, BytesAre
<1>8. \A i \in 1 .. size : W[i] = IF i = size THEN body(i) + sign ELSE body(i)
  <2> HIDE DEF body, W
  <2> QED BY <1>7
<1> HIDE DEF W, f
<1>9. CASE size = 0
  <2>1. Len(W) = 0 /\ Len(e) = 0
    BY <1>2, <1>7, <1>9
  <2>2. Decode(W) = 0 /\ Decode(e) = 0
    BY <1>7, <2>1, DecodeType
  <2> QED BY <1>1, <1>7, <2>2
<1>10. CASE size > 0 /\ L = 0
  <2>1. sign = 0
    BY <1>2, <1>10 DEF sign
  <2>2. \A i \in 1 .. size : W[i] = 0
    BY <1>8, <1>10, <2>1
  <2>3. Spells(W, 0, 0)
    <3>1. \A i \in 1 .. size - 1 : Digit(0, i) = 0
      <4> SUFFICES ASSUME NEW i \in 1 .. size - 1 PROVE Digit(0, i) = 0
        OBVIOUS
      <4>1. 0 < Weight(i - 1)
        BY WeightType
      <4> QED BY <4>1, DigitAbove
    <3>2. 0 < Weight(size - 1) /\ Weight(size - 1) \in Nat
      BY <1>10, WeightType
    <3>3. 0 \div Weight(size - 1) = 0
      BY <1>10, <3>2, DigitAbove
    <3>4. 0 < SignBit * Weight(size - 1)
      BY <1>3, <3>2
    <3>5. \A i \in 1 .. size - 1 : W[i] = Digit(0, i)
      BY <2>2, <3>1
    <3>6. W[size] = 0
      BY <1>10, <2>2
    <3> QED BY <1>7, <1>10, <3>3, <3>4, <3>5, <3>6 DEF Spells
  <2>4. Decode(W) = 0
    BY <1>3, <2>3, SpellsDecode
  <2>5. Decode(e) = 0
    BY <1>10, DecodeType
  <2> QED BY <1>1, <1>7, <2>4, <2>5
<1>11. CASE size > 0 /\ L > 0
  <2> DEFINE M == Stands(e)
  <2>1. /\ M \in Nat /\ M < SignBit * Weight(L - 1) /\ M \div Weight(L - 1) = e[L] % SignBit
        /\ e[L] % SignBit \in 0 .. SignBit - 1
    BY <1>11, StandsType
  <2>2. sign = IF e[L] >= SignBit THEN SignBit ELSE 0
    BY <1>2, <1>11 DEF sign
  <2>3. \A i \in 1 .. L - 1 : e[i] = Digit(M, i)
    BY <1>11, DigitOfStands
  <2> HIDE DEF M
  <2>4. Digit(M, L) = e[L] % SignBit
    BY <1>2, <1>11, <2>1, DigitTop
  <2>5. ASSUME NEW i \in 1 .. size, i > L PROVE Digit(M, i) = 0 /\ M \div Weight(i - 1) = 0 /\ M < SignBit * Weight(i - 1)
    <3>1. i \in Nat \ {0} /\ i - 1 \in Nat /\ L <= i - 1
      BY <1>2, <2>5
    <3>2. Weight(L) <= Weight(i - 1) /\ Weight(i - 1) \in Nat
      BY <1>2, <3>1, WeightMonotone, WeightType
    <3>3. SignBit * Weight(L - 1) <= Weight(L) /\ SignBit * Weight(L - 1) \in Nat /\ Weight(L) \in Nat
      BY <1>2, <1>11, TopWeight
    <3>4. M < Weight(i - 1)
      BY <2>1, <3>2, <3>3
    <3>5. M < SignBit * Weight(i - 1)
      BY <1>3, <2>1, <3>2, <3>4
    <3> QED BY <2>1, <3>1, <3>4, <3>5, DigitAbove
  <2>6. ASSUME NEW i \in 1 .. size PROVE body(i) = Digit(M, i)
    <3>1. CASE i < L
      BY <1>2, <2>3, <3>1
    <3>2. CASE i = L
      BY <2>4, <3>2
    <3>3. CASE i > L
      BY <1>2, <2>5, <3>3
    <3> QED BY <1>2, <3>1, <3>2, <3>3
  <2> HIDE DEF body, L
  <2>7. M < SignBit * Weight(size - 1) /\ M \div Weight(size - 1) = Digit(M, size)
    <3>1. CASE size = L
      BY <1>2, <1>11, <2>1, <3>1, DigitTop
    <3>2. CASE size > L
      BY <1>11, <2>5, <3>2
    <3> QED BY <1>2, <3>1, <3>2
  <2>8. \A i \in 1 .. size - 1 : W[i] = Digit(M, i)
    BY <1>8, <2>6
  <2>9. W[size] = Digit(M, size) + sign
    BY <1>8, <1>11, <2>6
  <2>10. Spells(W, M, sign)
    BY <1>3, <1>7, <1>11, <2>7, <2>8, <2>9 DEF Spells
  <2>11. Decode(W) = IF sign = SignBit THEN -M ELSE M
    BY <2>1, <2>10, SpellsDecode
  <2>12. Decode(e) = IF e[L] >= SignBit THEN -M ELSE M
    BY <1>11, DecodeIs DEF L, M
  <2>13. Decode(W) = Decode(e)
    BY <1>3, <2>2, <2>11, <2>12
  <2> QED BY <1>1, <1>7, <2>13
<1> QED BY <1>2, <1>9, <1>10, <1>11

\* OP_NUM2BIN reads the size it is given.
LEMMA SizeRead ==
  ASSUME NEW k \in 0 .. maxBigNumLen
  PROVE  MakeScriptNum(Encode(k)) = {k}
<1>1. k \in Int /\ k \in Nat
  BY WidthAssumption
<1>2. maxScriptNumLen \in Nat /\ maxScriptNumLen > 0 /\ Weight(maxScriptNumLen - 1) \in Nat
  BY WidthAssumption, WeightType
<1>3. Magnitude(k) < SignBit * Weight(maxScriptNumLen - 1)
  <2>1. SignBit * Weight(maxScriptNumLen - 1) \in Nat
    BY <1>2, Widths
  <2> QED BY <1>1, <2>1, WidthAssumption DEF Magnitude
<1>4. Len(Encode(k)) <= maxScriptNumLen
  BY <1>1, <1>2, <1>3, EncodeType
<1>5. Decode(Encode(k)) = k /\ Encode(k) \in Element
  BY <1>1, DecodeEncode, EncodeType
<1>6. CheckMinimalDataEncoding(Encode(k))
  BY <1>5, MinimalIsEncoded
<1> QED BY <1>4, <1>5, <1>6 DEF MakeScriptNum

LEMMA EncodedNumeric ==
  ASSUME NEW e \in Element, Len(e) <= maxBigNumLen
  PROVE  Numeric(Encode(Decode(e))) /\ Decode(Encode(Decode(e))) = Decode(e) /\ Encode(Decode(e)) \in Element
         /\ Len(Encode(Decode(e))) <= Len(e)
<1>1. Decode(e) \in Int /\ Len(e) \in Nat
  BY DecodeType, ElementLen
<1>2. Decode(Encode(Decode(e))) = Decode(e) /\ Encode(Decode(e)) \in Element
  BY <1>1, DecodeEncode, EncodeType
<1>3. CheckMinimalDataEncoding(Encode(Decode(e)))
  BY <1>2, MinimalIsEncoded
<1>4. Len(Encode(Decode(e))) <= Len(e)
  <2> DEFINE v == Decode(e)
             l == Len(e)
  <2>1. \A k \in Nat : Len(Encode(v)) <= k <=> v = 0 \/ (k > 0 /\ Magnitude(v) < SignBit * Weight(k - 1))
    BY <1>1, EncodeType
  <2>2. v = 0 \/ (l > 0 /\ Magnitude(v) < SignBit * Weight(l - 1))
    BY <1>1, DecodeType
  <2>3. l \in Nat
    BY <1>1
  <2> HIDE DEF v, l
  <2>4. Len(Encode(v)) <= l
    BY <2>1, <2>2, <2>3
  <2> QED BY <2>4 DEF v, l
<1>5. Len(Encode(Decode(e))) <= maxBigNumLen
  BY <1>1, <1>2, <1>4, ElementLen, WidthAssumption
<1> QED BY <1>2, <1>3, <1>4, <1>5 DEF Numeric

\* What the conversions leave of a stack.
LEMMA Bin2Num ==
  ASSUME NEW s \in Seq(Element), Len(s) >= 1, Len(s[Len(s)]) <= maxBigNumLen
  PROVE  NumConversion("OP_BIN2NUM", s) = {Append(Below(s, 1), Encode(Decode(s[Len(s)])))}
<1> DEFINE e == s[Len(s)]
<1>1. e \in Element /\ Below(s, 1) \in Seq(Element)
  BY BelowIs
<1>2. Len(e) \in Nat /\ maxBigNumLen \in Nat
  BY <1>1, ElementLen, WidthAssumption
<1>4. NumConversion("OP_BIN2NUM", s) = {Below(s, 1) \o <<MinimallyEncode(e)>>}
  <2>2. ~(Len(e) > maxBigNumLen) /\ ~(Len(s) < 1)
    BY <1>2
  <2>3. NumConversion("OP_BIN2NUM", s) = {Below(s, 1) \o r : r \in IF Len(e) > maxBigNumLen THEN {} ELSE {<<MinimallyEncode(e)>>}}
    BY <1>2, <2>2 DEF NumConversion, Take1, Take2
  <2>4. (IF Len(e) > maxBigNumLen THEN {} ELSE {<<MinimallyEncode(e)>>}) = {<<MinimallyEncode(e)>>}
    BY <2>2
  <2> HIDE DEF e
  <2> QED BY <2>3, <2>4
<1>5. MinimallyEncode(e) = Encode(Decode(e)) /\ Encode(Decode(e)) \in Element
  BY <1>1, <1>2, MinimallyEncodes, EncodedNumeric
<1>6. Below(s, 1) \o <<Encode(Decode(e))>> = Append(Below(s, 1), Encode(Decode(e)))
  BY <1>1, <1>5, AppendIs
<1> QED BY <1>4, <1>5, <1>6

\* OP_NUM2BIN fills up to the size, or fails.
LEMMA Num2Bin ==
  ASSUME NEW d \in Seq(Element), Len(d) >= 1, Numeric(d[Len(d)]), NEW size \in 0 .. maxBigNumLen
  PROVE  IF Len(d[Len(d)]) <= size
         THEN \E W \in Element : /\ NumConversion("OP_NUM2BIN", Append(d, Encode(size))) = {Append(Below(d, 1), W)}
                                 /\ Len(W) = size /\ Decode(W) = Decode(d[Len(d)])
         ELSE NumConversion("OP_NUM2BIN", Append(d, Encode(size))) = {}
<1> DEFINE e == d[Len(d)]
           s == Append(d, Encode(size))
           S == UNION {FixedBytes(x, k) : x \in BigNumFromBytes(e), k \in MakeScriptNum(Encode(size)) \cap 0 .. maxBigNumLen}
<1>0. size \in Nat /\ size \in Int /\ maxBigNumLen \in Nat /\ Len(d) \in Nat /\ 1 \in 0 .. Len(d)
  BY WidthAssumption
<1>1. e \in Element /\ Below(d, 1) \in Seq(Element) /\ size \in Int /\ Encode(size) \in Element /\ maxBigNumLen \in Nat /\ Len(d) \in Nat
  <2>1. e \in Element
    BY <1>0
  <2>2. Below(d, 1) \in Seq(Element)
    BY <1>0, BelowIs
  <2>3. Encode(size) \in Element
    BY <1>0, EncodeType
  <2> QED BY <1>0, <2>1, <2>2, <2>3
<1>2. Len(s) = Len(d) + 1 /\ s[Len(s)] = Encode(size) /\ s[Len(s) - 1] = e /\ Len(s) >= 2 /\ s \in Seq(Element)
  BY <1>1
<1>3. Below(s, 2) = Below(d, 1)
  <2>1. Below(s, 2) \in Seq(Element) /\ Len(Below(s, 2)) = Len(d) - 1 /\ \A k \in 1 .. Len(d) - 1 : Below(s, 2)[k] = s[k]
    <3>1. 2 \in 0 .. Len(s) /\ Len(s) - 2 = Len(d) - 1
      BY <1>1, <1>2
    <3> HIDE DEF s
    <3> QED BY <1>2, <3>1, BelowIs
  <2>2. Len(Below(d, 1)) = Len(d) - 1 /\ \A k \in 1 .. Len(d) - 1 : Below(d, 1)[k] = d[k]
    BY <1>1, BelowIs
  <2>3. \A k \in 1 .. Len(d) - 1 : s[k] = d[k]
    BY <1>1
  <2> HIDE DEF s
  <2> QED BY <1>1, <2>1, <2>2, <2>3, SameSeq
<1> HIDE DEF s
<1>5. NumConversion("OP_NUM2BIN", s) = {Below(d, 1) \o r : r \in {<<w>> : w \in S}}
  <2> DEFINE F(a, b) == {<<w>> : w \in UNION {FixedBytes(x, k) : x \in BigNumFromBytes(a),
                                      k \in MakeScriptNum(b) \cap 0 .. maxBigNumLen}}
  <2>2. ~(Len(s) < 2)
    BY <1>1, <1>2
  <2>3. NumConversion("OP_NUM2BIN", s) = {Below(s, 2) \o r : r \in F(s[Len(s) - 1], s[Len(s)])}
    BY <2>2 DEF NumConversion, Take1, Take2
  <2>4. F(s[Len(s) - 1], s[Len(s)]) = F(e, Encode(size))
    BY <1>2
  <2>5. F(e, Encode(size)) = {<<w>> : w \in S}
    OBVIOUS
  <2> HIDE DEF F, S
  <2> QED BY <1>3, <2>3, <2>4, <2>5
<1>6. PICK n : BigNumFromBytes(e) = {n} /\ Exact(n, Decode(e))
  BY <1>1, BigNumRead
<1>7. S = FixedBytes(n, size)
  <2>1. MakeScriptNum(Encode(size)) \cap 0 .. maxBigNumLen = {size}
    BY SizeRead
  <2> QED BY <1>6, <2>1
<1> HIDE DEF S
<1>8. BigNumBytes(n) = {e}
  <2>1. n \in BigNums /\ n.val = Decode(e)
    BY <1>6 DEF Exact
  <2>2. Encode(Decode(e)) = e /\ Len(e) <= maxBigNumLen
    BY <1>1, MinimalIsEncoded DEF Numeric
  <2> QED BY <2>1, <2>2 DEF BigNumBytes
<1>9. CASE Len(e) <= size
  <2>1. PICK W \in Element : FixedBytes(n, size) = {W} /\ Len(W) = size /\ Decode(W) = Decode(e)
    BY <1>0, <1>1, <1>8, <1>9, FixedIs
  <2>2. Below(d, 1) \o <<W>> = Append(Below(d, 1), W)
    BY <1>1, AppendIs
  <2>3. NumConversion("OP_NUM2BIN", s) = {Append(Below(d, 1), W)}
    <3>1. {<<w>> : w \in S} = {<<W>>}
      BY <1>7, <2>1
    <3>2. {Below(d, 1) \o r : r \in {<<w>> : w \in S}} = {Below(d, 1) \o <<W>>}
      BY <3>1
    <3> QED BY <1>5, <2>2, <3>2
  <2> QED BY <1>9, <2>1, <2>3 DEF s
<1>10. CASE ~(Len(e) <= size)
  <2>1. FixedBytes(n, size) = {}
    BY <1>8, <1>10 DEF FixedBytes
  <2>2. NumConversion("OP_NUM2BIN", s) = {}
    BY <1>5, <1>7, <2>1
  <2> QED BY <1>10, <2>2 DEF s
<1> QED BY <1>9, <1>10

-----------------------------------------------------------------------------
(***************************************************************************)
(* Pushes: one opcode for every element.                                   *)
(***************************************************************************)

LEMMA SmallIntIndex ==
  ASSUME NEW m \in 1 .. SmallIntMax, NEW n \in 1 .. SmallIntMax, SmallIntOp[m] = SmallIntOp[n]
  PROVE  m = n
<1>1. \A k \in 1 .. SmallIntMax :
         k = 1 \/ k = 2 \/ k = 3 \/ k = 4 \/ k = 5 \/ k = 6 \/ k = 7 \/ k = 8 \/ k = 9 \/ k = 10
      \/ k = 11 \/ k = 12 \/ k = 13 \/ k = 14 \/ k = 15 \/ k = 16
  BY WidthAssumption
<1>2. /\ SmallIntOp[1] = "OP_1" /\ SmallIntOp[2] = "OP_2" /\ SmallIntOp[3] = "OP_3" /\ SmallIntOp[4] = "OP_4"
      /\ SmallIntOp[5] = "OP_5" /\ SmallIntOp[6] = "OP_6" /\ SmallIntOp[7] = "OP_7" /\ SmallIntOp[8] = "OP_8"
      /\ SmallIntOp[9] = "OP_9" /\ SmallIntOp[10] = "OP_10" /\ SmallIntOp[11] = "OP_11" /\ SmallIntOp[12] = "OP_12"
      /\ SmallIntOp[13] = "OP_13" /\ SmallIntOp[14] = "OP_14" /\ SmallIntOp[15] = "OP_15" /\ SmallIntOp[16] = "OP_16"
  BY DEF SmallIntOp
<1> QED BY <1>1, <1>2

\* The numbers with an opcode of their own are one byte.
LEMMA OneByte ==
  ASSUME NEW b \in Byte
  PROVE  <<b>> \in Element /\ Len(<<b>>) = 1 /\ <<b>>[1] = b
BY DEF Element

LEMMA OneByteDecode ==
  ASSUME NEW b \in Byte
  PROVE  Decode(<<b>>) = IF b >= SignBit THEN -(b % SignBit) ELSE b % SignBit
<1> DEFINE e == <<b>>
<1>1. e \in Element /\ Len(e) = 1 /\ e[1] = b
  BY OneByte
<1>2. LowBytes(e)[0] \in 0 .. Weight(0) - 1 /\ Weight(0) = 1 /\ b % SignBit \in 0 .. SignBit - 1
  <2>1. Weight(0) = 1
    <3>1. 0 \in Nat
      OBVIOUS
    <3> QED BY <3>1, WeightStep
  <2> QED BY <1>1, <2>1, StandsType
<1>3. Stands(e) = b % SignBit
  <2>1. LowBytes(e)[0] = 0 /\ b % SignBit \in Nat
    BY <1>2, Widths
  <2> HIDE DEF e
  <2>2. Stands(e) = LowBytes(e)[0] + (b % SignBit) * Weight(0)
    BY <1>1 DEF Stands
  <2> QED BY <1>2, <2>1, <2>2
<1>4. Decode(e) = IF e[Len(e)] >= SignBit THEN -Stands(e) ELSE Stands(e)
  BY <1>1, DecodeIs
<1> HIDE DEF e
<1>5. Decode(e) = IF b >= SignBit THEN -(b % SignBit) ELSE b % SignBit
  BY <1>1, <1>3, <1>4
<1> QED BY <1>5 DEF e

LEMMA OneByteEncode ==
  ASSUME NEW b \in Byte, b % SignBit # 0
  PROVE  Encode(Decode(<<b>>)) = <<b>>
<1>1. CheckMinimalDataEncoding(<<b>>)
  BY OneByte DEF CheckMinimalDataEncoding
<1> QED BY <1>1, OneByte, MinimalIsEncoded

LEMMA SmallEncode ==
  ASSUME NEW n \in 1 .. SmallIntMax
  PROVE  Encode(n) = <<n>> /\ n \in Byte
<1>1. n \in Byte /\ n % SignBit = n /\ n < SignBit /\ n # 0 /\ SignBit \in Nat /\ n \in Nat
  BY WidthAssumption, Widths DEF Byte
<1>2. Decode(<<n>>) = n
  BY <1>1, OneByteDecode
<1> QED BY <1>1, <1>2, OneByteEncode

LEMMA MinusOneEncode == Encode(-1) = <<SignBit + 1>> /\ SignBit + 1 \in Byte
<1>1. SignBit + 1 \in Byte /\ (SignBit + 1) % SignBit = 1 /\ SignBit + 1 >= SignBit
  BY Widths DEF Byte
<1>2. Decode(<<SignBit + 1>>) = -1
  BY <1>1, OneByteDecode
<1> QED BY <1>1, <1>2, OneByteEncode

\* What a push opcode leaves of an empty stack.
LEMMA PushOpcodeIs ==
  ASSUME NEW data
  PROVE  /\ PushOpcode("OP_0", data, <<>>) = {<< <<>> >>}
         /\ \A op \in {"OP_DATA", "OP_PUSHDATA1", "OP_PUSHDATA2", "OP_PUSHDATA4"} : PushOpcode(op, data, <<>>) = {<<data>>}
         /\ PushOpcode("OP_1NEGATE", data, <<>>) = {<<Encode(-1)>>}
         /\ \A n \in 1 .. SmallIntMax : PushOpcode(SmallIntOp[n], data, <<>>) = {<<Encode(n)>>}
<1>0. \A x : Append(<<>>, x) = <<x>>
  OBVIOUS
<1>1. PushOpcode("OP_0", data, <<>>) = {<< <<>> >>}
  <2>1. "OP_0" \notin SmallIntOps
    BY SmallIntOpsAre
  <2> QED BY <1>0, <2>1 DEF PushOpcode, Push
<1>2. ASSUME NEW op \in {"OP_DATA", "OP_PUSHDATA1", "OP_PUSHDATA2", "OP_PUSHDATA4"}
      PROVE  PushOpcode(op, data, <<>>) = {<<data>>}
  <2>1. op \notin SmallIntOps /\ op # "OP_0" /\ op # "OP_1NEGATE"
    BY SmallIntOpsAre
  <2> QED BY <1>0, <2>1 DEF PushOpcode, Push
<1>3. PushOpcode("OP_1NEGATE", data, <<>>) = {<<Encode(-1)>>}
  <2>1. "OP_1NEGATE" \notin SmallIntOps
    BY SmallIntOpsAre
  <2> QED BY <1>0, <2>1 DEF PushOpcode, Push
<1>4. ASSUME NEW n \in 1 .. SmallIntMax
      PROVE  PushOpcode(SmallIntOp[n], data, <<>>) = {<<Encode(n)>>}
  <2> DEFINE op == SmallIntOp[n]
             K == {k \in 1 .. SmallIntMax : SmallIntOp[k] = op}
  <2>1. op \in SmallIntOps
    BY DEF SmallIntOps
  <2>2. op # "OP_0" /\ op \notin {"OP_DATA", "OP_PUSHDATA1", "OP_PUSHDATA2", "OP_PUSHDATA4"} /\ op # "OP_1NEGATE"
    BY <2>1, SmallIntOpsAre
  <2>3. K = {n}
    BY SmallIntIndex
  <2> HIDE DEF op
  <2>4. PushOpcode(op, data, <<>>) = {Append(<<>>, Encode(k)) : k \in K}
    BY <2>1, <2>2 DEF PushOpcode
  <2> HIDE DEF K
  <2>5. PushOpcode(op, data, <<>>) = {<<Encode(n)>>}
    BY <1>0, <2>3, <2>4
  <2> QED BY <2>5 DEF op
<1> QED BY <1>1, <1>2, <1>3, <1>4

\* A push of one element determines it.
LEMMA Singletons ==
  ASSUME NEW a, NEW b
  PROVE  {<<a>>} = {<<b>>} <=> a = b
<1>1. {<<a>>} = {<<b>>} => <<a>> = <<b>>
  OBVIOUS
<1>2. <<a>> = <<b>> => a = b
  OBVIOUS
<1> QED BY <1>1, <1>2

\* The push opcodes that can leave an element, and the one it is left to.
LEMMA DataPush ==
  ASSUME NEW e \in Element, Len(e) <= MaxScriptElementSize, NEW op \in PushDataOps
  PROVE  /\ PushOpcode(op, e, <<>>) = {<<e>>} /\ checkMinimalDataPush(op, e)
            <=> /\ op = (IF Len(e) = 0 THEN "OP_0" ELSE IF Len(e) <= DirectMax THEN "OP_DATA"
                         ELSE IF Len(e) <= PushData1Max THEN "OP_PUSHDATA1" ELSE "OP_PUSHDATA2")
                /\ Len(e) = 1 => e[1] \notin (1 .. SmallIntMax) \cup {SignBit + 1}
<1>1. Len(e) \in Nat /\ (e = <<>> <=> Len(e) = 0)
  BY ElementLen
<1>2. PushOpcode(op, e, <<>>) = {<<e>>} <=> op # "OP_0" \/ e = <<>>
  <2>1. CASE op = "OP_0"
    <3>1. PushOpcode(op, e, <<>>) = {<< <<>> >>}
      BY <2>1, PushOpcodeIs
    <3>2. PushOpcode(op, e, <<>>) = {<<e>>} <=> <<>> = e
      BY <3>1, Singletons
    <3> QED BY <2>1, <3>2
  <2>2. CASE op # "OP_0"
    BY <2>2, PushOpcodeIs DEF PushDataOps
  <2> QED BY <2>1, <2>2
<1> DEFINE one == Len(e) = 1 => e[1] \notin (1 .. SmallIntMax) \cup {SignBit + 1}
<1>3. checkMinimalDataPush(op, e) <=>
         /\ Len(e) = 0 => op = "OP_0"
         /\ one
         /\ Len(e) >= 1 /\ Len(e) <= DirectMax => op = "OP_DATA"
         /\ Len(e) > DirectMax /\ Len(e) <= PushData1Max => op = "OP_PUSHDATA1"
         /\ Len(e) > PushData1Max /\ Len(e) <= PushData2Max => op = "OP_PUSHDATA2"
  BY <1>1, PushSizes DEF checkMinimalDataPush
<1> HIDE DEF one
<1>4. Len(e) <= PushData2Max
  BY <1>1, PushSizes, EngineAssumption
<1>5. Len(e) = 0 => one
  BY <1>1 DEF one
<1>6. PushOpcode(op, e, <<>>) = {<<e>>} /\ checkMinimalDataPush(op, e)
      <=> op = (IF Len(e) = 0 THEN "OP_0" ELSE IF Len(e) <= DirectMax THEN "OP_DATA"
                         ELSE IF Len(e) <= PushData1Max THEN "OP_PUSHDATA1" ELSE "OP_PUSHDATA2") /\ one
  BY <1>1, <1>2, <1>3, <1>4, <1>5, PushSizes
<1> QED BY <1>6 DEF one

LEMMA PushesCanonicalHold ==
  ASSUME dstack \in Seq(Element)
  PROVE  PushesCanonical
<1> SUFFICES ASSUME NEW e \in Element, Len(e) <= MaxScriptElementSize,
                    NEW A, A = {op \in PushOnlyOps \ {"OP_RESERVED"} :
                            /\ op \in PushDataOps => checkMinimalDataPush(op, IF op \in PushDataOps THEN e ELSE <<>>)
                            /\ PushOpcode(op, IF op \in PushDataOps THEN e ELSE <<>>, <<>>) = {<<e>>}}
             PROVE  \E op \in A : A = {op}
  <2> SUFFICES ASSUME NEW i \in 1 .. Len(dstack), Len(dstack[i]) <= MaxScriptElementSize
               PROVE  \E op \in {o \in PushOnlyOps \ {"OP_RESERVED"} :
                            /\ o \in PushDataOps => checkMinimalDataPush(o, [op |-> o, data |-> IF o \in PushDataOps THEN dstack[i] ELSE <<>>].data)
                            /\ PushOpcode(o, [op |-> o, data |-> IF o \in PushDataOps THEN dstack[i] ELSE <<>>].data, <<>>) = {<<dstack[i]>>}} :
                         {o \in PushOnlyOps \ {"OP_RESERVED"} :
                            /\ o \in PushDataOps => checkMinimalDataPush(o, [op |-> o, data |-> IF o \in PushDataOps THEN dstack[i] ELSE <<>>].data)
                            /\ PushOpcode(o, [op |-> o, data |-> IF o \in PushDataOps THEN dstack[i] ELSE <<>>].data, <<>>) = {<<dstack[i]>>}} = {op}
    BY Zenon DEF PushesCanonical
  <2> DEFINE e == dstack[i]
             x(o) == [op |-> o, data |-> IF o \in PushDataOps THEN e ELSE <<>>].data
             y(o) == IF o \in PushDataOps THEN e ELSE <<>>
             A1 == {o \in PushOnlyOps \ {"OP_RESERVED"} :
                      /\ o \in PushDataOps => checkMinimalDataPush(o, x(o))
                      /\ PushOpcode(o, x(o), <<>>) = {<<e>>}}
             A2 == {o \in PushOnlyOps \ {"OP_RESERVED"} :
                      /\ o \in PushDataOps => checkMinimalDataPush(o, y(o))
                      /\ PushOpcode(o, y(o), <<>>) = {<<e>>}}
  <2>1. e \in Element /\ Len(e) <= MaxScriptElementSize
    OBVIOUS
  <2>2. \A o : x(o) = y(o)
    OBVIOUS
  <2>3. A1 = A2
    <3> HIDE DEF x, y, e
    <3> QED BY <2>2
  <2>4. \E op \in A2 : A2 = {op}
    <3> HIDE DEF e
    <3> QED BY <2>1
  <2>5. \E op \in A1 : A1 = {op}
    <3> HIDE DEF A1, A2
    <3> QED BY <2>3, <2>4
  <2> QED BY <2>5
<1>1. Len(e) \in Nat /\ (e = <<>> <=> Len(e) = 0) /\ (Len(e) = 1 => e = <<e[1]>>)
  BY ElementLen DEF Element
<1> DEFINE D == IF Len(e) = 0 THEN "OP_0" ELSE IF Len(e) <= DirectMax THEN "OP_DATA"
                ELSE IF Len(e) <= PushData1Max THEN "OP_PUSHDATA1" ELSE "OP_PUSHDATA2"
           own == Len(e) = 1 /\ e[1] \in (1 .. SmallIntMax) \cup {SignBit + 1}
<1>2. ASSUME NEW op \in PushDataOps PROVE op \in A <=> op = D /\ ~own
  <2>1. op \in A <=> PushOpcode(op, e, <<>>) = {<<e>>} /\ checkMinimalDataPush(op, e)
    BY DEF PushOnlyOps, PushDataOps
  <2> QED BY <2>1, DataPush
<1>3. D \in PushDataOps
  BY DEF PushDataOps
<1>4. "OP_1NEGATE" \in A <=> e = <<SignBit + 1>>
  <2>1. "OP_1NEGATE" \notin PushDataOps /\ "OP_1NEGATE" \in PushOnlyOps \ {"OP_RESERVED"}
    BY DEF PushDataOps, PushOnlyOps
  <2>2. "OP_1NEGATE" \in A <=> PushOpcode("OP_1NEGATE", <<>>, <<>>) = {<<e>>}
    BY <2>1
  <2>3. PushOpcode("OP_1NEGATE", <<>>, <<>>) = {<< <<SignBit + 1>> >>}
    BY PushOpcodeIs, MinusOneEncode
  <2> QED BY <2>2, <2>3, Singletons
<1>5. ASSUME NEW n \in 1 .. SmallIntMax PROVE SmallIntOp[n] \in A <=> e = <<n>>
  <2>1. SmallIntOp[n] \in SmallIntOps
    BY DEF SmallIntOps
  <2>2. SmallIntOp[n] \notin PushDataOps /\ SmallIntOp[n] \in PushOnlyOps \ {"OP_RESERVED"}
    BY <2>1, SmallIntOpsAre DEF PushDataOps, PushOnlyOps
  <2>3. SmallIntOp[n] \in A <=> PushOpcode(SmallIntOp[n], <<>>, <<>>) = {<<e>>}
    BY <2>2
  <2>4. PushOpcode(SmallIntOp[n], <<>>, <<>>) = {<< <<n>> >>}
    <3>1. PushOpcode(SmallIntOp[n], <<>>, <<>>) = {<<Encode(n)>>}
      BY PushOpcodeIs
    <3>2. Encode(n) = <<n>>
      BY SmallEncode
    <3> QED BY <3>1, <3>2
  <2> QED BY <2>3, <2>4, Singletons
<1>6. A \subseteq PushDataOps \cup {"OP_1NEGATE"} \cup {SmallIntOp[n] : n \in 1 .. SmallIntMax}
  BY DEF PushOnlyOps, SmallIntOps
<1> HIDE DEF D, own
<1>7. CASE ~own
  <2>1. \A n \in 1 .. SmallIntMax : e # <<n>>
    BY <1>7 DEF own
  <2>2. e # <<SignBit + 1>>
    BY <1>7 DEF own
  <2>3. A = {D}
    BY <1>2, <1>3, <1>4, <1>5, <1>6, <1>7, <2>1, <2>2
  <2> QED BY <2>3
<1>8. CASE own /\ e[1] = SignBit + 1
  <2>1. e = <<SignBit + 1>>
    BY <1>1, <1>8 DEF own
  <2>2. \A n \in 1 .. SmallIntMax : e # <<n>>
    BY <2>1, WidthAssumption, Widths
  <2>3. A = {"OP_1NEGATE"}
    BY <1>2, <1>4, <1>5, <1>6, <1>8, <2>1, <2>2
  <2> QED BY <2>3
<1>9. CASE own /\ e[1] # SignBit + 1
  <2>1. PICK n \in 1 .. SmallIntMax : e = <<n>>
    BY <1>1, <1>9 DEF own
  <2>2. e # <<SignBit + 1>>
    BY <2>1, <1>9
  <2>3. \A m \in 1 .. SmallIntMax : e = <<m>> => m = n
    BY <2>1
  <2>4. A = {SmallIntOp[n]}
    BY <1>2, <1>4, <1>5, <1>6, <1>9, <2>1, <2>2, <2>3
  <2> QED BY <2>4
<1> QED BY <1>7, <1>8, <1>9

LEMMA NumbersCanonicalHold ==
  ASSUME dstack \in Seq(Element)
  PROVE  NumbersCanonical
<1> SUFFICES ASSUME NEW e \in Element
             PROVE  /\ CheckMinimalDataEncoding(e) <=> Encode(Decode(e)) = e
                    /\ Decode(Encode(Decode(e))) = Decode(e)
  <2>1. \A i \in 1 .. Len(dstack) : dstack[i] \in Element
    OBVIOUS
  <2> QED BY <2>1 DEF NumbersCanonical
<1> QED BY MinimalIsEncoded, DecodeType, DecodeEncode

LEMMA LastOfAppend ==
  ASSUME NEW T, NEW s \in Seq(T), NEW x \in T
  PROVE  /\ Append(s, x) \in Seq(T) /\ Last(Append(s, x)) = x /\ Below(Append(s, x), 1) = s
         /\ Len(Append(s, x)) = Len(s) + 1 /\ Append(s, x)[Len(s) + 1] = x
BY DEF Last, Below

LEMMA FrontLast ==
  ASSUME NEW T, NEW s \in Seq(T), Len(s) >= 1
  PROVE  Append(Below(s, 1), s[Len(s)]) = s
<1>1. 1 \in 0 .. Len(s) /\ s[Len(s)] \in T
  OBVIOUS
<1>2. /\ Below(s, 1) \in Seq(T) /\ Len(Below(s, 1)) = Len(s) - 1
      /\ \A k \in 1 .. Len(s) - 1 : Below(s, 1)[k] = s[k]
  BY <1>1, BelowIs
<1> DEFINE b == Below(s, 1)
<1> HIDE DEF b
<1>3. Append(b, s[Len(s)]) = s
  BY <1>1, <1>2 DEF b
<1> QED BY <1>3 DEF b

LEMMA ConversionsExactHold ==
  ASSUME dstack \in Seq(Element)
  PROVE  ConversionsExact
<1> DEFINE e == Last(dstack)
           convert(op, s) == NumConversion(op, s)
<1> SUFFICES ASSUME dstack # <<>>, Len(e) <= maxBigNumLen
             PROVE  /\ \A s \in convert("OP_BIN2NUM", dstack) :
                          Numeric(Last(s)) /\ Decode(Last(s)) = Decode(e)
                    /\ Numeric(e) => \A size \in 0 .. maxBigNumLen :
                          LET wide == convert("OP_NUM2BIN", Append(dstack, Encode(size)))
                          IN /\ wide # {} <=> Len(e) <= size
                             /\ \A s \in wide : /\ Len(Last(s)) = size
                                                /\ convert("OP_BIN2NUM", s) = {dstack}
  BY DEF ConversionsExact
<1>1. Len(dstack) \in Nat /\ Len(dstack) >= 1 /\ e = dstack[Len(dstack)] /\ e \in Element
      /\ 1 \in 0 .. Len(dstack)
  BY DEF Last
<1>2. Below(dstack, 1) \in Seq(Element)
  BY <1>1, BelowIs
<1>3. Numeric(Encode(Decode(e))) /\ Decode(Encode(Decode(e))) = Decode(e) /\ Encode(Decode(e)) \in Element
  BY <1>1, EncodedNumeric
<1> HIDE DEF e
<1>4. ASSUME NEW s \in convert("OP_BIN2NUM", dstack)
      PROVE  Numeric(Last(s)) /\ Decode(Last(s)) = Decode(e)
  <2>1. convert("OP_BIN2NUM", dstack) = {Append(Below(dstack, 1), Encode(Decode(e)))}
    BY <1>1, Bin2Num
  <2>2. s = Append(Below(dstack, 1), Encode(Decode(e)))
    BY <2>1
  <2>3. Last(s) = Encode(Decode(e))
    BY <1>2, <1>3, <2>2, LastOfAppend
  <2> QED BY <1>3, <2>3
<1>5. ASSUME Numeric(e), NEW size \in 0 .. maxBigNumLen, NEW wide, wide = convert("OP_NUM2BIN", Append(dstack, Encode(size)))
      PROVE  /\ wide # {} <=> Len(e) <= size
             /\ \A s \in wide : Len(Last(s)) = size /\ convert("OP_BIN2NUM", s) = {dstack}
  <2> HIDE DEF convert
  <2>1. IF Len(e) <= size
        THEN \E W \in Element : /\ wide = {Append(Below(dstack, 1), W)}
                                /\ Len(W) = size /\ Decode(W) = Decode(e)
        ELSE wide = {}
    BY <1>1, <1>5, Num2Bin DEF convert
  <2>2. CASE ~(Len(e) <= size)
    BY <2>1, <2>2
  <2>3. CASE Len(e) <= size
    <3>1. PICK W \in Element : /\ wide = {Append(Below(dstack, 1), W)}
                               /\ Len(W) = size /\ Decode(W) = Decode(e)
      BY <2>1, <2>3
    <3> DEFINE s == Append(Below(dstack, 1), W)
    <3>2. /\ s \in Seq(Element) /\ Last(s) = W /\ Below(s, 1) = Below(dstack, 1)
          /\ Len(s) = Len(Below(dstack, 1)) + 1 /\ s[Len(Below(dstack, 1)) + 1] = W
      BY <1>2, LastOfAppend
    <3>3. Len(Below(dstack, 1)) \in Nat
      BY <1>2
    <3> HIDE DEF s
    <3>4. Len(s) >= 1 /\ s[Len(s)] = W
      BY <3>2, <3>3
    <3>5. Len(s[Len(s)]) <= maxBigNumLen
      BY <3>1, <3>4, WidthAssumption
    <3>6. convert("OP_BIN2NUM", s) = {Append(Below(s, 1), Encode(Decode(W)))}
      BY <3>2, <3>4, <3>5, Bin2Num DEF convert
    <3>7. Encode(Decode(W)) = e
      BY <1>1, <1>5, <3>1, MinimalIsEncoded DEF Numeric
    <3>8. Append(Below(dstack, 1), e) = dstack
      BY <1>1, FrontLast
    <3>9. convert("OP_BIN2NUM", s) = {dstack}
      BY <3>2, <3>6, <3>7, <3>8
    <3>10. wide = {s}
      BY <3>1 DEF s
    <3> QED BY <2>3, <3>1, <3>2, <3>9, <3>10
  <2> QED BY <2>2, <2>3
<1> HIDE DEF convert
<1> QED BY <1>4, <1>5

LEMMA EncodingCanonicalHolds ==
  ASSUME dstack \in Seq(Element)
  PROVE  EncodingCanonical
BY PushesCanonicalHold, NumbersCanonicalHold, ConversionsExactHold DEF EncodingCanonical

-----------------------------------------------------------------------------
(***************************************************************************)
(* The opcodes keep stacks of byte strings, and make no element longer     *)
(* than MaxScriptElementSize.  Elements(n): the elements of at most n      *)
(* bytes.                                                                  *)
(***************************************************************************)
Elements(n) == {e \in Element : Len(e) <= n}

\* The bound of a step: the limit, or the longest element there was.
Bounds == {n \in Nat : n >= MaxScriptElementSize}

LEMMA ShortIn ==
  ASSUME NEW L \in Bounds
  PROVE  Short \subseteq Elements(L) /\ Elements(L) \subseteq Element
<1>1. MaxScriptElementSize \in Nat /\ L \in Nat /\ L >= MaxScriptElementSize
  BY EngineAssumption DEF Bounds
<1>2. ASSUME NEW e \in Short PROVE e \in Elements(L)
  <2>1. e \in Element /\ Len(e) <= MaxScriptElementSize /\ Len(e) \in Nat
    BY ElementLen DEF Short
  <2> QED BY <1>1, <2>1 DEF Elements
<1> QED BY <1>2 DEF Elements

LEMMA SizesAre ==
  /\ maxBigNumLen \in Nat \ {0} /\ MaxScriptElementSize \in Nat \ {0} /\ maxBigNumLen <= MaxScriptElementSize
  /\ maxScriptNumLen \in Nat \ {0} /\ maxScriptNumLen < maxBigNumLen
  /\ HashLen \in Nat \ {0} /\ HashLen <= MaxScriptElementSize
BY WidthAssumption, EngineAssumption, SizeAssumption

\* A representable number fits.
LEMMA EncodedLength ==
  ASSUME NEW v \in Int, Representable(v)
  PROVE  Encode(v) \in Element /\ Len(Encode(v)) <= maxBigNumLen /\ Encode(v) \in Short
<1>1. Encode(v) \in Element /\ Len(Encode(v)) \in Nat
  BY EncodeType, ElementLen
<1>2. Len(Encode(v)) <= maxBigNumLen
  <2>1. maxBigNumLen \in Nat /\ maxBigNumLen > 0
    BY SizesAre
  <2>2. Len(Encode(v)) <= maxBigNumLen <=> v = 0 \/ (maxBigNumLen > 0 /\ Magnitude(v) < SignBit * Weight(maxBigNumLen - 1))
    BY <2>1, EncodeType
  <2> QED BY <2>1, <2>2 DEF Representable
<1>3. Len(Encode(v)) <= MaxScriptElementSize
  BY <1>1, <1>2, SizesAre
<1> QED BY <1>1, <1>2, <1>3 DEF Short

LEMMA NumberIn ==
  ASSUME NEW v, Number(v)
  PROVE  Encode(v) \in Short
BY EncodedLength DEF Number

LEMMA BytesIn ==
  ASSUME NEW n, n.val \in Int
  PROVE  BigNumBytes(n) \subseteq Short
<1>1. Encode(n.val) \in Element /\ Len(Encode(n.val)) \in Nat
  BY EncodeType, ElementLen
<1>2. Len(Encode(n.val)) <= maxBigNumLen => Encode(n.val) \in Short
  BY <1>1, SizesAre DEF Short
<1> QED BY <1>2 DEF BigNumBytes

LEMMA PushNumsIn ==
  ASSUME NEW N, \A n \in N : n.val \in Int
  PROVE  PushNums(N) \subseteq Seq(Short)
<1>1. ASSUME NEW r \in PushNums(N) PROVE r \in Seq(Short)
  <2>1. PICK b \in UNION {BigNumBytes(n) : n \in N} : r = <<b>>
    BY DEF PushNums
  <2>2. PICK n \in N : b \in BigNumBytes(n)
    OBVIOUS
  <2>3. b \in Short
    BY <2>2, BytesIn
  <2> QED BY <2>1, <2>3
<1> QED BY <1>1

LEMMA SeqIn ==
  ASSUME NEW L \in Bounds
  PROVE  Seq(Short) \subseteq Seq(Elements(L)) /\ Seq(Elements(L)) \subseteq Seq(Element)
BY ShortIn

\* What an opcode pushes on what it leaves.
LEMMA Taken ==
  ASSUME NEW T, NEW s \in Seq(T), NEW n \in Nat, NEW R, Len(s) >= n => R \subseteq Seq(T)
  PROVE  (IF Len(s) < n THEN {} ELSE {Below(s, n) \o r : r \in R}) \subseteq Seq(T)
<1>1. CASE Len(s) < n
  BY <1>1
<1>2. CASE ~(Len(s) < n)
  <2>1. n \in 0 .. Len(s)
    BY <1>2
  <2>2. Below(s, n) \in Seq(T)
    BY <2>1, BelowIs
  <2> DEFINE b == Below(s, n)
  <2> HIDE DEF b
  <2>3. ASSUME NEW r \in R PROVE b \o r \in Seq(T)
    <3>1. r \in Seq(T)
      BY <2>1
    <3> QED BY <2>2, <3>1 DEF b
  <2>4. {b \o r : r \in R} \subseteq Seq(T)
    BY <2>3
  <2> QED BY <1>2, <2>4 DEF b
<1> QED BY <1>1, <1>2

\* A stack and what is pushed on it.
LEMMA Extended ==
  ASSUME NEW T, NEW s \in Seq(T), NEW R, R \subseteq Seq(T)
  PROVE  {s \o r : r \in R} \subseteq Seq(T)
<1>1. ASSUME NEW r \in R PROVE s \o r \in Seq(T)
  OBVIOUS
<1> QED BY <1>1

LEMMA OperandsIn ==
  ASSUME NEW T, NEW s \in Seq(T)
  PROVE  /\ Len(s) >= 1 => s[Len(s)] \in T
         /\ Len(s) >= 2 => s[Len(s)] \in T /\ s[Len(s) - 1] \in T
         /\ Len(s) >= 3 => s[Len(s)] \in T /\ s[Len(s) - 1] \in T /\ s[Len(s) - 2] \in T
         /\ Len(s) >= 4 => s[Len(s)] \in T /\ s[Len(s) - 1] \in T /\ s[Len(s) - 2] \in T /\ s[Len(s) - 3] \in T
OBVIOUS

\* Reading operands.
LEMMA ReadNum ==
  ASSUME NEW e \in Element
  PROVE  BigNumFromBytes(e) \subseteq BigNums /\ \A n \in BigNumFromBytes(e) : n.val \in Int
<1>1. CASE ~Numeric(e)
  BY <1>1, BigNumRead
<1>2. CASE Numeric(e)
  <2>1. PICK n : BigNumFromBytes(e) = {n} /\ Exact(n, Decode(e))
    BY <1>2, BigNumRead
  <2>2. n \in BigNums /\ n.val \in Int
    BY <2>1, BigNumsAre DEF Exact
  <2> QED BY <2>1, <2>2
<1> QED BY <1>1, <1>2

LEMMA ReadScriptNum ==
  ASSUME NEW e \in Element, NEW n \in MakeScriptNum(e)
  PROVE  /\ n \in Int /\ n \in ScriptNumbers /\ Number(n) /\ Number(n + 1)
<1> DEFINE W == SignBit * Weight(maxScriptNumLen - 1)
           V == SignBit * Weight(maxBigNumLen - 1)
<1>1. n = Decode(e) /\ Len(e) <= maxScriptNumLen
  BY DEF MakeScriptNum
<1>2. n \in Int /\ Len(e) \in Nat
  BY <1>1, DecodeType, ElementLen
<1>3. W \in Nat /\ V \in Nat /\ W < V /\ W > 0
  <2>1. maxScriptNumLen - 1 \in Nat /\ maxBigNumLen - 1 \in Nat /\ maxScriptNumLen <= maxBigNumLen - 1 /\ maxScriptNumLen \in Nat \ {0}
    BY SizesAre
  <2>2. Weight(maxScriptNumLen) <= Weight(maxBigNumLen - 1) /\ Weight(maxBigNumLen - 1) \in Nat /\ Weight(maxBigNumLen - 1) > 0
        /\ Weight(maxScriptNumLen - 1) \in Nat \ {0}
    BY <2>1, WeightMonotone, WeightType
  <2>3. W <= Weight(maxScriptNumLen) /\ W \in Nat /\ Weight(maxScriptNumLen) \in Nat /\ Weight(maxScriptNumLen - 1) <= W
    BY <2>1, TopWeight
  <2>4. SignBit \in Nat /\ SignBit > 1
    BY Widths
  <2>5. V \in Nat /\ V > Weight(maxBigNumLen - 1)
    BY <2>2, <2>4
  <2> QED BY <2>2, <2>3, <2>5
<1>4. Magnitude(n) < W
  <2> DEFINE l == Len(e)
             w(k) == SignBit * Weight(k - 1)
  <2>1. CASE l = 0
    <3>1. n = 0
      BY <1>1, <2>1, DecodeType
    <3> QED BY <1>3, <3>1 DEF Magnitude
  <2>2. CASE l > 0
    <3>1. Magnitude(n) < SignBit * Weight(l - 1) /\ Magnitude(n) \in Int
      BY <1>1, <1>2, <2>2, DecodeType DEF Magnitude
    <3>2. l - 1 \in Nat /\ maxScriptNumLen - 1 \in Nat /\ l - 1 <= maxScriptNumLen - 1
      BY <1>1, <1>2, <2>2, SizesAre
    <3>3. Weight(l - 1) <= Weight(maxScriptNumLen - 1) /\ Weight(l - 1) \in Nat /\ Weight(maxScriptNumLen - 1) \in Nat
      BY <3>2, WeightMonotone, WeightType
    <3>4. SignBit \in Nat /\ SignBit > 1
      BY Widths
    <3>5. SignBit * Weight(l - 1) <= W /\ SignBit * Weight(l - 1) \in Int
      BY <3>3, <3>4
    <3> HIDE DEF l, W
    <3> QED BY <1>3, <3>1, <3>5
  <2> QED BY <1>2, <2>1, <2>2
<1>5. n \in ScriptNumbers
  <2>1. ScriptNumbers = -(W - 1) .. (W - 1)
    BY DEF ScriptNumbers
  <2> HIDE DEF W
  <2> QED BY <1>2, <1>3, <1>4, <2>1 DEF Magnitude
<1>6. Magnitude(n) < V /\ Magnitude(n + 1) < V
  <2> HIDE DEF V, W
  <2> QED BY <1>2, <1>3, <1>4 DEF Magnitude
<1> QED BY <1>2, <1>5, <1>6 DEF Number, Representable

-----------------------------------------------------------------------------
(***************************************************************************)
(* Pushes, tests and numeric opcodes.                                      *)
(***************************************************************************)

\* Push opcodes.
LEMMA PushKeeps ==
  ASSUME NEW L \in Bounds, NEW s \in Seq(Elements(L)), NEW op \in PushOps, NEW data \in Short, NEW i
  PROVE  OpcodeEffect(i, op, data, s) \subseteq Seq(Elements(L))
<1> DEFINE T == Elements(L)
<1>1. OpcodeEffect(i, op, data, s) = PushOpcode(op, data, s)
  BY PushDispatch
<1>2. data \in T /\ <<>> \in T
  <2>1. <<>> \in Element /\ Len(<<>>) = 0
    BY DEF Element
  <2>2. <<>> \in Short
    BY <2>1, SizesAre DEF Short
  <2> QED BY <2>2, ShortIn
<1>3. Encode(-1) \in T /\ \A n \in 1 .. SmallIntMax : Encode(n) \in T
  <2>1. ASSUME NEW b \in Byte PROVE <<b>> \in Short
    <3>1. <<b>> \in Element /\ Len(<<b>>) = 1
      BY OneByte
    <3>2. 1 <= MaxScriptElementSize
      BY SizesAre
    <3> QED BY <3>1, <3>2 DEF Short
  <2> QED BY <2>1, MinusOneEncode, SmallEncode, ShortIn
<1> HIDE DEF T
<1> DEFINE M == {Append(s, Encode(n)) : n \in {k \in 1 .. SmallIntMax : SmallIntOp[k] = op}}
<1>4. M \subseteq Seq(T)
  BY <1>3 DEF T
<1>5. Append(s, <<>>) \in Seq(T) /\ Append(s, data) \in Seq(T) /\ Append(s, Encode(-1)) \in Seq(T)
  BY <1>2, <1>3 DEF T
<1>6. \/ PushOpcode(op, data, s) = {Append(s, <<>>)}
      \/ PushOpcode(op, data, s) = {Append(s, data)}
      \/ PushOpcode(op, data, s) = {Append(s, Encode(-1))}
      \/ PushOpcode(op, data, s) = M
  <2>1. \/ op = "OP_0" \/ op \in {"OP_DATA", "OP_PUSHDATA1", "OP_PUSHDATA2", "OP_PUSHDATA4"}
        \/ op = "OP_1NEGATE" \/ op \in SmallIntOps
    BY DEF PushOps
  <2>2. op \in SmallIntOps => op # "OP_0" /\ op \notin {"OP_DATA", "OP_PUSHDATA1", "OP_PUSHDATA2", "OP_PUSHDATA4"} /\ op # "OP_1NEGATE"
    BY SmallIntOpsAre
  <2> HIDE DEF M
  <2>3. PushOpcode(op, data, s) =
          CASE op = "OP_0" -> {Append(s, <<>>)}
            [] op \in {"OP_DATA", "OP_PUSHDATA1", "OP_PUSHDATA2", "OP_PUSHDATA4"} -> {Append(s, data)}
            [] op = "OP_1NEGATE" -> {Append(s, Encode(-1))}
            [] op \in SmallIntOps -> M
    BY DEF PushOpcode, Push, M
  <2> QED BY <2>1, <2>2, <2>3
<1> HIDE DEF M
<1>7. PushOpcode(op, data, s) \subseteq Seq(T)
  BY <1>4, <1>5, <1>6
<1> QED BY <1>1, <1>7 DEF T

LEMMA VerifyIn ==
  ASSUME NEW T, NEW S, S \subseteq Seq(T)
  PROVE  Verify(S) \subseteq Seq(T)
<1>1. ASSUME NEW s \in S PROVE Take1(s, LAMBDA a : IF AsBool(a) THEN {<<>>} ELSE {}) \subseteq Seq(T)
  <2> DEFINE R == IF AsBool(s[Len(s)]) THEN {<<>>} ELSE {}
  <2>1. Take1(s, LAMBDA a : IF AsBool(a) THEN {<<>>} ELSE {}) = IF Len(s) < 1 THEN {} ELSE {Below(s, 1) \o r : r \in R}
    BY DEF Take1
  <2>2. R \subseteq Seq(T) /\ s \in Seq(T)
    <3>1. R \subseteq {<<>>}
      OBVIOUS
    <3>2. <<>> \in Seq(T) /\ s \in Seq(T)
      OBVIOUS
    <3> HIDE DEF R
    <3> QED BY <3>1, <3>2
  <2> HIDE DEF R
  <2>3. (IF Len(s) < 1 THEN {} ELSE {Below(s, 1) \o r : r \in R}) \subseteq Seq(T)
    BY <2>2, Taken
  <2> QED BY <2>1, <2>3
<1> QED BY <1>1, Zenon DEF Verify

LEMMA BoolIn ==
  ASSUME NEW b, NEW n \in Bool(b)
  PROVE  n \in BigNums /\ n.val \in Int
BY BoolIs, BigNumsAre DEF Computes

LEMMA EqualKeeps ==
  ASSUME NEW L \in Bounds, NEW s \in Seq(Elements(L))
  PROVE  BitwiseOpcode("OP_EQUAL", s) \subseteq Seq(Elements(L))
<1> DEFINE T == Elements(L)
           R == {<<FromBool(s[Len(s) - 1] = s[Len(s)])>>}
<1>1. BitwiseOpcode("OP_EQUAL", s) = IF Len(s) < 2 THEN {} ELSE {Below(s, 2) \o r : r \in R}
  BY DEF BitwiseOpcode, Bytewise, Take1, Take2
<1>2. <<>> \in T /\ <<1>> \in T
  <2>1. 1 \in Byte
    BY Widths DEF Byte
  <2>2. <<1>> \in Element /\ Len(<<1>>) = 1 /\ <<>> \in Element /\ Len(<<>>) = 0
    BY <2>1 DEF Element
  <2>3. <<>> \in Short /\ <<1>> \in Short
    BY <2>2, SizesAre DEF Short
  <2> QED BY <2>3, ShortIn
<1> HIDE DEF T
<1>3. R \subseteq Seq(T)
  BY <1>2 DEF FromBool
<1> HIDE DEF R
<1>4. (IF Len(s) < 2 THEN {} ELSE {Below(s, 2) \o r : r \in R}) \subseteq Seq(T)
  BY <1>3, Taken DEF T
<1> QED BY <1>1, <1>4 DEF T

LEMMA NumEqualKeeps ==
  ASSUME NEW L \in Bounds, NEW s \in Seq(Elements(L)), NEW op
  PROVE  Num2(s, LAMBDA x, y : Comparison("OP_NUMEQUAL", x, y)) \subseteq Seq(Elements(L))
<1> DEFINE T == Elements(L)
           N == UNION {Comparison("OP_NUMEQUAL", x, y) : x \in BigNumFromBytes(s[Len(s) - 1]), y \in BigNumFromBytes(s[Len(s)])}
           R == PushNums(N)
<1>1. Num2(s, LAMBDA x, y : Comparison("OP_NUMEQUAL", x, y)) = IF Len(s) < 2 THEN {} ELSE {Below(s, 2) \o r : r \in R}
  BY DEF Num2, Take2
<1>2. \A n \in N : n.val \in Int
  <2>1. \A x, y : Comparison("OP_NUMEQUAL", x, y) = Bool(x.val = y.val)
    BY DEF Comparison
  <2> QED BY <2>1, BoolIn
<1> HIDE DEF N
<1>3. R \subseteq Seq(T)
  BY <1>2, PushNumsIn, SeqIn
<1> HIDE DEF R, T
<1>4. (IF Len(s) < 2 THEN {} ELSE {Below(s, 2) \o r : r \in R}) \subseteq Seq(T)
  BY <1>3, Taken DEF T
<1> QED BY <1>1, <1>4 DEF T

\* OP_VERIFY and the opcodes that end in it.
LEMMA VerifyKeeps ==
  ASSUME NEW L \in Bounds, NEW s \in Seq(Elements(L)), NEW op \in VerifyOps, NEW data, NEW i
  PROVE  OpcodeEffect(i, op, data, s) \subseteq Seq(Elements(L))
<1>1. OpcodeEffect(i, op, data, s) = VerifyOpcode(op, s)
  BY VerifyDispatch
<1> DEFINE A == BitwiseOpcode("OP_EQUAL", s)
           B == Num2(s, LAMBDA x, y : Comparison("OP_NUMEQUAL", x, y))
           C == CASE op = "OP_VERIFY" -> {s} [] op = "OP_EQUALVERIFY" -> A [] op = "OP_NUMEQUALVERIFY" -> B
<1>2. VerifyOpcode(op, s) = Verify(C)
  BY DEF VerifyOpcode
<1>3. A \subseteq Seq(Elements(L)) /\ B \subseteq Seq(Elements(L))
  BY EqualKeeps, NumEqualKeeps
<1> HIDE DEF A, B
<1>4. C \subseteq Seq(Elements(L))
  BY <1>3 DEF VerifyOps
<1> HIDE DEF C
<1> QED BY <1>1, <1>2, <1>4, VerifyIn

LEMMA SameKeeps ==
  ASSUME NEW L \in Bounds, NEW s \in Seq(Elements(L)), NEW op \in LockTimeOps \cup FailingOps \cup {"OP_NOP"}, NEW data, NEW i
  PROVE  OpcodeEffect(i, op, data, s) \subseteq Seq(Elements(L))
<1>1. CASE op \in LockTimeOps
  <2>1. LockTimeVerify(i, op, s) \subseteq {s}
    BY DEF LockTimeVerify
  <2> QED BY <1>1, <2>1, LockTimeDispatch
<1>2. CASE op \in FailingOps
  BY <1>2, FailingDispatch
<1>3. CASE op \in {"OP_NOP"}
  BY <1>3, NopDispatch
<1> QED BY <1>1, <1>2, <1>3

\* The residues are integers at every exponent.
LEMMA ModexpIn ==
  ASSUME NEW base \in BigNums, NEW exp \in BigNums, NEW modulus \in BigNums, NEW r \in Modexp(base, exp, modulus)
  PROVE  r.val \in Int
<1> DEFINE n == exp.val
           m == modulus.val
           b == base.val
           G == [p \in (1 .. n) \X Int |-> (p[2] * b) % m]
<1>1. n \in Int /\ m \in Int /\ b \in Int
  BY BigNumsAre
<1>2. m > 0 /\ n >= 0
  BY <1>1 DEF Modexp
<1>3. ASSUME NEW k \in 1 .. n, NEW x \in Int
      PROVE  G[<<k, x>>] = (x * b) % m /\ G[<<k, x>>] \in Int
  <2>1. x * b \in Int
    BY <1>1
  <2>2. (x * b) % m \in Int
    BY <1>1, <1>2, <2>1
  <2>3. G[<<k, x>>] = (x * b) % m
    OBVIOUS
  <2> QED BY <2>2, <2>3
<1>4. 1 % m \in Int
  BY <1>1, <1>2
<1> HIDE DEF G
<1>5. PICK f : Iterates(f, G, n, Int, 1 % m)
  <2>1. Steps(G, n, Int)
    BY <1>3 DEF Steps
  <2>2. n \in Nat
    BY <1>1, <1>2
  <2> HIDE DEF n, m
  <2> QED BY <1>4, <2>1, <2>2, Iteration
<1> DEFINE R(h) == h = [k \in 0 .. n |-> IF k = 0 THEN 1 % m ELSE (h[k - 1] * b) % m]
<1>6. R(f)
  <2> USE DEF Iterates
  <2>1. ASSUME NEW i \in 0 .. n PROVE f[i] = IF i = 0 THEN 1 % m ELSE (f[i - 1] * b) % m
    <3>1. CASE i = 0
      BY <1>5, <3>1
    <3>2. CASE i # 0
      <4>1. i \in 1 .. n /\ i - 1 \in 0 .. n
        BY <1>1, <3>2
      <4>2. f[i - 1] \in Int /\ f[i] = G[<<i, f[i - 1]>>]
        BY <1>5, <4>1
      <4> QED BY <1>3, <3>2, <4>1, <4>2
    <3> QED BY <3>1, <3>2
  <2> HIDE DEF n, m, b
  <2> QED BY <1>5, <2>1
<1> DEFINE g == CHOOSE h : R(h)
<1>7. R(g)
  BY <1>6
<1>8. Modexp(base, exp, modulus) = {Big(g[n])}
  BY <1>1, <1>2 DEF Modexp
<1> HIDE DEF g
<1>9. g[0] = 1 % m /\ \A k \in 1 .. n : g[k] = (g[k - 1] * b) % m
  <2>1. 0 \in 0 .. n /\ \A k \in 1 .. n : k \in 0 .. n /\ k # 0
    BY <1>1, <1>2
  <2> HIDE DEF n, m, b
  <2> QED BY <1>7, <2>1
<1>10. \A k \in 0 .. n : g[k] \in Int
  <2>1. ASSUME NEW k \in 1 .. n, g[k - 1] \in Int PROVE g[k] \in Int
    <3>1. g[k - 1] * b \in Int
      BY <1>1, <2>1
    <3>2. (g[k - 1] * b) % m \in Int
      BY <1>1, <1>2, <3>1
    <3> QED BY <1>9, <3>2
  <2>2. n \in Nat
    BY <1>1, <1>2
  <2> HIDE DEF n, m, b
  <2> QED BY <1>4, <1>9, <2>1, <2>2, IterationType
<1>11. g[n] \in Int
  BY <1>1, <1>2, <1>10
<1> HIDE DEF n
<1> QED BY <1>8, <1>11 DEF Big

LEMMA ShiftIn ==
  ASSUME NEW op, NEW x \in BigNums, NEW k \in Nat, NEW r \in ShiftNumeric(op, x, k)
  PROVE  r.val \in Int
<1>1. x.val \in Int /\ Pow2[k] \in Nat \ {0}
  BY BigNumsAre, Pow2Type
<1>2. x.val * Pow2[k] \in Int /\ x.val \div Pow2[k] \in Int
  BY <1>1
<1>3. Big(x.val * Pow2[k]).val \in Int /\ Big(x.val \div Pow2[k]).val \in Int
  BY <1>2 DEF Big
<1> QED BY <1>1, <1>3 DEF ShiftNumeric, Lshift, Rshift

LEMMA TernaryIn ==
  ASSUME NEW op \in TernaryNumericOps, NEW x \in BigNums, NEW y \in BigNums, NEW z \in BigNums,
         NEW r \in TernaryNumeric(op, x, y, z)
  PROVE  r.val \in Int
<1>1. CASE op = "OP_WITHIN"
  <2>1. TernaryNumeric(op, x, y, z) = InRange(x, y, z)
    BY <1>1 DEF TernaryNumeric
  <2> QED BY <2>1, BoolIn DEF InRange
<1>2. CASE op = "OP_MODEXP"
  <2>1. TernaryNumeric(op, x, y, z) \subseteq Modexp(x, y, z)
    BY <1>2 DEF TernaryNumeric
  <2> QED BY <2>1, ModexpIn
<1> QED BY <1>1, <1>2 DEF TernaryNumericOps

\* Numeric opcodes.
LEMMA NumericKeeps ==
  ASSUME NEW L \in Bounds, NEW s \in Seq(Elements(L)), NEW op \in NumericOps, NEW data, NEW i
  PROVE  OpcodeEffect(i, op, data, s) \subseteq Seq(Elements(L))
<1> DEFINE T == Elements(L)
           a == s[Len(s) - 2]
           b == s[Len(s) - 1]
           c == s[Len(s)]
           N1 == UNION {UnaryNumeric(op, x) : x \in BigNumFromBytes(c)}
           N2 == UNION {BinaryNumeric(op, x, y) : x \in BigNumFromBytes(b), y \in BigNumFromBytes(c)}
           N3 == UNION {Comparison(op, x, y) : x \in BigNumFromBytes(b), y \in BigNumFromBytes(c)}
           N4 == UNION {ShiftNumeric(op, x, k) : x \in BigNumFromBytes(b), k \in MakeScriptNum(c) \cap Nat}
           N5 == UNION {TernaryNumeric(op, x, y, z) : x \in BigNumFromBytes(a), y \in BigNumFromBytes(b), z \in BigNumFromBytes(c)}
           Pops(n, N) == IF Len(s) < n THEN {} ELSE {Below(s, n) \o r : r \in PushNums(N)}
<1>1. OpcodeEffect(i, op, data, s) = NumericOpcode(op, s)
  BY NumericDispatch
<1>2. /\ Len(s) >= 1 => c \in Element
      /\ Len(s) >= 2 => c \in Element /\ b \in Element
      /\ Len(s) >= 3 => c \in Element /\ b \in Element /\ a \in Element
  <2>1. s \in Seq(Element)
    BY SeqIn
  <2> QED BY <2>1, OperandsIn
<1>3. ASSUME NEW n \in Nat, NEW N, Len(s) >= n => \A x \in N : x.val \in Int
      PROVE  Pops(n, N) \subseteq Seq(T)
  <2>1. Len(s) >= n => PushNums(N) \subseteq Seq(T)
    BY <1>3, PushNumsIn, SeqIn
  <2> HIDE DEF T
  <2> QED BY <2>1, Taken DEF T
<1>4. \A e \in Element : BigNumFromBytes(e) \subseteq BigNums
  BY ReadNum
<1>5. \A N, V : Computes(N, V) => \A x \in N : x.val \in Int
  BY BigNumsAre DEF Computes
<1> HIDE DEF a, b, c
<1>6. CASE op \in UnaryNumericOps
  <2>1. NumericOpcode(op, s) = Pops(1, N1)
    <3>1. NumericOpcode(op, s) = Num1(s, LAMBDA x : UnaryNumeric(op, x))
      BY <1>6 DEF NumericOpcode, UnaryNumericOps, BinaryNumericOps, ComparisonOps, ShiftOps, TernaryNumericOps
    <3>2. Num1(s, LAMBDA x : UnaryNumeric(op, x)) = Pops(1, N1)
      BY DEF Num1, Take1, c
    <3> HIDE DEF Pops, N1, N2, N3, N4, N5
    <3> QED BY <3>1, <3>2
  <2>2. Len(s) >= 1 => \A x \in N1 : x.val \in Int
    BY <1>2, <1>4, <1>5, <1>6, UnaryExact
  <2> HIDE DEF Pops, N1
  <2> QED BY <1>1, <1>3, <2>1, <2>2
<1>7. CASE op \in BinaryNumericOps
  <2>1. NumericOpcode(op, s) = Pops(2, N2)
    <3>1. NumericOpcode(op, s) = Num2(s, LAMBDA x, y : BinaryNumeric(op, x, y))
      BY <1>7 DEF NumericOpcode, UnaryNumericOps, BinaryNumericOps, ComparisonOps, ShiftOps, TernaryNumericOps
    <3>2. Num2(s, LAMBDA x, y : BinaryNumeric(op, x, y)) = Pops(2, N2)
      BY DEF Num2, Take2, b, c
    <3> HIDE DEF Pops, N1, N2, N3, N4, N5
    <3> QED BY <3>1, <3>2
  <2>2. Len(s) >= 2 => \A x \in N2 : x.val \in Int
    BY <1>2, <1>4, <1>5, <1>7, BinaryExact
  <2> HIDE DEF Pops, N2
  <2> QED BY <1>1, <1>3, <2>1, <2>2
<1>8. CASE op \in ComparisonOps
  <2>1. NumericOpcode(op, s) = Pops(2, N3)
    <3>1. NumericOpcode(op, s) = Num2(s, LAMBDA x, y : Comparison(op, x, y))
      BY <1>8 DEF NumericOpcode, UnaryNumericOps, BinaryNumericOps, ComparisonOps, ShiftOps, TernaryNumericOps
    <3>2. Num2(s, LAMBDA x, y : Comparison(op, x, y)) = Pops(2, N3)
      BY DEF Num2, Take2, b, c
    <3> HIDE DEF Pops, N1, N2, N3, N4, N5
    <3> QED BY <3>1, <3>2
  <2>2. Len(s) >= 2 => \A x \in N3 : x.val \in Int
    BY <1>2, <1>4, <1>5, <1>8, ComparisonExact
  <2> HIDE DEF Pops, N3
  <2> QED BY <1>1, <1>3, <2>1, <2>2
<1>9. CASE op \in ShiftOps
  <2>1. NumericOpcode(op, s) = Pops(2, N4)
    <3>1. NumericOpcode(op, s) = Shift(s, LAMBDA x, k : ShiftNumeric(op, x, k))
      BY <1>9 DEF NumericOpcode, UnaryNumericOps, BinaryNumericOps, ComparisonOps, ShiftOps, TernaryNumericOps
    <3>2. Shift(s, LAMBDA x, k : ShiftNumeric(op, x, k)) = Pops(2, N4)
      BY DEF Shift, Take2, b, c
    <3> HIDE DEF Pops, N1, N2, N3, N4, N5
    <3> QED BY <3>1, <3>2
  <2>2. Len(s) >= 2 => \A x \in N4 : x.val \in Int
    BY <1>2, <1>4, ShiftIn
  <2> HIDE DEF Pops, N4
  <2> QED BY <1>1, <1>3, <2>1, <2>2
<1>10. CASE op \in TernaryNumericOps
  <2>1. NumericOpcode(op, s) = Pops(3, N5)
    <3>1. NumericOpcode(op, s) = Num3(s, LAMBDA x, y, z : TernaryNumeric(op, x, y, z))
      BY <1>10 DEF NumericOpcode, UnaryNumericOps, BinaryNumericOps, ComparisonOps, ShiftOps, TernaryNumericOps
    <3>2. Num3(s, LAMBDA x, y, z : TernaryNumeric(op, x, y, z)) = Pops(3, N5)
      BY DEF Num3, Take3, a, b, c
    <3> HIDE DEF Pops, N1, N2, N3, N4, N5
    <3> QED BY <3>1, <3>2
  <2>2. Len(s) >= 3 => \A x \in N5 : x.val \in Int
    BY <1>2, <1>4, <1>10, TernaryIn
  <2> HIDE DEF Pops, N5
  <2> QED BY <1>1, <1>3, <2>1, <2>2
<1> QED BY <1>6, <1>7, <1>8, <1>9, <1>10 DEF NumericOps

-----------------------------------------------------------------------------
(***************************************************************************)
(* Stack, splice and bitwise opcodes.                                      *)
(***************************************************************************)

LEMMA FixedBytesIn ==
  ASSUME NEW n, n.val \in Int, NEW k \in 0 .. maxBigNumLen
  PROVE  FixedBytes(n, k) \subseteq Short
<1> DEFINE e == Encode(n.val)
<1>1. e \in Element /\ Len(e) \in Nat /\ k \in Nat /\ k <= MaxScriptElementSize
  BY EncodeType, ElementLen, SizesAre
<1>2. BigNumBytes(n) = {} \/ BigNumBytes(n) = {e}
  BY DEF BigNumBytes
<1> HIDE DEF e
<1>3. CASE BigNumBytes(n) = {} \/ ~(Len(e) <= k)
  <2>1. {x \in BigNumBytes(n) : Len(x) <= k} = {}
    BY <1>2, <1>3
  <2>2. FixedBytes(n, k) = {}
    BY <2>1 DEF FixedBytes
  <2> QED BY <2>2
<1>4. CASE BigNumBytes(n) = {e} /\ Len(e) <= k
  <2>1. PICK W \in Element : FixedBytes(n, k) = {W} /\ Len(W) = k
    BY <1>1, <1>4, FixedIs
  <2> QED BY <1>1, <2>1 DEF Short
<1> QED BY <1>2, <1>3, <1>4

\* OP_NUM2BIN and OP_BIN2NUM.
LEMMA ConversionKeeps ==
  ASSUME NEW L \in Bounds, NEW s \in Seq(Elements(L)), NEW op \in {"OP_NUM2BIN", "OP_BIN2NUM"}, NEW data, NEW i
  PROVE  OpcodeEffect(i, op, data, s) \subseteq Seq(Elements(L))
<1> DEFINE T == Elements(L)
           b == s[Len(s) - 1]
           c == s[Len(s)]
           W1 == UNION {FixedBytes(x, k) : x \in BigNumFromBytes(b), k \in MakeScriptNum(c) \cap 0 .. maxBigNumLen}
           R1 == {<<w>> : w \in W1}
           R2 == IF Len(c) > maxBigNumLen THEN {} ELSE {<<MinimallyEncode(c)>>}
<1>1. OpcodeEffect(i, op, data, s) = NumConversion(op, s)
  BY ConversionDispatch
<1>2. Short \subseteq T /\ T \subseteq Element /\ s \in Seq(Element)
  BY ShortIn, SeqIn
<1>3. CASE op = "OP_NUM2BIN"
  <2>1. NumConversion(op, s) = IF Len(s) < 2 THEN {} ELSE {Below(s, 2) \o r : r \in R1}
    BY <1>3 DEF NumConversion, Take1, Take2
  <2>2. Len(s) >= 2 => R1 \subseteq Seq(T)
    <3> SUFFICES ASSUME Len(s) >= 2, NEW w \in W1 PROVE w \in Short
      <4> HIDE DEF T, W1
      <4> QED BY <1>2, Singles
    <3>1. b \in Element
      BY <1>2, OperandsIn
    <3> HIDE DEF b, c
    <3>2. PICK x \in BigNumFromBytes(b), k \in 0 .. maxBigNumLen : w \in FixedBytes(x, k)
      OBVIOUS
    <3>3. x.val \in Int
      BY <3>1, ReadNum
    <3> QED BY <3>2, <3>3, FixedBytesIn
  <2> HIDE DEF R1, T
  <2>3. (IF Len(s) < 2 THEN {} ELSE {Below(s, 2) \o r : r \in R1}) \subseteq Seq(T)
    BY <2>2, Taken DEF T
  <2> QED BY <1>1, <2>1, <2>3 DEF T
<1>4. CASE op = "OP_BIN2NUM"
  <2>1. NumConversion(op, s) = IF Len(s) < 1 THEN {} ELSE {Below(s, 1) \o r : r \in R2}
    BY <1>4 DEF NumConversion, Take1, Take2
  <2>2. Len(s) >= 1 => R2 \subseteq Seq(T)
    <3> SUFFICES ASSUME Len(s) >= 1, Len(c) <= maxBigNumLen PROVE MinimallyEncode(c) \in Short
      <4>0. Len(s) >= 1 => c \in Element
        BY <1>2, OperandsIn
      <4>1. Len(s) >= 1 => Len(c) \in Nat
        BY <4>0, ElementLen
      <4>2. Len(s) >= 1 => (Len(c) > maxBigNumLen <=> ~(Len(c) <= maxBigNumLen))
        BY <4>1, SizesAre
      <4>3. MinimallyEncode(c) \in T => {<<MinimallyEncode(c)>>} \subseteq Seq(T)
        OBVIOUS
      <4> HIDE DEF T, c
      <4> QED BY <1>2, <4>2, <4>3
    <3>1. c \in Element
      BY <1>2, OperandsIn
    <3> HIDE DEF c
    <3>2. MinimallyEncode(c) = Encode(Decode(c)) /\ Encode(Decode(c)) \in Element /\ Len(Encode(Decode(c))) <= Len(c)
      BY <3>1, MinimallyEncodes, EncodedNumeric
    <3>3. Len(Encode(Decode(c))) \in Nat /\ Len(c) \in Nat
      BY <3>1, <3>2, ElementLen
    <3> QED BY <3>2, <3>3, SizesAre DEF Short
  <2> HIDE DEF R2, T
  <2>3. (IF Len(s) < 1 THEN {} ELSE {Below(s, 1) \o r : r \in R2}) \subseteq Seq(T)
    BY <2>2, Taken DEF T
  <2> QED BY <1>1, <2>1, <2>3 DEF T
<1> QED BY <1>3, <1>4

\* A picture makes no new elements.
LEMMA ReplacedIn ==
  ASSUME NEW T, NEW s \in Seq(T), NEW n \in Nat, NEW to \in Seq(1 .. n), NEW X, Replaces(X, s, n, to)
  PROVE  X \subseteq Seq(T)
<1> DEFINE m == Len(s) - n
           a == SubSeq(s, 1, m)
           b == [k \in 1 .. Len(to) |-> s[m + to[k]]]
<1>1. X = IF m < 0 THEN {} ELSE {a \o b}
  BY DEF Replaces
<1>2. CASE m < 0
  BY <1>1, <1>2
<1>3. CASE ~(m < 0)
  <2>1. Len(s) \in Nat /\ m \in 0 .. Len(s) /\ Len(to) \in Nat /\ \A k \in 1 .. Len(to) : m + to[k] \in 1 .. Len(s)
    BY <1>3
  <2>2. a \in Seq(T)
    BY <2>1
  <2>3. b \in Seq(T)
    <3> HIDE DEF m
    <3> QED BY <2>1
  <2> HIDE DEF a, b, m
  <2> QED BY <1>1, <1>3, <2>2, <2>3
<1> QED BY <1>2, <1>3

LEMMA TransformationType ==
  ASSUME NEW op \in DOMAIN Transformation
  PROVE  Transformation[op].n \in Nat /\ Transformation[op].to \in Seq(1 .. Transformation[op].n)
<1> DEFINE P(x) == x.n \in Nat /\ x.to \in Seq(1 .. x.n)
<1>1. CASE op = "OP_2DROP"
  <2>1. Transformation[op] = [n |-> 2, to |-> <<>>]
    BY <1>1 DEF Transformation
  <2>2. P([n |-> 2, to |-> <<>>])
    OBVIOUS
  <2> QED BY <2>1, <2>2
<1>2. CASE op = "OP_2DUP"
  <2>1. Transformation[op] = [n |-> 2, to |-> <<1, 2, 1, 2>>]
    BY <1>2 DEF Transformation
  <2>2. P([n |-> 2, to |-> <<1, 2, 1, 2>>])
    OBVIOUS
  <2> QED BY <2>1, <2>2
<1>3. CASE op = "OP_3DUP"
  <2>1. Transformation[op] = [n |-> 3, to |-> <<1, 2, 3, 1, 2, 3>>]
    BY <1>3 DEF Transformation
  <2>2. P([n |-> 3, to |-> <<1, 2, 3, 1, 2, 3>>])
    OBVIOUS
  <2> QED BY <2>1, <2>2
<1>4. CASE op = "OP_2OVER"
  <2>1. Transformation[op] = [n |-> 4, to |-> <<1, 2, 3, 4, 1, 2>>]
    BY <1>4 DEF Transformation
  <2>2. P([n |-> 4, to |-> <<1, 2, 3, 4, 1, 2>>])
    OBVIOUS
  <2> QED BY <2>1, <2>2
<1>5. CASE op = "OP_2ROT"
  <2>1. Transformation[op] = [n |-> 6, to |-> <<3, 4, 5, 6, 1, 2>>]
    BY <1>5 DEF Transformation
  <2>2. P([n |-> 6, to |-> <<3, 4, 5, 6, 1, 2>>])
    OBVIOUS
  <2> QED BY <2>1, <2>2
<1>6. CASE op = "OP_2SWAP"
  <2>1. Transformation[op] = [n |-> 4, to |-> <<3, 4, 1, 2>>]
    BY <1>6 DEF Transformation
  <2>2. P([n |-> 4, to |-> <<3, 4, 1, 2>>])
    OBVIOUS
  <2> QED BY <2>1, <2>2
<1>7. CASE op = "OP_DROP"
  <2>1. Transformation[op] = [n |-> 1, to |-> <<>>]
    BY <1>7 DEF Transformation
  <2>2. P([n |-> 1, to |-> <<>>])
    OBVIOUS
  <2> QED BY <2>1, <2>2
<1>8. CASE op = "OP_DUP"
  <2>1. Transformation[op] = [n |-> 1, to |-> <<1, 1>>]
    BY <1>8 DEF Transformation
  <2>2. P([n |-> 1, to |-> <<1, 1>>])
    OBVIOUS
  <2> QED BY <2>1, <2>2
<1>9. CASE op = "OP_NIP"
  <2>1. Transformation[op] = [n |-> 2, to |-> <<2>>]
    BY <1>9 DEF Transformation
  <2>2. P([n |-> 2, to |-> <<2>>])
    OBVIOUS
  <2> QED BY <2>1, <2>2
<1>10. CASE op = "OP_OVER"
  <2>1. Transformation[op] = [n |-> 2, to |-> <<1, 2, 1>>]
    BY <1>10 DEF Transformation
  <2>2. P([n |-> 2, to |-> <<1, 2, 1>>])
    OBVIOUS
  <2> QED BY <2>1, <2>2
<1>11. CASE op = "OP_ROT"
  <2>1. Transformation[op] = [n |-> 3, to |-> <<2, 3, 1>>]
    BY <1>11 DEF Transformation
  <2>2. P([n |-> 3, to |-> <<2, 3, 1>>])
    OBVIOUS
  <2> QED BY <2>1, <2>2
<1>12. CASE op = "OP_SWAP"
  <2>1. Transformation[op] = [n |-> 2, to |-> <<2, 1>>]
    BY <1>12 DEF Transformation
  <2>2. P([n |-> 2, to |-> <<2, 1>>])
    OBVIOUS
  <2> QED BY <2>1, <2>2
<1>13. CASE op = "OP_TUCK"
  <2>1. Transformation[op] = [n |-> 2, to |-> <<2, 1, 2>>]
    BY <1>13 DEF Transformation
  <2>2. P([n |-> 2, to |-> <<2, 1, 2>>])
    OBVIOUS
  <2> QED BY <2>1, <2>2
<1> QED BY <1>1, <1>2, <1>3, <1>4, <1>5, <1>6, <1>7, <1>8, <1>9, <1>10, <1>11, <1>12, <1>13 DEF Transformation

LEMMA NipIn ==
  ASSUME NEW T, NEW s \in Seq(T), NEW n \in Int, NEW x \in nipN(s, n)
  PROVE  x.so \in T /\ x.stk \in Seq(T)
<1> DEFINE u == SubSeq(s, 1, Len(s) - n - 1) \o SubSeq(s, Len(s) - n + 1, Len(s))
           v == s[Len(s) - n]
           rec == [so |-> v, stk |-> u]
<1>0. nipN(s, n) = IF n >= 0 /\ n <= Len(s) - 1 THEN {rec} ELSE {}
  BY DEF nipN
<1> HIDE DEF rec
<1>1. n >= 0 /\ n <= Len(s) - 1 /\ Len(s) \in Nat /\ x = rec
  BY <1>0
<1> HIDE DEF u, v
<1>2. x.so = v /\ x.stk = u
  BY <1>1 DEF rec
<1>3. SubSeq(s, 1, Len(s) - n - 1) \in Seq(T) /\ SubSeq(s, Len(s) - n + 1, Len(s)) \in Seq(T)
  BY <1>1
<1>4. u \in Seq(T)
  BY <1>3 DEF u
<1>5. v \in T
  BY <1>1 DEF v
<1> QED BY <1>2, <1>4, <1>5

LEMMA EncodedSize ==
  ASSUME NEW k \in Nat
  PROVE  Encode(k) \in Element /\ Len(Encode(k)) <= k
<1>1. k \in Int /\ (k > 0 => k - 1 \in Nat)
  OBVIOUS
<1>2. CASE k = 0
  BY <1>1, <1>2, EncodeType
<1>3. CASE k > 0
  <2> DEFINE w == Weight(k - 1)
  <2>1. w \in Nat /\ w > k - 1 /\ SignBit \in Nat /\ SignBit > 1
    BY <1>1, <1>3, WeightType, Widths
  <2>2. k < SignBit * w
    <3> HIDE DEF w
    <3> QED BY <1>3, <2>1
  <2>3. Magnitude(k) = k
    BY DEF Magnitude
  <2> QED BY <1>1, <1>3, <2>2, <2>3, EncodeType
<1> QED BY <1>2, <1>3

LEMMA DepthIn ==
  ASSUME NEW d \in 0 .. MaxStackSize
  PROVE  Encode(d) \in Short
<1>1. MaxStackSize \in Nat /\ Magnitude(MaxStackSize) < SignBit * Weight(maxBigNumLen - 1) /\ Magnitude(MaxStackSize) = MaxStackSize
  BY SizeAssumption, EngineAssumption DEF Number, Representable, Magnitude
<1>2. SignBit * Weight(maxBigNumLen - 1) \in Nat
  BY TopWeight, SizesAre
<1>3. Magnitude(d) < SignBit * Weight(maxBigNumLen - 1)
  BY <1>1, <1>2 DEF Magnitude
<1> QED BY <1>3, EncodedLength DEF Representable

\* Stack opcodes.
LEMMA StackKeeps ==
  ASSUME NEW L \in Bounds, NEW s \in Seq(Elements(L)), NEW op \in StackOps, NEW data, NEW i,
         op = "OP_DEPTH" => Len(s) <= MaxStackSize
  PROVE  OpcodeEffect(i, op, data, s) \subseteq Seq(Elements(L))
<1> DEFINE T == Elements(L)
           e == s[Len(s)]
<1>1. OpcodeEffect(i, op, data, s) = StackOpcode(op, s)
  BY StackDispatch
<1>2. Short \subseteq T /\ T \subseteq Element /\ s \in Seq(T) /\ Len(s) \in Nat
  BY ShortIn
<1>3. Peek(s, 0) = IF Len(s) >= 1 THEN {e} ELSE {}
  BY <1>2 DEF Peek
<1>4. Len(s) >= 1 => e \in T
  OBVIOUS
<1>5. \A x \in T : Append(s, x) \in Seq(T)
  BY <1>2
<1>6. Len(s) >= 1 => Below(s, 1) \in Seq(T)
  BY BelowIs
<1>7. CASE op \in DOMAIN Transformation
  BY <1>1, <1>2, <1>7, StackResult, TransformationType, ReplacedIn
<1> HIDE DEF T, e
<1>8. CASE op = "OP_IFDUP"
  <2>1. StackOpcode(op, s) = {IF AsBool(x) THEN Append(s, x) ELSE s : x \in Peek(s, 0)}
    BY <1>8 DEF StackOpcode
  <2> QED BY <1>1, <1>2, <1>3, <1>4, <1>5, <2>1 DEF T
<1>9. CASE op = "OP_DEPTH"
  <2>1. StackOpcode(op, s) = {Append(s, Encode(Len(s)))}
    BY <1>9 DEF StackOpcode, Push, Depth
  <2>2. Encode(Len(s)) \in Short
    BY <1>2, <1>9, DepthIn, EngineAssumption
  <2> QED BY <1>1, <1>2, <1>5, <2>1, <2>2 DEF T
<1>10. CASE op = "OP_PICK"
  <2>1. StackOpcode(op, s) = UNION {UNION {PickN(Below(s, 1), n) : n \in MakeScriptNum(x)} : x \in Peek(s, 0)}
    BY <1>10 DEF StackOpcode
  <2>2. ASSUME NEW b \in Seq(T), NEW n \in Int PROVE PickN(b, n) \subseteq Seq(T)
    BY <2>2 DEF PickN, CopyUp, Peek
  <2>3. Len(s) >= 1 => \A n \in MakeScriptNum(e) : PickN(Below(s, 1), n) \subseteq Seq(T)
    BY <1>2, <1>4, <1>6, <2>2, ReadScriptNum
  <2> QED BY <1>1, <1>3, <2>1, <2>3 DEF T
<1>11. CASE op = "OP_ROLL"
  <2>1. StackOpcode(op, s) = UNION {UNION {RollN(Below(s, 1), n) : n \in MakeScriptNum(x)} : x \in Peek(s, 0)}
    BY <1>11 DEF StackOpcode
  <2>2. ASSUME NEW b \in Seq(T), NEW n \in Int PROVE RollN(b, n) \subseteq Seq(T)
    <3>1. ASSUME NEW x \in nipN(b, n) PROVE Append(x.stk, x.so) \in Seq(T)
      BY NipIn
    <3> QED BY <3>1 DEF RollN, MoveUp
  <2>3. Len(s) >= 1 => \A n \in MakeScriptNum(e) : RollN(Below(s, 1), n) \subseteq Seq(T)
    BY <1>2, <1>4, <1>6, <2>2, ReadScriptNum
  <2> QED BY <1>1, <1>3, <2>1, <2>3 DEF T
<1>12. CASE op = "OP_SIZE"
  <2>1. StackOpcode(op, s) = {Append(s, Encode(Len(x))) : x \in Peek(s, 0)}
    BY <1>12 DEF StackOpcode
  <2>2. Len(s) >= 1 => Encode(Len(e)) \in T
    <3> SUFFICES ASSUME e \in T, e \in Element PROVE Encode(Len(e)) \in T
      BY <1>2, <1>4
    <3>1. Len(e) \in Nat /\ Len(e) <= L /\ L \in Nat
      BY ElementLen DEF T, Elements, Bounds
    <3>2. Encode(Len(e)) \in Element /\ Len(Encode(Len(e))) <= Len(e)
      BY <3>1, EncodedSize
    <3>3. Len(Encode(Len(e))) \in Nat
      BY <3>2, ElementLen
    <3> QED BY <3>1, <3>2, <3>3 DEF T, Elements
  <2> QED BY <1>1, <1>3, <1>5, <2>1, <2>2 DEF T
<1> QED BY <1>7, <1>8, <1>9, <1>10, <1>11, <1>12 DEF StackOps, Transformation

LEMMA SubIn ==
  ASSUME NEW L \in Bounds, NEW e \in Elements(L), NEW lo \in Nat \ {0}, NEW hi \in 0 .. Len(e)
  PROVE  SubSeq(e, lo, hi) \in Elements(L)
<1>1. e \in Seq(Byte) /\ Len(e) \in Nat /\ Len(e) <= L /\ L \in Nat
  BY ElementLen DEF Elements, Bounds, Element
<1>2. SubSeq(e, lo, hi) \in Seq(Byte) /\ Len(SubSeq(e, lo, hi)) <= Len(e) /\ Len(SubSeq(e, lo, hi)) \in Nat
  BY <1>1
<1> QED BY <1>1, <1>2 DEF Elements, Element

LEMMA CatIn ==
  ASSUME NEW a \in Element, NEW b \in Element, Len(a) + Len(b) <= maxBigNumLen
  PROVE  a \o b \in Short
<1>1. a \o b \in Seq(Byte) /\ Len(a \o b) = Len(a) + Len(b) /\ Len(a) \in Nat /\ Len(b) \in Nat
  BY DEF Element
<1> QED BY <1>1, SizesAre DEF Short, Element

LEMMA BytesOf ==
  ASSUME NEW L \in Bounds, NEW n \in 0 .. L, NEW f, \A i \in 1 .. n : f[i] \in Byte
  PROVE  SubSeq([i \in 1 .. n |-> f[i]], 1, n) \in Elements(L)
<1>1. n \in Nat /\ L \in Nat /\ n <= L
  BY DEF Bounds
<1>2. LET b == SubSeq([i \in 1 .. n |-> f[i]], 1, n) IN b \in Element /\ Len(b) = n
  BY <1>1, BytesAre
<1> QED BY <1>1, <1>2 DEF Elements

\* Splice opcodes: OP_CAT tests the length.
LEMMA SpliceKeeps ==
  ASSUME NEW L \in Bounds, NEW s \in Seq(Elements(L)), NEW op \in SpliceOps, NEW data, NEW i
  PROVE  OpcodeEffect(i, op, data, s) \subseteq Seq(Elements(L))
<1> DEFINE T == Elements(L)
           a == s[Len(s) - 2]
           b == s[Len(s) - 1]
           c == s[Len(s)]
           Pops(n, R) == IF Len(s) < n THEN {} ELSE {Below(s, n) \o r : r \in R}
           R1 == IF Len(b) + Len(c) > maxBigNumLen THEN {} ELSE {<<b \o c>>}
           Q2 == {q \in Within(b, Len(a)) \X Within(c, Len(a)) : q[1] + q[2] <= Len(a)}
           R2 == {<<SubSeq(a, q[1] + 1, q[1] + q[2])>> : q \in Q2}
           R3 == {<<SubSeq(b, 1, n)>> : n \in Within(c, Len(b))}
           R4 == {<<SubSeq(b, Len(b) - n + 1, Len(b))>> : n \in Within(c, Len(b))}
           v == SubSeq([k \in 1 .. Len(c) |-> c[Len(c) + 1 - k]], 1, Len(c))
           R5 == {<<v>>}
<1>1. OpcodeEffect(i, op, data, s) = SpliceOpcode(op, s)
  BY SpliceDispatch
<1>2. /\ SpliceOpcode("OP_CAT", s) = Pops(2, R1)
      /\ SpliceOpcode("OP_SUBSTR", s) = Pops(3, R2)
      /\ SpliceOpcode("OP_LEFT", s) = Pops(2, R3)
      /\ SpliceOpcode("OP_RIGHT", s) = Pops(2, R4)
      /\ SpliceOpcode("OP_REVERSEBYTES", s) = Pops(1, R5)
  <2>1. SpliceOpcode("OP_CAT", s) = Pops(2, R1)
    BY DEF SpliceOpcode, Cat, Take1, Take2, Take3
  <2>2. SpliceOpcode("OP_SUBSTR", s) = Pops(3, R2)
    BY DEF SpliceOpcode, Cat, Take1, Take2, Take3
  <2>3. SpliceOpcode("OP_LEFT", s) = Pops(2, R3)
    BY DEF SpliceOpcode, Cat, Take1, Take2, Take3
  <2>4. SpliceOpcode("OP_RIGHT", s) = Pops(2, R4)
    BY DEF SpliceOpcode, Cat, Take1, Take2, Take3
  <2>5. SpliceOpcode("OP_REVERSEBYTES", s) = Pops(1, R5)
    BY DEF SpliceOpcode, Cat, Take1, Take2, Take3, Bytes
  <2> HIDE DEF Pops, R1, R2, R3, R4, R5
  <2> QED BY <2>1, <2>2, <2>3, <2>4, <2>5
<1>3. /\ Len(s) >= 1 => c \in T
      /\ Len(s) >= 2 => c \in T /\ b \in T
      /\ Len(s) >= 3 => c \in T /\ b \in T /\ a \in T
  BY OperandsIn
<1>4. \A e \in T : e \in Element /\ Len(e) \in Nat /\ Len(e) <= L /\ L \in Nat
  BY ElementLen DEF Elements, Bounds
<1>5. ASSUME NEW n \in Nat, NEW R, Len(s) >= n => R \subseteq Seq(T) PROVE Pops(n, R) \subseteq Seq(T)
  <2> HIDE DEF T
  <2> QED BY <1>5, Taken DEF T
<1> HIDE DEF Pops, a, b, c
<1>6. Len(s) >= 2 => R1 \subseteq Seq(T)
  <2> SUFFICES ASSUME b \in T, c \in T PROVE R1 \subseteq Seq(T)
    BY <1>3
  <2>1. CASE Len(b) + Len(c) > maxBigNumLen
    BY <2>1
  <2>2. CASE ~(Len(b) + Len(c) > maxBigNumLen)
    <3>1. b \o c \in Short
      BY <1>4, <2>2, CatIn, SizesAre
    <3>2. b \o c \in T
      BY <3>1, ShortIn
    <3> HIDE DEF T
    <3> QED BY <2>2, <3>2
  <2> QED BY <2>1, <2>2
<1>7. Len(s) >= 3 => R2 \subseteq Seq(T)
  <2> DEFINE W == {SubSeq(a, q[1] + 1, q[1] + q[2]) : q \in Q2}
  <2>0. R2 = {<<w>> : w \in W}
    <3> HIDE DEF Q2
    <3> QED OBVIOUS
  <2> SUFFICES ASSUME a \in T, NEW q \in Q2 PROVE SubSeq(a, q[1] + 1, q[1] + q[2]) \in T
    <3>1. Len(s) >= 3 => W \subseteq T
      <4> HIDE DEF T, Q2
      <4> QED BY <1>3
    <3> HIDE DEF T, W, R2
    <3> QED BY <2>0, <3>1, Singles
  <2>1. q[1] \in 0 .. Len(a) /\ q[2] \in 0 .. Len(a) /\ q[1] + q[2] <= Len(a)
    BY DEF Within
  <2>2. Len(a) \in Nat
    BY <1>4
  <2>3. q[1] + 1 \in Nat \ {0} /\ q[1] + q[2] \in 0 .. Len(a)
    BY <2>1, <2>2
  <2> QED BY <2>3, SubIn
<1>8. Len(s) >= 2 => R3 \subseteq Seq(T) /\ R4 \subseteq Seq(T)
  <2> DEFINE V == {SubSeq(b, 1, n) : n \in Within(c, Len(b))}
             W == {SubSeq(b, Len(b) - n + 1, Len(b)) : n \in Within(c, Len(b))}
  <2>0. R3 = {<<w>> : w \in V} /\ R4 = {<<w>> : w \in W}
    OBVIOUS
  <2> SUFFICES ASSUME b \in T, NEW n \in Within(c, Len(b))
               PROVE  SubSeq(b, 1, n) \in T /\ SubSeq(b, Len(b) - n + 1, Len(b)) \in T
    <3>1. Len(s) >= 2 => V \subseteq T /\ W \subseteq T
      <4> HIDE DEF T
      <4> QED BY <1>3
    <3> HIDE DEF T, V, W, R3, R4
    <3> QED BY <2>0, <3>1, Singles
  <2>1. n \in 0 .. Len(b) /\ Len(b) \in Nat
    BY <1>4 DEF Within
  <2>2. 1 \in Nat \ {0} /\ Len(b) - n + 1 \in Nat \ {0} /\ Len(b) \in 0 .. Len(b)
    BY <2>1
  <2> QED BY <2>1, <2>2, SubIn
<1>9. Len(s) >= 1 => R5 \subseteq Seq(T)
  <2> SUFFICES ASSUME c \in T PROVE v \in T
    <3> HIDE DEF T, v
    <3> QED BY <1>3
  <2> DEFINE n == Len(c)
             f == [k \in 1 .. n |-> c[n + 1 - k]]
  <2>1. c \in Element /\ n \in 0 .. L /\ n \in Nat
    BY <1>4
  <2>2. ASSUME NEW k \in 1 .. n PROVE f[k] \in Byte
    <3>1. n + 1 - k \in 1 .. Len(c)
      BY <2>1
    <3>2. c[n + 1 - k] \in Byte
      BY <2>1, <3>1, ByteOf DEF Byte
    <3> QED BY <3>2
  <2>3. [k \in 1 .. n |-> f[k]] = [k \in 1 .. n |-> c[n + 1 - k]]
    OBVIOUS
  <2> HIDE DEF f
  <2>4. SubSeq([k \in 1 .. n |-> f[k]], 1, n) \in Elements(L)
    <3> HIDE DEF n
    <3> QED BY <2>1, <2>2, BytesOf
  <2> QED BY <2>3, <2>4
<1> HIDE DEF T, R1, R2, R3, R4, R5
<1>10. SpliceOpcode(op, s) \subseteq Seq(T)
  BY <1>2, <1>5, <1>6, <1>7, <1>8, <1>9 DEF SpliceOps
<1> QED BY <1>1, <1>10 DEF T

\* The bits of two bytes make a byte.
LEMMA FromBitsIn ==
  ASSUME NEW B
  PROVE  FromBits(B) \in Byte
<1> DEFINE n == ByteBits
           add(k) == IF k - 1 \in B THEN Pow2[k - 1] ELSE 0
           G == [p \in (1 .. n) \X Nat |-> p[2] + add(p[1])]
<1>0. n \in Nat /\ 0 \in Nat
  BY WidthAssumption
<1>1. ASSUME NEW k \in 1 .. n PROVE add(k) \in Nat /\ add(k) <= Pow2[k - 1] /\ Pow2[k] = 2 * Pow2[k - 1] /\ Pow2[k - 1] \in Nat
  <2>1. k - 1 \in Nat /\ (k - 1) + 1 = k
    BY <1>0
  <2>2. Pow2[k - 1] \in Nat /\ Pow2[(k - 1) + 1] = 2 * Pow2[k - 1]
    BY <2>1, Pow2Type, Pow2Step
  <2> QED BY <2>1, <2>2
<1>2. ASSUME NEW k \in 1 .. n, NEW x \in Nat
      PROVE  G[<<k, x>>] = x + add(k) /\ G[<<k, x>>] \in Nat
  <2>1. add(k) \in Nat
    BY <1>1
  <2> HIDE DEF add
  <2>2. G[<<k, x>>] = x + add(k)
    OBVIOUS
  <2> QED BY <2>1, <2>2
<1> HIDE DEF G
<1>3. PICK f : Iterates(f, G, n, Nat, 0)
  <2>1. Steps(G, n, Nat)
    BY <1>2 DEF Steps
  <2> HIDE DEF n
  <2> QED BY <1>0, <2>1, Iteration
<1> DEFINE R(h) == h = [k \in 0 .. n |-> IF k = 0 THEN 0 ELSE h[k - 1] + add(k)]
<1>4. R(f)
  <2> USE DEF Iterates
  <2> HIDE DEF add
  <2>1. ASSUME NEW i \in 0 .. n PROVE f[i] = IF i = 0 THEN 0 ELSE f[i - 1] + add(i)
    <3>1. CASE i = 0
      BY <1>3, <3>1
    <3>2. CASE i # 0
      <4>1. i \in 1 .. n /\ i - 1 \in 0 .. n
        BY <1>0, <3>2
      <4> HIDE DEF n
      <4>2. f[i - 1] \in Nat
        BY <1>3, <4>1
      <4> QED BY <1>2, <1>3, <3>2, <4>1, <4>2
    <3> QED BY <3>1, <3>2
  <2> QED BY <1>3, <2>1
<1> DEFINE g == CHOOSE h : R(h)
<1>5. R(g)
  BY <1>4
<1>6. FromBits(B) = g[n]
  BY DEF FromBits
<1> HIDE DEF g, add
<1>7. g[0] = 0 /\ \A k \in 1 .. n : g[k] = g[k - 1] + add(k)
  <2>1. 0 \in 0 .. n /\ \A k \in 1 .. n : k \in 0 .. n /\ k # 0
    BY <1>0
  <2> HIDE DEF n
  <2> QED BY <1>5, <2>1
<1> DEFINE h == [k \in 0 .. n |-> <<g[k], k>>]
           S == {p \in Nat \X (0 .. n) : p[1] < Pow2[p[2]]}
<1>8. \A k \in 0 .. n : h[k] \in S
  <2>1. h[0] \in S
    <3>1. h[0] = <<0, 0>> /\ Pow2[0] = 1
      BY <1>0, <1>7, Pow2Step
    <3> QED BY <1>0, <3>1
  <2>2. ASSUME NEW k \in 1 .. n, h[k - 1] \in S PROVE h[k] \in S
    <3>1. k \in 0 .. n /\ k - 1 \in 0 .. n
      BY <1>0
    <3>2. g[k - 1] \in Nat /\ g[k - 1] < Pow2[k - 1]
      BY <2>2, <3>1
    <3>3. g[k] \in Nat /\ g[k] < Pow2[k]
      BY <1>1, <1>7, <3>2
    <3> QED BY <3>1, <3>3
  <2> HIDE DEF h, S, n
  <2> QED BY <1>0, <2>1, <2>2, IterationType
<1>9. g[n] \in Nat /\ g[n] < Pow2[n]
  <2>1. n \in 0 .. n
    BY <1>0
  <2> HIDE DEF n
  <2>2. h[n] = <<g[n], n>>
    BY <2>1
  <2> QED BY <1>8, <2>1, <2>2
<1> QED BY <1>0, <1>6, <1>9, Widths DEF Byte, Radix

\* The two elements of a bitwise opcode combined byte by byte.
LEMMA CombinedIn ==
  ASSUME NEW L \in Bounds, NEW b \in Elements(L), NEW f, \A k \in 1 .. Len(b) : f[k] \in Byte
  PROVE  SubSeq([k \in 1 .. Len(b) |-> f[k]], 1, Len(b)) \in Elements(L)
<1>1. Len(b) \in 0 .. L
  BY ElementLen DEF Elements, Bounds
<1> QED BY <1>1, BytesOf

\* Bitwise opcodes keep lengths.
LEMMA BitwiseKeeps ==
  ASSUME NEW L \in Bounds, NEW s \in Seq(Elements(L)), NEW op \in BitwiseOps, NEW data, NEW i
  PROVE  OpcodeEffect(i, op, data, s) \subseteq Seq(Elements(L))
<1> DEFINE T == Elements(L)
           b == s[Len(s) - 1]
           c == s[Len(s)]
           Pops(n, R) == IF Len(s) < n THEN {} ELSE {Below(s, n) \o r : r \in R}
           Same(v) == IF Len(b) # Len(c) THEN {} ELSE {<<v>>}
           v1 == SubSeq([k \in 1 .. Len(c) |-> Radix - 1 - c[k]], 1, Len(c))
           v2 == SubSeq([k \in 1 .. Len(b) |-> FromBits(BitsOf(b[k]) \cap BitsOf(c[k]))], 1, Len(b))
           v3 == SubSeq([k \in 1 .. Len(b) |-> FromBits(BitsOf(b[k]) \cup BitsOf(c[k]))], 1, Len(b))
           v4 == SubSeq([k \in 1 .. Len(b) |-> FromBits((BitsOf(b[k]) \cup BitsOf(c[k])) \ (BitsOf(b[k]) \cap BitsOf(c[k])))], 1, Len(b))
<1>1. OpcodeEffect(i, op, data, s) = BitwiseOpcode(op, s)
  BY BitwiseDispatch
<1>2. /\ BitwiseOpcode("OP_INVERT", s) = Pops(1, {<<v1>>})
      /\ BitwiseOpcode("OP_AND", s) = Pops(2, Same(v2))
      /\ BitwiseOpcode("OP_OR", s) = Pops(2, Same(v3))
      /\ BitwiseOpcode("OP_XOR", s) = Pops(2, Same(v4))
  <2>1. BitwiseOpcode("OP_INVERT", s) = Pops(1, {<<v1>>})
    BY DEF BitwiseOpcode, Bytewise, Take1, Take2, Bytes
  <2>2. BitwiseOpcode("OP_AND", s) = Pops(2, Same(v2))
    BY DEF BitwiseOpcode, Bytewise, Take1, Take2, Bytes
  <2>3. BitwiseOpcode("OP_OR", s) = Pops(2, Same(v3))
    BY DEF BitwiseOpcode, Bytewise, Take1, Take2, Bytes
  <2>4. BitwiseOpcode("OP_XOR", s) = Pops(2, Same(v4))
    BY DEF BitwiseOpcode, Bytewise, Take1, Take2, Bytes
  <2> HIDE DEF Pops, Same, v1, v2, v3, v4
  <2> QED BY <2>1, <2>2, <2>3, <2>4
<1>3. /\ Len(s) >= 1 => c \in T
      /\ Len(s) >= 2 => c \in T /\ b \in T
  BY OperandsIn
<1>4. ASSUME NEW n \in Nat, NEW R, Len(s) >= n => R \subseteq Seq(T) PROVE Pops(n, R) \subseteq Seq(T)
  <2> HIDE DEF T
  <2> QED BY <1>4, Taken DEF T
<1> HIDE DEF Pops, b, c
<1>5. Len(s) >= 1 => v1 \in T
  <2> SUFFICES ASSUME c \in T PROVE v1 \in T
    BY <1>3
  <2> DEFINE f == [k \in 1 .. Len(c) |-> Radix - 1 - c[k]]
  <2>1. c \in Element
    BY DEF Elements
  <2>2. ASSUME NEW k \in 1 .. Len(c) PROVE f[k] \in Byte
    <3>1. c[k] \in Byte /\ Radix \in Nat
      BY <2>1, ByteOf, Widths DEF Byte
    <3> QED BY <3>1 DEF Byte
  <2>3. [k \in 1 .. Len(c) |-> f[k]] = f
    OBVIOUS
  <2> HIDE DEF f
  <2>4. SubSeq(f, 1, Len(c)) \in T
    BY <2>2, <2>3, CombinedIn
  <2> QED BY <2>4 DEF f
<1>6. Len(s) >= 2 => v2 \in T /\ v3 \in T /\ v4 \in T
  <2> SUFFICES ASSUME b \in T PROVE v2 \in T /\ v3 \in T /\ v4 \in T
    BY <1>3
  <2>2. v2 \in T
    <3> DEFINE f == [k \in 1 .. Len(b) |-> FromBits(BitsOf(b[k]) \cap BitsOf(c[k]))]
    <3>1. \A k \in 1 .. Len(b) : f[k] \in Byte
      BY FromBitsIn
    <3>2. [k \in 1 .. Len(b) |-> f[k]] = f
      OBVIOUS
    <3> HIDE DEF f
    <3>3. SubSeq(f, 1, Len(b)) \in T
      BY <3>1, <3>2, CombinedIn
    <3> QED BY <3>3 DEF f
  <2>3. v3 \in T
    <3> DEFINE f == [k \in 1 .. Len(b) |-> FromBits(BitsOf(b[k]) \cup BitsOf(c[k]))]
    <3>1. \A k \in 1 .. Len(b) : f[k] \in Byte
      BY FromBitsIn
    <3>2. [k \in 1 .. Len(b) |-> f[k]] = f
      OBVIOUS
    <3> HIDE DEF f
    <3>3. SubSeq(f, 1, Len(b)) \in T
      BY <3>1, <3>2, CombinedIn
    <3> QED BY <3>3 DEF f
  <2>4. v4 \in T
    <3> DEFINE f == [k \in 1 .. Len(b) |-> FromBits((BitsOf(b[k]) \cup BitsOf(c[k])) \ (BitsOf(b[k]) \cap BitsOf(c[k])))]
    <3>1. \A k \in 1 .. Len(b) : f[k] \in Byte
      BY FromBitsIn
    <3>2. [k \in 1 .. Len(b) |-> f[k]] = f
      OBVIOUS
    <3> HIDE DEF f
    <3>3. SubSeq(f, 1, Len(b)) \in T
      BY <3>1, <3>2, CombinedIn
    <3> QED BY <3>3 DEF f
  <2> QED BY <2>2, <2>3, <2>4
<1> HIDE DEF T, v1, v2, v3, v4
<1>7. /\ Len(s) >= 1 => {<<v1>>} \subseteq Seq(T)
      /\ Len(s) >= 2 => Same(v2) \subseteq Seq(T) /\ Same(v3) \subseteq Seq(T) /\ Same(v4) \subseteq Seq(T)
  <2>1. ASSUME NEW v \in T PROVE {<<v>>} \subseteq Seq(T) /\ Same(v) \subseteq Seq(T)
    <3>1. <<v>> \in Seq(T)
      OBVIOUS
    <3>2. Same(v) \subseteq {<<v>>}
      OBVIOUS
    <3> QED BY <3>1, <3>2
  <2> HIDE DEF Same
  <2> QED BY <1>5, <1>6, <2>1
<1>8. BitwiseOpcode("OP_EQUAL", s) \subseteq Seq(T)
  BY EqualKeeps DEF T
<1> HIDE DEF Same
<1>9. /\ BitwiseOpcode("OP_INVERT", s) \subseteq Seq(T) /\ BitwiseOpcode("OP_AND", s) \subseteq Seq(T)
      /\ BitwiseOpcode("OP_OR", s) \subseteq Seq(T) /\ BitwiseOpcode("OP_XOR", s) \subseteq Seq(T)
  <2>1. Pops(1, {<<v1>>}) \subseteq Seq(T)
    BY <1>4, <1>7
  <2>2. Pops(2, Same(v2)) \subseteq Seq(T) /\ Pops(2, Same(v3)) \subseteq Seq(T) /\ Pops(2, Same(v4)) \subseteq Seq(T)
    BY <1>4, <1>7
  <2> QED BY <1>2, <2>1, <2>2
<1>10. BitwiseOpcode(op, s) \subseteq Seq(T)
  BY <1>8, <1>9 DEF BitwiseOps
<1> QED BY <1>1, <1>10 DEF T

-----------------------------------------------------------------------------
(***************************************************************************)
(* Hash, signature and curve opcodes.                                      *)
(***************************************************************************)

\* What the cryptographic libraries return: hashes, tags and hash states are
\* elements, points have integer coordinates, and hashing never fails.
Hashes == {"sha256", "sha1", "ripemd160", "keccak256", "sha3_256"}
CryptoTyped ==
    /\ \A f \in Hashes \cup {"finish"}, x \in Element : Crypto(f, <<x>>) \subseteq Short
    /\ \A f \in {"tagged", "absorb"}, x \in Element, y \in Element : Crypto(f, <<x, y>>) \subseteq Short
    /\ Crypto("init", <<>>) \subseteq Short
    /\ \A x \in Element : Crypto("sha256", <<x>>) # {}
    /\ \A x \in Element, y \in Element : Crypto("tagged", <<x, y>>) # {}
    /\ \A i \in 1 .. NumInputs, n \in Int : Crypto("sighash", <<i, n>>) \subseteq Short
    /\ \A c \in DOMAIN Curve, v \in [1 .. 4 -> Int] :
          \A P \in Crypto("ecadd", <<c, v>>) : P[1] \in Int /\ P[2] \in Int
    /\ \A c \in DOMAIN Curve, v \in [1 .. 3 -> Int] :
          \A P \in Crypto("ecmul", <<c, v>>) : P[1] \in Int /\ P[2] \in Int
    /\ \A v \in Seq(Int) : Crypto("pairing", v) \subseteq BOOLEAN

\* Short elements are elements.
LEMMA ShortAre == Short \subseteq Element
BY DEF Short

\* A path of hashes ends in a hash.
LEMMA MerkleRootIn ==
  ASSUME CryptoTyped, NEW tag \in Element, NEW leaf \in Short, NEW proof \in Element
  PROVE  MerkleRoot(tag, leaf, proof) \in Short
<1> DEFINE n == Len(proof) \div HashLen
           sibling(k) == SubSeq(proof, (k - 1) * HashLen + 1, k * HashLen)
           pair(k, x) == IF Lesser(x, sibling(k)) THEN x \o sibling(k) ELSE sibling(k) \o x
           step(k, x) == CHOOSE h \in Crypto("tagged", <<tag, pair(k, x)>>) : TRUE
           G == [p \in (1 .. n) \X Short |-> step(p[1], p[2])]
<1>0. Len(proof) \in Nat /\ HashLen \in Nat \ {0} /\ proof \in Seq(Byte)
  BY ElementLen, SizesAre DEF Element
<1>1. n \in Nat /\ n * HashLen <= Len(proof)
  BY <1>0
<1>2. ASSUME NEW k \in 1 .. n PROVE sibling(k) \in Seq(Byte)
  <2>1. k \in Nat /\ k >= 1 /\ k <= n /\ k - 1 \in Nat
    BY <1>1
  <2> HIDE DEF n
  <2>2. k * HashLen <= n * HashLen /\ k * HashLen \in Nat /\ (k - 1) * HashLen \in Nat /\ n * HashLen \in Nat
    BY <1>0, <1>1, <2>1
  <2>3. k * HashLen <= Len(proof) /\ (k - 1) * HashLen + 1 >= 1
    BY <1>0, <1>1, <2>2
  <2> QED BY <1>0, <2>2, <2>3
<1> HIDE DEF sibling
<1>3. ASSUME NEW k \in 1 .. n, NEW x \in Short PROVE step(k, x) \in Short
  <2>1. x \in Seq(Byte)
    BY ShortAre DEF Element
  <2>2. x \o sibling(k) \in Seq(Byte) /\ sibling(k) \o x \in Seq(Byte)
    BY <1>2, <2>1
  <2>3. pair(k, x) \in Element
    BY <2>2 DEF Element
  <2> HIDE DEF pair
  <2>4. Crypto("tagged", <<tag, pair(k, x)>>) \subseteq Short /\ Crypto("tagged", <<tag, pair(k, x)>>) # {}
    BY <2>3 DEF CryptoTyped
  <2> QED BY <2>4
<1>4. ASSUME NEW k \in 1 .. n, NEW x \in Short PROVE G[<<k, x>>] = step(k, x)
  <2> HIDE DEF step
  <2> QED OBVIOUS
<1> HIDE DEF step, G
<1>5. PICK f : Iterates(f, G, n, Short, leaf)
  <2>1. Steps(G, n, Short)
    BY <1>3, <1>4 DEF Steps
  <2> HIDE DEF n
  <2> QED BY <1>1, <2>1, Iteration
<1> DEFINE R(h) == h = [k \in 0 .. n |-> IF k = 0 THEN leaf ELSE step(k, h[k - 1])]
<1>6. R(f)
  <2> USE DEF Iterates
  <2>1. ASSUME NEW i \in 0 .. n PROVE f[i] = IF i = 0 THEN leaf ELSE step(i, f[i - 1])
    <3>1. CASE i = 0
      BY <1>5, <3>1
    <3>2. CASE i # 0
      <4>1. i \in 1 .. n /\ i - 1 \in 0 .. n
        BY <1>1, <3>2
      <4> HIDE DEF n
      <4>2. f[i - 1] \in Short /\ f[i] = G[<<i, f[i - 1]>>]
        BY <1>5, <4>1
      <4> QED BY <1>4, <3>2, <4>1, <4>2
    <3> QED BY <3>1, <3>2
  <2> HIDE DEF n
  <2> QED BY <1>5, <2>1
<1> DEFINE g == CHOOSE h : R(h)
<1>7. R(g)
  BY <1>6
<1>8. MerkleRoot(tag, leaf, proof) = g[n]
  BY DEF MerkleRoot, step, sibling
<1> HIDE DEF g
<1>9. g[0] = leaf /\ \A k \in 1 .. n : g[k] = step(k, g[k - 1])
  <2>1. 0 \in 0 .. n /\ \A k \in 1 .. n : k \in 0 .. n /\ k # 0
    BY <1>1
  <2> HIDE DEF n
  <2> QED BY <1>7, <2>1
<1>10. \A k \in 0 .. n : g[k] \in Short
  <2> HIDE DEF n
  <2> QED BY <1>1, <1>3, <1>9, IterationType
<1>11. n \in 0 .. n
  BY <1>1
<1> HIDE DEF n
<1> QED BY <1>8, <1>10, <1>11

LEMMA MerkleBranchIn ==
  ASSUME CryptoTyped, NEW a \in Element, NEW b \in Element, NEW c \in Element, NEW d \in Element
  PROVE  MerkleBranch(a, b, c, d) \subseteq Seq(Short)
<1> DEFINE leaf == IF a # <<>> THEN Crypto("tagged", <<a, d>>) ELSE IF Len(d) = HashLen THEN {d} ELSE {}
           W == {MerkleRoot(b, h, c) : h \in leaf}
<1>1. leaf \subseteq Short
  <2>1. Crypto("tagged", <<a, d>>) \subseteq Short
    BY DEF CryptoTyped
  <2>2. Len(d) = HashLen => d \in Short
    BY SizesAre DEF Short
  <2> QED BY <2>1, <2>2
<1>2. MerkleBranch(a, b, c, d) \subseteq {<<x>> : x \in W}
  BY DEF MerkleBranch
<1> HIDE DEF leaf
<1>3. W \subseteq Short
  BY <1>1, MerkleRootIn
<1> HIDE DEF W
<1>4. {<<x>> : x \in W} \subseteq Seq(Short)
  BY <1>3, Singles
<1> QED BY <1>2, <1>4

\* Hashing makes short elements.
LEMMA HashOfIn ==
  ASSUME CryptoTyped, NEW f \in Hashes, NEW x \in Element
  PROVE  HashOf(f, x) \subseteq Seq(Short)
<1> DEFINE W == Crypto(f, <<x>>)
<1>1. W \subseteq Short
  BY DEF CryptoTyped
<1> HIDE DEF W
<1>2. {<<h>> : h \in W} \subseteq Seq(Short)
  BY <1>1, Singles
<1> QED BY <1>2 DEF HashOf, W

LEMMA OuterHashIs ==
  /\ DOMAIN OuterHash = {"OP_RIPEMD160", "OP_SHA1", "OP_SHA256", "OP_HASH160", "OP_HASH256"}
  /\ \A op \in DOMAIN OuterHash : OuterHash[op] \in Hashes
BY DEF OuterHash, Hashes

\* An opcode that pushes short elements.
Popped(s, n, R) == IF Len(s) < n THEN {} ELSE {Below(s, n) \o r : r \in R}

LEMMA TakenShort ==
  ASSUME NEW L \in Bounds, NEW s \in Seq(Elements(L)), NEW n \in Nat, NEW R, Len(s) >= n => R \subseteq Seq(Short)
  PROVE  Popped(s, n, R) \subseteq Seq(Elements(L))
<1> DEFINE T == Elements(L)
<1>1. Len(s) >= n => R \subseteq Seq(T)
  BY SeqIn
<1> HIDE DEF T
<1> QED BY <1>1, Taken DEF T, Popped

LEMMA OperandElements ==
  ASSUME NEW L \in Bounds, NEW s \in Seq(Elements(L))
  PROVE  /\ Len(s) >= 1 => s[Len(s)] \in Element
         /\ Len(s) >= 2 => s[Len(s)] \in Element /\ s[Len(s) - 1] \in Element
         /\ Len(s) >= 3 => s[Len(s)] \in Element /\ s[Len(s) - 1] \in Element /\ s[Len(s) - 2] \in Element
         /\ Len(s) >= 4 => s[Len(s)] \in Element /\ s[Len(s) - 1] \in Element /\ s[Len(s) - 2] \in Element /\ s[Len(s) - 3] \in Element
<1>1. s \in Seq(Element)
  BY SeqIn
<1> QED BY <1>1, OperandsIn

\* Hash opcodes.
LEMMA HashKeeps ==
  ASSUME CryptoTyped, NEW L \in Bounds, NEW s \in Seq(Elements(L)), NEW op \in HashOps, NEW data, NEW i
  PROVE  OpcodeEffect(i, op, data, s) \subseteq Seq(Elements(L))
<1> DEFINE a == s[Len(s) - 3]
           b == s[Len(s) - 2]
           c == s[Len(s) - 1]
           d == s[Len(s)]
           R1 == UNION {HashOf(OuterHash[op], p) : p \in Preimage(op, d)}
           R2 == UNION {HashOf(DigestType[n], c) : n \in MakeScriptNum(d) \cap 1 .. 5}
           R3 == MerkleBranch(a, b, c, d)
<1>1. OpcodeEffect(i, op, data, s) = HashOpcode(op, s)
  BY HashDispatch
<1>2. HashOps = DOMAIN OuterHash \cup {"OP_DIGEST", "OP_MERKLEBRANCHVERIFY"}
  BY OuterHashIs DEF HashOps
<1>3. /\ Len(s) >= 1 => d \in Element
      /\ Len(s) >= 2 => d \in Element /\ c \in Element
      /\ Len(s) >= 4 => d \in Element /\ c \in Element /\ b \in Element /\ a \in Element
  BY OperandElements
<1>4. CASE op \in DOMAIN OuterHash
  <2>1. HashOpcode(op, s) = Popped(s, 1, R1)
    <3>1. op # "OP_DIGEST" /\ op # "OP_MERKLEBRANCHVERIFY"
      BY <1>4, OuterHashIs
    <3> QED BY <1>4, <3>1 DEF HashOpcode, Popped, Take1, Take2, Take4
  <2> HIDE DEF a, b, c, d
  <2>2. Len(s) >= 1 => R1 \subseteq Seq(Short)
    <3> SUFFICES ASSUME d \in Element, NEW p \in Preimage(op, d) PROVE HashOf(OuterHash[op], p) \subseteq Seq(Short)
      BY <1>3
    <3>1. Crypto("sha256", <<d>>) \subseteq Short
      BY DEF CryptoTyped, Hashes
    <3>2. p \in Element
      BY <3>1, ShortAre DEF Preimage
    <3> QED BY <1>4, <3>2, HashOfIn, OuterHashIs
  <2> HIDE DEF R1
  <2> QED BY <1>1, <2>1, <2>2, TakenShort
<1>5. CASE op = "OP_DIGEST"
  <2>0. op \notin DOMAIN OuterHash
    BY <1>5, OuterHashIs
  <2>1. HashOpcode(op, s) = Popped(s, 2, R2)
    BY <1>5, <2>0 DEF HashOpcode, Popped, Take1, Take2, Take4
  <2> HIDE DEF a, b, c, d
  <2>2. Len(s) >= 2 => R2 \subseteq Seq(Short)
    <3> SUFFICES ASSUME c \in Element, NEW n \in 1 .. 5 PROVE HashOf(DigestType[n], c) \subseteq Seq(Short)
      BY <1>3
    <3>1. DigestType[n] \in Hashes
      BY DEF DigestType, Hashes
    <3> QED BY <3>1, HashOfIn
  <2> HIDE DEF R2
  <2> QED BY <1>1, <2>1, <2>2, TakenShort
<1>6. CASE op = "OP_MERKLEBRANCHVERIFY"
  <2>0. op \notin DOMAIN OuterHash
    BY <1>6, OuterHashIs
  <2>1. HashOpcode(op, s) = Popped(s, 4, R3)
    BY <1>6, <2>0 DEF HashOpcode, Popped, Take1, Take2, Take4
  <2> HIDE DEF a, b, c, d
  <2>2. Len(s) >= 4 => R3 \subseteq Seq(Short)
    BY <1>3, MerkleBranchIn
  <2> HIDE DEF R3
  <2> QED BY <1>1, <2>1, <2>2, TakenShort
<1> QED BY <1>2, <1>4, <1>5, <1>6

\* The streaming hash.
LEMMA StreamKeeps ==
  ASSUME CryptoTyped, NEW L \in Bounds, NEW s \in Seq(Elements(L)), NEW op \in StreamOps, NEW data, NEW i
  PROVE  OpcodeEffect(i, op, data, s) \subseteq Seq(Elements(L))
<1> DEFINE c == s[Len(s) - 1]
           d == s[Len(s)]
           W1 == UNION {Crypto("absorb", <<j, d>>) : j \in Crypto("init", <<>>)}
           W2 == Crypto("absorb", <<c, d>>)
           W3 == UNION {Crypto("finish", <<t>>) : t \in Crypto("absorb", <<c, d>>)}
<1>1. OpcodeEffect(i, op, data, s) = StreamOpcode(op, s)
  BY StreamDispatch
<1>2. /\ StreamOpcode("OP_SHA256INITIALIZE", s) = Popped(s, 1, {<<w>> : w \in W1})
      /\ StreamOpcode("OP_SHA256UPDATE", s) = Popped(s, 2, {<<w>> : w \in W2})
      /\ StreamOpcode("OP_SHA256FINALIZE", s) = Popped(s, 2, {<<w>> : w \in W3})
  <2>1. StreamOpcode("OP_SHA256INITIALIZE", s) = Popped(s, 1, {<<w>> : w \in W1})
    BY DEF StreamOpcode, Popped, Take1, Take2
  <2>2. StreamOpcode("OP_SHA256UPDATE", s) = Popped(s, 2, {<<w>> : w \in W2})
    BY DEF StreamOpcode, Popped, Take1, Take2
  <2>3. StreamOpcode("OP_SHA256FINALIZE", s) = Popped(s, 2, {<<w>> : w \in W3})
    BY DEF StreamOpcode, Popped, Take1, Take2
  <2> HIDE DEF W1, W2, W3
  <2> QED BY <2>1, <2>2, <2>3
<1>3. /\ Len(s) >= 1 => d \in Element
      /\ Len(s) >= 2 => d \in Element /\ c \in Element
  BY OperandElements
<1> HIDE DEF c, d
<1>4. \A x \in Element, y \in Element : Crypto("absorb", <<x, y>>) \subseteq Short
  BY DEF CryptoTyped
<1>5. Len(s) >= 1 => W1 \subseteq Short
  <2>1. Crypto("init", <<>>) \subseteq Element
    BY ShortAre DEF CryptoTyped
  <2> QED BY <1>3, <1>4, <2>1
<1>6. Len(s) >= 2 => W2 \subseteq Short
  BY <1>3, <1>4
<1>7. Len(s) >= 2 => W3 \subseteq Short
  <2>1. \A t \in Element : Crypto("finish", <<t>>) \subseteq Short
    BY DEF CryptoTyped
  <2> QED BY <1>3, <1>4, <2>1, ShortAre
<1> HIDE DEF W1, W2, W3
<1>8. ASSUME NEW n \in {1, 2}, NEW W, Len(s) >= n => W \subseteq Short
      PROVE  Popped(s, n, {<<w>> : w \in W}) \subseteq Seq(Elements(L))
  <2>1. Len(s) >= n => {<<w>> : w \in W} \subseteq Seq(Short)
    BY <1>8, Singles
  <2> QED BY <2>1, TakenShort
<1>9. StreamOpcode("OP_SHA256INITIALIZE", s) \subseteq Seq(Elements(L))
  BY <1>2, <1>5, <1>8
<1>10. StreamOpcode("OP_SHA256UPDATE", s) \subseteq Seq(Elements(L)) /\ StreamOpcode("OP_SHA256FINALIZE", s) \subseteq Seq(Elements(L))
  BY <1>2, <1>6, <1>7, <1>8
<1> QED BY <1>1, <1>9, <1>10 DEF StreamOps

LEMMA BoolsIn ==
  /\ <<>> \in Short /\ Encode(0) \in Short /\ Encode(1) \in Short /\ Encode(2) \in Short
  /\ \A b \in BOOLEAN : FromBool(b) \in Short
<1>1. <<>> \in Short
  <2>1. <<>> \in Element /\ Len(<<>>) = 0
    BY DEF Element
  <2> QED BY <2>1, SizesAre DEF Short
<1>2. Encode(0) = <<>>
  BY DEF Encode
<1>3. 1 \in 1 .. SmallIntMax /\ 2 \in 1 .. SmallIntMax
  BY WidthAssumption
<1>4. \A x \in Byte : <<x>> \in Short
  <2> SUFFICES ASSUME NEW x \in Byte PROVE <<x>> \in Short
    OBVIOUS
  <2>1. <<x>> \in Element /\ Len(<<x>>) = 1
    BY OneByte
  <2> QED BY <2>1, SizesAre DEF Short
<1>5. Encode(1) = <<1>> /\ Encode(2) = <<2>> /\ 1 \in Byte /\ 2 \in Byte
  BY <1>3, SmallEncode
<1>6. Encode(1) \in Short /\ Encode(2) \in Short /\ <<1>> \in Short
  BY <1>4, <1>5
<1> QED BY <1>1, <1>2, <1>6 DEF FromBool

LEMMA SignatureIn ==
  ASSUME NEW i, NEW pk, NEW sig
  PROVE  Signature(i, pk, sig) \subseteq BOOLEAN
BY DEF Signature

LEMMA CheckSigKeeps ==
  ASSUME NEW L \in Bounds, NEW s \in Seq(Elements(L)), NEW i
  PROVE  CheckSig(i, s) \subseteq Seq(Elements(L))
<1> DEFINE c == s[Len(s) - 1]
           d == s[Len(s)]
           W == {FromBool(b) : b \in Signature(i, d, c)}
<1>1. CheckSig(i, s) = Popped(s, 2, {<<w>> : w \in W})
  BY DEF CheckSig, Popped, Take2
<1>2. W \subseteq Short
  <2> HIDE DEF c, d
  <2> QED BY SignatureIn, BoolsIn
<1> HIDE DEF W
<1>3. {<<w>> : w \in W} \subseteq Seq(Short)
  BY <1>2, Singles
<1> QED BY <1>1, <1>3, TakenShort

\* Signature opcodes.
LEMMA SignatureKeeps ==
  ASSUME CryptoTyped, NEW L \in Bounds, NEW s \in Seq(Elements(L)), NEW op \in SignatureOps, NEW data,
         NEW i \in 1 .. NumInputs
  PROVE  OpcodeEffect(i, op, data, s) \subseteq Seq(Elements(L))
<1> DEFINE T == Elements(L)
           b == s[Len(s) - 2]
           c == s[Len(s) - 1]
           d == s[Len(s)]
           W1 == {Encode(n + (IF v THEN 1 ELSE 0)) : n \in MakeScriptNum(c), v \in Signature(i, d, b)}
           R2 == IF b = <<>> THEN {<< <<>> >>} ELSE IF Crypto("verify", <<d, c, b>>) # {} THEN {<<Encode(1)>>} ELSE {}
           W3 == UNION {Crypto("sighash", <<i, n>>) :
                    n \in {t \in MakeScriptNum(d) : /\ t \in Tx.sigHashTypes
                                                    /\ t \in Tx.sigHashSingle => i <= Len(Tx.outs)}}
<1>1. OpcodeEffect(i, op, data, s) = SignatureOpcode(i, op, s)
  BY SignatureDispatch
<1>2. /\ SignatureOpcode(i, "OP_CHECKSIG", s) = CheckSig(i, s)
      /\ SignatureOpcode(i, "OP_CHECKSIGVERIFY", s) = Verify(CheckSig(i, s))
      /\ SignatureOpcode(i, "OP_CHECKSIGADD", s) = Popped(s, 3, {<<w>> : w \in W1})
      /\ SignatureOpcode(i, "OP_CHECKSIGFROMSTACK", s) = Popped(s, 3, R2)
      /\ SignatureOpcode(i, "OP_SIGHASH", s) = Popped(s, 1, {<<w>> : w \in W3})
      /\ SignatureOpcode(i, "OP_CODESEPARATOR", s) = {s}
  <2>1. /\ SignatureOpcode(i, "OP_CHECKSIG", s) = CheckSig(i, s)
        /\ SignatureOpcode(i, "OP_CHECKSIGVERIFY", s) = Verify(CheckSig(i, s))
        /\ SignatureOpcode(i, "OP_CODESEPARATOR", s) = {s}
    BY DEF SignatureOpcode, Take3
  <2>2. SignatureOpcode(i, "OP_CHECKSIGADD", s) = Popped(s, 3, {<<w>> : w \in W1})
    <3> DEFINE X == {<<Encode(n + (IF v THEN 1 ELSE 0))>> : n \in MakeScriptNum(c), v \in Signature(i, d, b)}
    <3>1. SignatureOpcode(i, "OP_CHECKSIGADD", s) = Popped(s, 3, X)
      BY DEF SignatureOpcode, Popped, Take3
    <3>2. X = {<<w>> : w \in W1}
      <4> HIDE DEF b, c, d
      <4> QED OBVIOUS
    <3> HIDE DEF X, W1
    <3> QED BY <3>1, <3>2
  <2>3. SignatureOpcode(i, "OP_CHECKSIGFROMSTACK", s) = Popped(s, 3, R2)
    BY DEF SignatureOpcode, Popped, Take3
  <2>4. SignatureOpcode(i, "OP_SIGHASH", s) = Popped(s, 1, {<<w>> : w \in W3})
    BY DEF SignatureOpcode, SigHashOpcode, Popped, Take1, Take3
  <2> HIDE DEF W1, R2, W3
  <2> QED BY <2>1, <2>2, <2>3, <2>4
<1>3. /\ Len(s) >= 1 => d \in Element
      /\ Len(s) >= 3 => d \in Element /\ c \in Element /\ b \in Element
  BY OperandElements
<1> HIDE DEF b, c, d
<1>4. Len(s) >= 3 => W1 \subseteq Short
  <2> SUFFICES ASSUME c \in Element, NEW n \in MakeScriptNum(c), NEW v \in Signature(i, d, b)
               PROVE  Encode(n + (IF v THEN 1 ELSE 0)) \in Short
    BY <1>3
  <2>1. n \in Int /\ Number(n) /\ Number(n + 1)
    BY ReadScriptNum
  <2>2. Encode(n) \in Short /\ Encode(n + 1) \in Short
    BY <2>1, NumberIn
  <2>3. v \in BOOLEAN /\ n + 0 = n
    BY <2>1, SignatureIn
  <2> QED BY <2>2, <2>3
<1>5. R2 \subseteq Seq(Short)
  <2>1. << <<>> >> \in Seq(Short) /\ <<Encode(1)>> \in Seq(Short)
    BY BoolsIn
  <2> QED BY <2>1
<1>6. Len(s) >= 1 => W3 \subseteq Short
  <2> SUFFICES ASSUME d \in Element, NEW n \in MakeScriptNum(d) PROVE Crypto("sighash", <<i, n>>) \subseteq Short
    BY <1>3
  <2>1. n \in Int
    BY ReadScriptNum
  <2> QED BY <2>1 DEF CryptoTyped
<1> HIDE DEF W1, R2, W3
<1>7. ASSUME NEW n \in {1, 3}, NEW W, Len(s) >= n => W \subseteq Short
      PROVE  Popped(s, n, {<<w>> : w \in W}) \subseteq Seq(Elements(L))
  <2>1. Len(s) >= n => {<<w>> : w \in W} \subseteq Seq(Short)
    BY <1>7, Singles
  <2> QED BY <2>1, TakenShort
<1>8. SignatureOpcode(i, "OP_CHECKSIGADD", s) \subseteq Seq(T) /\ SignatureOpcode(i, "OP_SIGHASH", s) \subseteq Seq(T)
  BY <1>2, <1>4, <1>6, <1>7
<1>9. SignatureOpcode(i, "OP_CHECKSIGFROMSTACK", s) \subseteq Seq(T)
  BY <1>2, <1>5, TakenShort
<1>10. SignatureOpcode(i, "OP_CHECKSIG", s) \subseteq Seq(T) /\ SignatureOpcode(i, "OP_CHECKSIGVERIFY", s) \subseteq Seq(T)
  <2>1. CheckSig(i, s) \subseteq Seq(T)
    BY CheckSigKeeps
  <2> HIDE DEF T
  <2>2. Verify(CheckSig(i, s)) \subseteq Seq(T)
    BY <2>1, VerifyIn
  <2> QED BY <1>2, <2>1, <2>2
<1>11. SignatureOpcode(i, "OP_CODESEPARATOR", s) \subseteq Seq(T)
  BY <1>2
<1> HIDE DEF T
<1> QED BY <1>1, <1>8, <1>9, <1>10, <1>11 DEF SignatureOps, T

LEMMA InFieldIn ==
  ASSUME NEW e \in Element, NEW m
  PROVE  InField(e, m) \subseteq Int /\ CurveID(e) \subseteq DOMAIN Curve
<1>1. \A n \in BigNumFromBytes(e) : n.val \in Int
  BY ReadNum
<1> QED BY <1>1 DEF InField, CurveID

LEMMA PushPointIn ==
  ASSUME NEW P, P[1] \in Int, P[2] \in Int
  PROVE  PushPoint(P) \subseteq Seq(Short)
<1>1. Big(P[1]).val = P[1] /\ Big(P[2]).val = P[2]
  BY DEF Big
<1>2. BigNumBytes(Big(P[1])) \subseteq Short /\ BigNumBytes(Big(P[2])) \subseteq Short
  BY <1>1, BytesIn
<1>3. \A x \in Short, y \in Short : <<x, y>> \in Seq(Short)
  OBVIOUS
<1>4. ASSUME NEW r \in PushPoint(P) PROVE r \in Seq(Short)
  <2>1. PICK x \in BigNumBytes(Big(P[1])), y \in BigNumBytes(Big(P[2])) : r = <<x, y>>
    BY DEF PushPoint
  <2> QED BY <1>2, <1>3, <2>1
<1> QED BY <1>4

LEMMA BelowIn ==
  ASSUME NEW T, NEW s \in Seq(T), NEW n \in 0 .. Len(s)
  PROVE  Below(s, n) \in Seq(T) /\ Len(Below(s, n)) = Len(s) - n
BY BelowIs

\* The operands of a curve opcode are integers.
LEMMA ChosenOperands ==
  ASSUME NEW s \in Seq(Element), NEW n \in Nat, n <= Len(s), NEW m,
         \A k \in 1 .. n : InField(s[Len(s) - n + k], m[k]) # {}
  PROVE  [k \in 1 .. n |-> CHOOSE v \in InField(s[Len(s) - n + k], m[k]) : TRUE] \in Seq(Int) \cap [1 .. n -> Int]
<1> DEFINE S(k) == InField(s[Len(s) - n + k], m[k])
<1>1. ASSUME NEW k \in 1 .. n PROVE (CHOOSE v \in S(k) : TRUE) \in Int
  <2>1. Len(s) - n + k \in 1 .. Len(s)
    OBVIOUS
  <2>2. s[Len(s) - n + k] \in Element
    BY <2>1
  <2>3. S(k) \subseteq Int /\ S(k) # {}
    BY <2>2, InFieldIn
  <2> HIDE DEF S
  <2> QED BY <2>3
<1> HIDE DEF S
<1>2. [k \in 1 .. n |-> CHOOSE v \in S(k) : TRUE] \in [1 .. n -> Int]
  BY <1>1
<1>3. [1 .. n -> Int] \subseteq Seq(Int)
  OBVIOUS
<1>4. [k \in 1 .. n |-> CHOOSE v \in S(k) : TRUE] \in Seq(Int)
  BY <1>2, <1>3
<1> QED BY <1>2, <1>4 DEF S

\* The points of a curve.
LEMMA PointKeeps ==
  ASSUME CryptoTyped, NEW L \in Bounds, NEW s \in Seq(Elements(L)), NEW op \in {"OP_ECADD", "OP_ECMUL"}
  PROVE  PointOpcode(op, s) \subseteq Seq(Elements(L))
<1> SUFFICES ASSUME NEW t \in PointOpcode(op, s) PROVE t \in Seq(Elements(L))
  OBVIOUS
<1> DEFINE T == Elements(L)
           below == Below(s, 1)
           mul == op = "OP_ECMUL"
           n == IF mul THEN 3 ELSE 4
           f == IF mul THEN "ecmul" ELSE "ecadd"
           modulus(c, k) == IF mul /\ k = 3 THEN Curve[c].n ELSE Curve[c].p
           V(c) == IF Len(below) < n THEN {}
                   ELSE IF \A k \in 1 .. n : InField(below[Len(below) - n + k], modulus(c, k)) # {}
                        THEN {[k \in 1 .. n |-> CHOOSE v \in InField(below[Len(below) - n + k], modulus(c, k)) : TRUE]}
                        ELSE {}
           Points(c, v) == UNION {PushPoint(P) : P \in Crypto(f, <<c, v>>)}
           Out(c) == {Below(below, n) \o r : r \in UNION {Points(c, v) : v \in V(c)}}
<1>1. PointOpcode(op, s) = UNION {UNION {Out(c) : c \in CurveID(e)} : e \in Peek(s, 0)}
  BY DEF PointOpcode, Operands
<1> HIDE DEF Out
<1>2. PICK e \in Peek(s, 0) : t \in UNION {Out(c) : c \in CurveID(e)}
  BY <1>1
<1>3. PICK c \in CurveID(e) : t \in Out(c)
  BY <1>2
<1>4. Len(s) >= 1 /\ e = s[Len(s)] /\ s \in Seq(Element)
  BY SeqIn DEF Peek
<1>5. e \in Element /\ c \in DOMAIN Curve
  BY <1>4, InFieldIn
<1>6. below \in Seq(T) /\ Len(below) \in Nat /\ below \in Seq(Element)
  <2>1. 1 \in 0 .. Len(s)
    BY <1>4
  <2> HIDE DEF T
  <2>2. below \in Seq(T)
    BY <2>1, BelowIn DEF T
  <2> QED BY <2>2, SeqIn DEF T
<1> HIDE DEF below, Points
<1>7. PICK r \in UNION {Points(c, v) : v \in V(c)} : t = Below(below, n) \o r
  BY <1>3 DEF Out
<1> HIDE DEF V
<1>8. PICK v \in V(c) : r \in Points(c, v)
  BY <1>7
<1>9. n \in Nat /\ n <= Len(below) /\ v \in [1 .. n -> Int]
  <2> DEFINE m == [k \in 1 .. n |-> modulus(c, k)]
             w == [k \in 1 .. n |-> CHOOSE x \in InField(below[Len(below) - n + k], m[k]) : TRUE]
  <2>0. n \in Nat
    OBVIOUS
  <2>1. n <= Len(below)
    BY <1>6, <1>8, <2>0 DEF V
  <2>2. \A k \in 1 .. n : m[k] = modulus(c, k)
    BY <2>0
  <2>3. \A k \in 1 .. n : InField(below[Len(below) - n + k], modulus(c, k)) # {}
    BY <1>6, <1>8, <2>0 DEF V
  <2>4. v = [k \in 1 .. n |-> CHOOSE x \in InField(below[Len(below) - n + k], modulus(c, k)) : TRUE]
    BY <1>6, <1>8, <2>0 DEF V
  <2> HIDE DEF m, n, modulus
  <2>5. v = w
    BY <2>2, <2>4
  <2>6. \A k \in 1 .. n : InField(below[Len(below) - n + k], m[k]) # {}
    BY <2>2, <2>3
  <2>7. w \in [1 .. n -> Int]
    BY <1>6, <2>0, <2>1, <2>6, ChosenOperands
  <2> QED BY <2>0, <2>1, <2>5, <2>7
<1>10. (f = "ecadd" /\ n = 4) \/ (f = "ecmul" /\ n = 3)
  OBVIOUS
<1> HIDE DEF n, f
<1>11. r \in Seq(Short)
  <2>1. PICK P \in Crypto(f, <<c, v>>) : r \in PushPoint(P)
    BY <1>8 DEF Points
  <2>2. P[1] \in Int /\ P[2] \in Int
    BY <1>5, <1>9, <1>10, <2>1 DEF CryptoTyped
  <2> QED BY <2>1, <2>2, PushPointIn
<1>12. r \in Seq(T)
  BY <1>11, SeqIn
<1> HIDE DEF T
<1>13. Below(below, n) \in Seq(T)
  <2>1. n \in 0 .. Len(below)
    BY <1>6, <1>9
  <2> QED BY <1>6, <2>1, BelowIn
<1>14. t \in Seq(T)
  BY <1>7, <1>12, <1>13
<1> QED BY <1>14 DEF T

LEMMA PairingKeeps ==
  ASSUME CryptoTyped, NEW L \in Bounds, NEW s \in Seq(Elements(L))
  PROVE  PairingOpcode(s) \subseteq Seq(Elements(L))
<1> SUFFICES ASSUME NEW t \in PairingOpcode(s) PROVE t \in Seq(Elements(L))
  OBVIOUS
<1> DEFINE T == Elements(L)
           below == Below(s, 2)
           V(c, n) == IF Len(below) < n THEN {}
                      ELSE IF \A k \in 1 .. n : InField(below[Len(below) - n + k], Curve[c].p) # {}
                           THEN {[k \in 1 .. n |-> CHOOSE v \in InField(below[Len(below) - n + k], Curve[c].p) : TRUE]}
                           ELSE {}
           Out(c, n) == {Append(Below(below, 6 * n), FromBool(b)) : b \in UNION {Crypto("pairing", v) : v \in V(c, 6 * n)}}
           N == {x.val : x \in BigNumFromBytes(s[Len(s) - 1])} \cap 1 .. maxECPairingCount
           C == {x \in CurveID(s[Len(s)]) : Curve[x].pairing}
<1>1. PairingOpcode(s) = IF Len(s) < 2 THEN {} ELSE UNION {UNION {Out(c, n) : n \in N} : c \in C}
  BY DEF PairingOpcode, Operands
<1>2. \A x \in BigNumFromBytes(s[Len(s) - 1]) : Len(s) >= 2 => x.val \in Int
  BY OperandElements, ReadNum
<1> HIDE DEF Out
<1>3. Len(s) >= 2
  <2>1. ~(Len(s) < 2)
    <3> HIDE DEF N, C
    <3> QED BY <1>1
  <2> QED BY <2>1
<1>4. PICK c \in C : t \in UNION {Out(c, n) : n \in N}
  BY <1>1, <1>3
<1>5. PICK n \in N : t \in Out(c, n)
  BY <1>4
<1>6. n \in Nat
  BY <1>2, <1>3
<1> HIDE DEF N, C
<1>7. below \in Seq(T) /\ Len(below) \in Nat /\ below \in Seq(Element)
  <2>1. 2 \in 0 .. Len(s)
    BY <1>3
  <2> HIDE DEF T
  <2>2. below \in Seq(T)
    BY <2>1, BelowIn DEF T
  <2> QED BY <2>2, SeqIn DEF T
<1> HIDE DEF below
<1> DEFINE k6 == 6 * n
<1>8. k6 \in Nat
  BY <1>6
<1> HIDE DEF V
<1>9. PICK b \in UNION {Crypto("pairing", v) : v \in V(c, k6)} : t = Append(Below(below, k6), FromBool(b))
  BY <1>5 DEF Out
<1>10. PICK v \in V(c, k6) : b \in Crypto("pairing", v)
  BY <1>9
<1> HIDE DEF k6
<1>11. k6 <= Len(below) /\ v \in Seq(Int)
  <2> DEFINE m == [k \in 1 .. k6 |-> Curve[c].p]
             w == [k \in 1 .. k6 |-> CHOOSE x \in InField(below[Len(below) - k6 + k], m[k]) : TRUE]
  <2>1. k6 <= Len(below)
    BY <1>7, <1>8, <1>10 DEF V
  <2>2. \A k \in 1 .. k6 : m[k] = Curve[c].p
    BY <1>8
  <2>3. \A k \in 1 .. k6 : InField(below[Len(below) - k6 + k], Curve[c].p) # {}
    BY <1>7, <1>8, <1>10 DEF V
  <2>4. v = [k \in 1 .. k6 |-> CHOOSE x \in InField(below[Len(below) - k6 + k], Curve[c].p) : TRUE]
    BY <1>7, <1>8, <1>10 DEF V
  <2> HIDE DEF m
  <2>5. v = w
    BY <2>2, <2>4
  <2>6. \A k \in 1 .. k6 : InField(below[Len(below) - k6 + k], m[k]) # {}
    BY <2>2, <2>3
  <2>7. w \in Seq(Int)
    BY <1>7, <1>8, <2>1, <2>6, ChosenOperands
  <2> QED BY <2>1, <2>5, <2>7
<1>12. FromBool(b) \in T
  <2>1. b \in BOOLEAN
    BY <1>10, <1>11 DEF CryptoTyped
  <2> QED BY <2>1, BoolsIn, ShortIn
<1> HIDE DEF T
<1>13. Below(below, k6) \in Seq(T)
  <2>1. k6 \in 0 .. Len(below)
    BY <1>7, <1>8, <1>11
  <2> QED BY <1>7, <2>1, BelowIn
<1>14. t \in Seq(T)
  BY <1>9, <1>12, <1>13
<1> QED BY <1>14 DEF T

\* Curve opcodes.
LEMMA CurveKeeps ==
  ASSUME CryptoTyped, NEW L \in Bounds, NEW s \in Seq(Elements(L)), NEW op \in CurveOps, NEW data, NEW i
  PROVE  OpcodeEffect(i, op, data, s) \subseteq Seq(Elements(L))
<1> DEFINE b == s[Len(s) - 2]
           c == s[Len(s) - 1]
           d == s[Len(s)]
           R1 == IF Len(b) = HashLen /\ d \in Crypto("kP", <<b, c>>) THEN {<<>>} ELSE {}
           R2 == IF Len(b) = HashLen /\ Len(c) = HashLen /\ d \in Crypto("P+kG", <<b, c>>) THEN {<<>>} ELSE {}
<1>1. OpcodeEffect(i, op, data, s) = CurveOpcode(op, s)
  BY CurveDispatch
<1>2. CASE op \in {"OP_ECADD", "OP_ECMUL"}
  <2>1. CurveOpcode(op, s) = PointOpcode(op, s)
    BY <1>2 DEF CurveOpcode, Take3
  <2> QED BY <1>1, <1>2, <2>1, PointKeeps
<1>3. CASE op = "OP_ECPAIRING"
  <2>1. CurveOpcode(op, s) = PairingOpcode(s)
    BY <1>3 DEF CurveOpcode, Take3
  <2> QED BY <1>1, <2>1, PairingKeeps
<1>4. R1 \subseteq Seq(Short) /\ R2 \subseteq Seq(Short)
  <2>1. <<>> \in Seq(Short)
    OBVIOUS
  <2> QED BY <2>1
<1>5. CASE op = "OP_ECMULSCALARVERIFY"
  <2>1. CurveOpcode(op, s) = Popped(s, 3, R1)
    BY <1>5 DEF CurveOpcode, Take3, Popped
  <2> HIDE DEF R1, R2
  <2> QED BY <1>1, <1>4, <2>1, TakenShort
<1>6. CASE op = "OP_TWEAKVERIFY"
  <2>1. CurveOpcode(op, s) = Popped(s, 3, R2)
    BY <1>6 DEF CurveOpcode, Take3, Popped
  <2> HIDE DEF R1, R2
  <2> QED BY <1>1, <1>4, <2>1, TakenShort
<1> QED BY <1>2, <1>3, <1>5, <1>6 DEF CurveOps

-----------------------------------------------------------------------------
(***************************************************************************)
(* Opcodes that inspect the transaction and its packets.                   *)
(***************************************************************************)

\* Below a number that fits, all do.
LEMMA SmallerNumber ==
  ASSUME NEW n \in Nat, Number(n), NEW k \in 0 .. n
  PROVE  Number(k) /\ Encode(k) \in Short
<1> DEFINE V == SignBit * Weight(maxBigNumLen - 1)
<1>1. n < V
  BY DEF Number, Representable, Magnitude
<1>2. V \in Nat
  <2>1. maxBigNumLen - 1 \in Nat
    BY SizesAre
  <2> QED BY <2>1, WeightType, Widths
<1>3. k < V
  <2> HIDE DEF V
  <2> QED BY <1>1, <1>2
<1>4. Number(k)
  BY <1>3 DEF Number, Representable, Magnitude
<1> QED BY <1>4, NumberIn

LEMMA Uint64In ==
  ASSUME NEW x \in Int
  PROVE  PushNums({BigNumFromUint64(x)}) \subseteq Seq(Short) /\ PushNums({Small(x)}) \subseteq Seq(Short)
         /\ BigNumBytes(BigNumFromUint64(x)) \subseteq Short /\ BigNumBytes(Big(x)) \subseteq Short
<1>1. BigNumFromUint64(x).val = x /\ Small(x).val = x /\ Big(x).val = x
  BY DEF BigNumFromUint64, Small, Big
<1> QED BY <1>1, PushNumsIn, BytesIn

LEMMA PushSatoshiIn ==
  ASSUME NEW v \in Int
  PROVE  PushSatoshi(v) \subseteq Seq(Short)
BY Uint64In DEF PushSatoshi

LEMMA PushScriptIn ==
  ASSUME CryptoTyped, NEW x, ScriptType(x)
  PROVE  PushScript(x) \subseteq Seq(Short)
<1>1. Encode(-1) \in Short
  <2>1. <<SignBit + 1>> \in Element /\ Len(<<SignBit + 1>>) = 1
    BY MinusOneEncode, OneByte
  <2>2. <<SignBit + 1>> \in Short
    BY <2>1, SizesAre DEF Short
  <2> QED BY <2>2, MinusOneEncode
<1>2. Encode(x.version) \in Short /\ x.version \in Int
  BY NumberIn DEF ScriptType, Number
<1>3. \A y \in Short, z \in Short : <<y, z>> \in Seq(Short)
  OBVIOUS
<1>4. CASE x.version >= 0
  BY <1>2, <1>3, <1>4 DEF PushScript, ScriptType
<1>5. CASE ~(x.version >= 0)
  <2> DEFINE H == Crypto("sha256", <<x.program>>)
  <2>1. H \subseteq Short
    BY DEF CryptoTyped, ScriptType, Hashes
  <2>2. PushScript(x) = {<<h, Encode(-1)>> : h \in H}
    BY <1>5 DEF PushScript
  <2> HIDE DEF H
  <2> QED BY <1>1, <1>3, <2>1, <2>2
<1> QED BY <1>4, <1>5

\* The indices that name an input or an output.
Indices(e, n) == {k \in MakeScriptNum(e) : k >= 0 /\ k < n}

LEMMA IndexIn ==
  ASSUME NEW e \in Element, NEW n \in Int, NEW k \in Indices(e, n)
  PROVE  k + 1 \in 1 .. n /\ k \in 0 .. n - 1
<1>1. k \in Int
  BY ReadScriptNum DEF Indices
<1> QED BY <1>1 DEF Indices

LEMMA CountsAre ==
  /\ Len(Tx.ins) \in Int /\ Len(Tx.outs) \in Int
  /\ Encode(Len(Tx.ins)) \in Short /\ Encode(Len(Tx.outs)) \in Short
BY TxAssumption, NumberIn DEF Number

\* Opcodes that read an input.
LEMMA InputKeeps ==
  ASSUME CryptoTyped, NEW L \in Bounds, NEW s \in Seq(Elements(L)), NEW op \in InputOps, NEW data,
         NEW i \in 1 .. NumInputs
  PROVE  OpcodeEffect(i, op, data, s) \subseteq Seq(Elements(L))
<1> DEFINE T == Elements(L)
           d == s[Len(s)]
           N == Indices(d, Len(Tx.ins))
           R1 == UNION {{<<Tx.ins[k + 1].txid, Encode(Tx.ins[k + 1].vout)>>} : k \in N}
           R2 == UNION {PushSatoshi(Tx.ins[k + 1].value) : k \in N}
           R3 == UNION {PushScript(Tx.ins[k + 1].script) : k \in N}
           R4 == UNION {PushNums({BigNumFromUint64(Tx.ins[k + 1].sequence)}) : k \in N}
<1>1. OpcodeEffect(i, op, data, s) = InputOpcode(i, op, s)
  BY InputDispatch
<1>2. /\ InputOpcode(i, "OP_INSPECTINPUTOUTPOINT", s) = Popped(s, 1, R1)
      /\ InputOpcode(i, "OP_INSPECTINPUTVALUE", s) = Popped(s, 1, R2)
      /\ InputOpcode(i, "OP_INSPECTINPUTSCRIPTPUBKEY", s) = Popped(s, 1, R3)
      /\ InputOpcode(i, "OP_INSPECTINPUTSEQUENCE", s) = Popped(s, 1, R4)
      /\ InputOpcode(i, "OP_PUSHCURRENTINPUTINDEX", s) = {Append(s, Encode(i - 1))}
  <2>1. InputOpcode(i, "OP_INSPECTINPUTOUTPOINT", s) = Popped(s, 1, R1)
    BY DEF InputOpcode, AtIndex, Popped, Take1, Indices
  <2>2. InputOpcode(i, "OP_INSPECTINPUTVALUE", s) = Popped(s, 1, R2)
    BY DEF InputOpcode, AtIndex, Popped, Take1, Indices
  <2>3. InputOpcode(i, "OP_INSPECTINPUTSCRIPTPUBKEY", s) = Popped(s, 1, R3)
    BY DEF InputOpcode, AtIndex, Popped, Take1, Indices
  <2>4. InputOpcode(i, "OP_INSPECTINPUTSEQUENCE", s) = Popped(s, 1, R4)
    BY DEF InputOpcode, AtIndex, Popped, Take1, Indices
  <2>5. InputOpcode(i, "OP_PUSHCURRENTINPUTINDEX", s) = {Append(s, Encode(i - 1))}
    BY DEF InputOpcode, AtIndex, Take1, Push
  <2> HIDE DEF R1, R2, R3, R4
  <2> QED BY <2>1, <2>2, <2>3, <2>4, <2>5
<1>3. Len(s) >= 1 => \A k \in N : k + 1 \in 1 .. Len(Tx.ins)
  BY OperandElements, IndexIn, CountsAre
<1> HIDE DEF N
<1>4. Len(s) >= 1 => R1 \subseteq Seq(Short)
  <2> SUFFICES ASSUME NEW n \in 1 .. Len(Tx.ins) PROVE <<Tx.ins[n].txid, Encode(Tx.ins[n].vout)>> \in Seq(Short)
    BY <1>3
  <2>1. Tx.ins[n].txid \in Short /\ Encode(Tx.ins[n].vout) \in Short
    BY TxAssumption, NumberIn
  <2> DEFINE x == Tx.ins[n].txid
             y == Encode(Tx.ins[n].vout)
  <2> HIDE DEF x, y
  <2>2. <<x, y>> \in Seq(Short)
    BY <2>1 DEF x, y
  <2> QED BY <2>2 DEF x, y
<1>5. Len(s) >= 1 => R2 \subseteq Seq(Short)
  BY <1>3, TxAssumption, PushSatoshiIn
<1>6. Len(s) >= 1 => R3 \subseteq Seq(Short)
  BY <1>3, TxAssumption, PushScriptIn
<1>7. Len(s) >= 1 => R4 \subseteq Seq(Short)
  <2>1. \A n \in 1 .. Len(Tx.ins) : Tx.ins[n].sequence \in Int
    BY TxAssumption
  <2>2. \A n \in 1 .. Len(Tx.ins) : PushNums({BigNumFromUint64(Tx.ins[n].sequence)}) \subseteq Seq(Short)
    BY <2>1, Uint64In
  <2> QED BY <1>3, <2>2
<1>8. {Append(s, Encode(i - 1))} \subseteq Seq(T)
  <2>1. NumInputs \in Nat /\ Number(NumInputs) /\ i - 1 \in 0 .. NumInputs
    BY EngineAssumption, SizeAssumption
  <2>2. Encode(i - 1) \in T
    BY <2>1, SmallerNumber, ShortIn
  <2> HIDE DEF T
  <2> QED BY <2>2 DEF T
<1> HIDE DEF R1, R2, R3, R4
<1>9. ASSUME NEW R, Len(s) >= 1 => R \subseteq Seq(Short) PROVE Popped(s, 1, R) \subseteq Seq(T)
  BY <1>9, TakenShort
<1>10. /\ InputOpcode(i, "OP_INSPECTINPUTOUTPOINT", s) \subseteq Seq(T)
       /\ InputOpcode(i, "OP_INSPECTINPUTVALUE", s) \subseteq Seq(T)
       /\ InputOpcode(i, "OP_INSPECTINPUTSCRIPTPUBKEY", s) \subseteq Seq(T)
       /\ InputOpcode(i, "OP_INSPECTINPUTSEQUENCE", s) \subseteq Seq(T)
       /\ InputOpcode(i, "OP_PUSHCURRENTINPUTINDEX", s) \subseteq Seq(T)
  <2> HIDE DEF T
  <2>1. Popped(s, 1, R1) \subseteq Seq(T) /\ Popped(s, 1, R2) \subseteq Seq(T)
    BY <1>4, <1>5, <1>9
  <2>2. Popped(s, 1, R3) \subseteq Seq(T) /\ Popped(s, 1, R4) \subseteq Seq(T)
    BY <1>6, <1>7, <1>9
  <2> QED BY <1>2, <1>8, <2>1, <2>2
<1> HIDE DEF T
<1> QED BY <1>1, <1>10 DEF InputOps, T

\* Opcodes that read the transaction.
LEMMA TxKeeps ==
  ASSUME CryptoTyped, NEW L \in Bounds, NEW s \in Seq(Elements(L)), NEW op \in TxOps, NEW data, NEW i
  PROVE  OpcodeEffect(i, op, data, s) \subseteq Seq(Elements(L))
<1> DEFINE T == Elements(L)
           d == s[Len(s)]
           N == Indices(d, Len(Tx.outs))
           R1 == UNION {PushSatoshi(Tx.outs[k + 1].value) : k \in N}
           R2 == UNION {PushScript(Tx.outs[k + 1].script) : k \in N}
           Adds(R) == {s \o r : r \in R}
           R3 == PushNums({Small(Tx.version)})
           R4 == PushNums({BigNumFromUint64(Tx.locktime)})
           R5 == PushNums({BigNumFromUint64(Tx.weight)})
<1>1. OpcodeEffect(i, op, data, s) = TxOpcode(op, s)
  BY TxDispatch
<1>2. /\ TxOpcode("OP_INSPECTOUTPUTVALUE", s) = Popped(s, 1, R1)
      /\ TxOpcode("OP_INSPECTOUTPUTSCRIPTPUBKEY", s) = Popped(s, 1, R2)
  <2>1. TxOpcode("OP_INSPECTOUTPUTVALUE", s) = Popped(s, 1, R1)
    BY DEF TxOpcode, AtIndex, Popped, Take1, Indices
  <2>2. TxOpcode("OP_INSPECTOUTPUTSCRIPTPUBKEY", s) = Popped(s, 1, R2)
    BY DEF TxOpcode, AtIndex, Popped, Take1, Indices
  <2> HIDE DEF R1, R2
  <2> QED BY <2>1, <2>2
<1>3. /\ TxOpcode("OP_INSPECTVERSION", s) = Adds(R3)
      /\ TxOpcode("OP_INSPECTLOCKTIME", s) = Adds(R4)
      /\ TxOpcode("OP_TXWEIGHT", s) = Adds(R5)
      /\ TxOpcode("OP_INSPECTNUMINPUTS", s) = {Append(s, Encode(Len(Tx.ins)))}
      /\ TxOpcode("OP_INSPECTNUMOUTPUTS", s) = {Append(s, Encode(Len(Tx.outs)))}
      /\ TxOpcode("OP_TXID", s) = {Append(s, Tx.txid)}
  <2>1. TxOpcode("OP_INSPECTVERSION", s) = Adds(R3)
    BY DEF TxOpcode, AtIndex, Take1, Push
  <2>2. TxOpcode("OP_INSPECTLOCKTIME", s) = Adds(R4)
    BY DEF TxOpcode, AtIndex, Take1, Push
  <2>3. TxOpcode("OP_TXWEIGHT", s) = Adds(R5)
    BY DEF TxOpcode, AtIndex, Take1, Push
  <2>4. /\ TxOpcode("OP_INSPECTNUMINPUTS", s) = {Append(s, Encode(Len(Tx.ins)))}
        /\ TxOpcode("OP_INSPECTNUMOUTPUTS", s) = {Append(s, Encode(Len(Tx.outs)))}
        /\ TxOpcode("OP_TXID", s) = {Append(s, Tx.txid)}
    BY DEF TxOpcode, AtIndex, Take1, Push
  <2> HIDE DEF R3, R4, R5, Adds
  <2> QED BY <2>1, <2>2, <2>3, <2>4
<1>4. Len(s) >= 1 => \A k \in N : k + 1 \in 1 .. Len(Tx.outs)
  BY OperandElements, IndexIn, CountsAre
<1> HIDE DEF N
<1>5. Len(s) >= 1 => R1 \subseteq Seq(Short)
  BY <1>4, TxAssumption, PushSatoshiIn
<1>6. Len(s) >= 1 => R2 \subseteq Seq(Short)
  BY <1>4, TxAssumption, PushScriptIn
<1>7. R3 \subseteq Seq(Short) /\ R4 \subseteq Seq(Short) /\ R5 \subseteq Seq(Short)
  <2>1. Tx.version \in Int /\ Tx.locktime \in Int /\ Tx.weight \in Int
    BY TxAssumption
  <2> QED BY <2>1, Uint64In
<1> HIDE DEF R1, R2, R3, R4, R5
<1>8. ASSUME NEW R, R \subseteq Seq(Short) PROVE Adds(R) \subseteq Seq(T)
  <2>1. R \subseteq Seq(T)
    BY <1>8, SeqIn
  <2> HIDE DEF T
  <2> QED BY <2>1, Extended DEF T
<1>9. ASSUME NEW e \in Short PROVE {Append(s, e)} \subseteq Seq(T)
  <2>1. e \in T
    BY ShortIn
  <2> HIDE DEF T
  <2> QED BY <2>1 DEF T
<1>10. Popped(s, 1, R1) \subseteq Seq(T) /\ Popped(s, 1, R2) \subseteq Seq(T)
  BY <1>5, <1>6, TakenShort
<1> HIDE DEF T, Adds
<1>11. Adds(R3) \subseteq Seq(T) /\ Adds(R4) \subseteq Seq(T) /\ Adds(R5) \subseteq Seq(T)
  BY <1>7, <1>8
<1>12. /\ {Append(s, Encode(Len(Tx.ins)))} \subseteq Seq(T) /\ {Append(s, Encode(Len(Tx.outs)))} \subseteq Seq(T)
       /\ {Append(s, Tx.txid)} \subseteq Seq(T)
  BY <1>9, CountsAre, TxAssumption
<1>13. TxOpcode(op, s) \subseteq Seq(T)
  BY <1>2, <1>3, <1>10, <1>11, <1>12 DEF TxOps
<1> QED BY <1>1, <1>13 DEF T

\* The packets of a transaction: a script sees a packet only if it fits an element.
LEMMA PacketIn ==
  ASSUME NEW packets, PacketsType(packets), NEW t
  PROVE  Packet(packets, t) \subseteq Seq(Short)
<1>1. \A y \in Short, z \in Short : <<y, z>> \in Seq(Short)
  OBVIOUS
<1>2. << <<>>, Encode(0) >> \in Seq(Short)
  BY <1>1, BoolsIn
<1>3. t \in DOMAIN packets /\ Len(packets[t]) <= maxBigNumLen => <<packets[t], Encode(1)>> \in Seq(Short)
  <2> SUFFICES ASSUME t \in DOMAIN packets, Len(packets[t]) <= maxBigNumLen PROVE packets[t] \in Short
    BY <1>1, BoolsIn
  <2>1. packets[t] \in Element /\ Len(packets[t]) \in Nat
    BY ElementLen DEF PacketsType
  <2> QED BY <2>1, SizesAre DEF Short
<1>4. t \in DOMAIN packets => packets[t] \in Element /\ Len(packets[t]) \in Nat /\ maxBigNumLen \in Nat
  BY ElementLen, SizesAre DEF PacketsType
<1>5. CASE t \notin DOMAIN packets
  <2>1. Packet(packets, t) = {<< <<>>, Encode(0) >>}
    BY <1>5 DEF Packet
  <2> QED BY <1>2, <2>1
<1>6. CASE t \in DOMAIN packets
  <2>1. Packet(packets, t) = IF Len(packets[t]) > maxBigNumLen THEN {} ELSE {<<packets[t], Encode(1)>>}
    BY <1>6 DEF Packet
  <2>2. Len(packets[t]) > maxBigNumLen \/ <<packets[t], Encode(1)>> \in Seq(Short)
    BY <1>3, <1>4, <1>6
  <2> QED BY <2>1, <2>2
<1> QED BY <1>5, <1>6

LEMMA ZeroHashIn == ZeroHash \in Short /\ SubSeq([k \in 1 .. HashLen |-> 0], 1, HashLen) \in Short
<1> DEFINE f == [k \in 1 .. HashLen |-> 0]
           z == SubSeq([k \in 1 .. HashLen |-> f[k]], 1, HashLen)
<1>1. \A k \in 1 .. HashLen : f[k] \in Byte
  <2>1. 0 \in Byte
    BY Widths DEF Byte
  <2> QED BY <2>1
<1>2. [k \in 1 .. HashLen |-> f[k]] = [k \in 1 .. HashLen |-> 0]
  OBVIOUS
<1> HIDE DEF f
<1>3. MaxScriptElementSize \in Bounds /\ HashLen \in 0 .. MaxScriptElementSize
  BY SizesAre DEF Bounds
<1>4. z \in Elements(MaxScriptElementSize)
  BY <1>1, <1>3, BytesOf
<1>5. z \in Short
  BY <1>4 DEF Elements, Short
<1>6. SubSeq([k \in 1 .. HashLen |-> 0], 1, HashLen) \in Short
  BY <1>2, <1>5
<1> QED BY <1>6 DEF ZeroHash, Bytes

\* Packet opcodes.
LEMMA PacketKeeps ==
  ASSUME NEW L \in Bounds, NEW s \in Seq(Elements(L)), NEW op \in PacketOps, NEW data, NEW i
  PROVE  OpcodeEffect(i, op, data, s) \subseteq Seq(Elements(L))
<1> DEFINE c == s[Len(s) - 1]
           d == s[Len(s)]
           N == Indices(d, Len(Tx.ins))
           At(k) == {x \in Tx.entries : x.vin = (k + 1) - 1}
           R1 == UNION {Packet(Tx.packets, t) : t \in PacketType(d)}
           R2 == UNION {UNION {Packet(p, t) : p \in Tx.ins[k + 1].arkTx} : t \in PacketType(c), k \in N}
           R3 == UNION {{<<e.scriptHash>> : e \in At(k)} : k \in N}
           R4 == UNION {{<<IF e.witness = <<>> THEN ZeroHash ELSE e.witnessHash>> : e \in At(k)} : k \in N}
<1>1. OpcodeEffect(i, op, data, s) = PacketOpcode(op, s)
  BY PacketDispatch
<1>2. /\ PacketOpcode("OP_INSPECTPACKET", s) = Popped(s, 1, R1)
      /\ PacketOpcode("OP_INSPECTINPUTPACKET", s) = Popped(s, 2, R2)
      /\ PacketOpcode("OP_INSPECTINPUTARKADESCRIPTHASH", s) = Popped(s, 1, R3)
      /\ PacketOpcode("OP_INSPECTINPUTARKADEWITNESSHASH", s) = Popped(s, 1, R4)
  <2>1. PacketOpcode("OP_INSPECTPACKET", s) = Popped(s, 1, R1)
    BY DEF PacketOpcode, AtIndex, Popped, Take1, Take2, Indices
  <2>2. PacketOpcode("OP_INSPECTINPUTPACKET", s) = Popped(s, 2, R2)
    BY DEF PacketOpcode, AtIndex, Popped, Take1, Take2, Indices
  <2>3. PacketOpcode("OP_INSPECTINPUTARKADESCRIPTHASH", s) = Popped(s, 1, R3)
    BY DEF PacketOpcode, AtIndex, Popped, Take1, Take2, Indices
  <2>4. PacketOpcode("OP_INSPECTINPUTARKADEWITNESSHASH", s) = Popped(s, 1, R4)
    BY DEF PacketOpcode, AtIndex, Popped, Take1, Take2, Indices
  <2> HIDE DEF R1, R2, R3, R4
  <2> QED BY <2>1, <2>2, <2>3, <2>4
<1>3. Len(s) >= 1 => \A k \in N : k + 1 \in 1 .. Len(Tx.ins)
  BY OperandElements, IndexIn, CountsAre
<1>4. \A k : At(k) \subseteq Tx.entries
  OBVIOUS
<1> HIDE DEF N, At, c, d
<1>5. R1 \subseteq Seq(Short)
  BY TxAssumption, PacketIn
<1>6. Len(s) >= 2 => R2 \subseteq Seq(Short)
  <2> SUFFICES ASSUME Len(s) >= 2, NEW r \in R2 PROVE r \in Seq(Short)
    OBVIOUS
  <2>0. PICK t \in PacketType(c), k \in N : r \in UNION {Packet(q, t) : q \in Tx.ins[k + 1].arkTx}
    OBVIOUS
  <2>3. PICK p \in Tx.ins[k + 1].arkTx : r \in Packet(p, t)
    BY <2>0
  <2>1. k + 1 \in 1 .. Len(Tx.ins)
    BY <1>3
  <2>2. PacketsType(p)
    BY <2>1, TxAssumption
  <2> QED BY <2>2, <2>3, PacketIn
<1>7. \A x \in Short : <<x>> \in Seq(Short)
  OBVIOUS
<1>8. R3 \subseteq Seq(Short)
  <2>1. ASSUME NEW k \in N, NEW e \in At(k) PROVE <<e.scriptHash>> \in Seq(Short)
    <3>1. e.scriptHash \in Short
      BY <1>4, TxAssumption
    <3> QED BY <1>7, <3>1
  <2>2. ASSUME NEW r \in R3 PROVE r \in Seq(Short)
    <3>1. PICK k \in N : r \in {<<e.scriptHash>> : e \in At(k)}
      OBVIOUS
    <3>2. PICK e \in At(k) : r = <<e.scriptHash>>
      BY <3>1
    <3> QED BY <2>1, <3>2
  <2> QED BY <2>2
<1>9. R4 \subseteq Seq(Short)
  <2>1. ASSUME NEW k \in N, NEW e \in At(k) PROVE <<IF e.witness = <<>> THEN ZeroHash ELSE e.witnessHash>> \in Seq(Short)
    <3>1. (IF e.witness = <<>> THEN ZeroHash ELSE e.witnessHash) \in Short
      BY <1>4, TxAssumption, ZeroHashIn
    <3> QED BY <1>7, <3>1
  <2>2. ASSUME NEW r \in R4 PROVE r \in Seq(Short)
    <3>1. PICK k \in N : r \in {<<IF e.witness = <<>> THEN ZeroHash ELSE e.witnessHash>> : e \in At(k)}
      OBVIOUS
    <3>2. PICK e \in At(k) : r = <<IF e.witness = <<>> THEN ZeroHash ELSE e.witnessHash>>
      BY <3>1
    <3> QED BY <2>1, <3>2
  <2> QED BY <2>2
<1> HIDE DEF R1, R2, R3, R4
<1>10. /\ Popped(s, 1, R1) \subseteq Seq(Elements(L)) /\ Popped(s, 2, R2) \subseteq Seq(Elements(L))
       /\ Popped(s, 1, R3) \subseteq Seq(Elements(L)) /\ Popped(s, 1, R4) \subseteq Seq(Elements(L))
  BY <1>5, <1>6, <1>8, <1>9, TakenShort
<1> QED BY <1>1, <1>2, <1>10 DEF PacketOps

-----------------------------------------------------------------------------
\* What the asset opcodes push.
LEMMA GroupsAre == Len(Groups) \in Nat /\ Encode(Len(Groups)) \in Short
BY AssetAssumption, NumberIn DEF Number

LEMMA ResolveIn ==
  ASSUME NEW k \in Nat, k < Len(Groups), NEW id \in ResolveAssetID(k)
  PROVE  AssetIDType(id)
<1>1. k + 1 \in 1 .. Len(Groups)
  BY GroupsAre
<1>2. CASE Groups[k + 1].id # {}
  <2>1. id \in Groups[k + 1].id
    BY <1>2 DEF ResolveAssetID
  <2> QED BY <1>1, <2>1, AssetAssumption
<1>3. CASE Groups[k + 1].id = {}
  <2>1. ~(k > maxAssetGroupIndex) /\ id = [txid |-> Tx.txid, index |-> k]
    BY <1>3 DEF ResolveAssetID
  <2>2. maxAssetGroupIndex \in Int /\ Number(maxAssetGroupIndex)
    BY SizeAssumption DEF Number
  <2>3. maxAssetGroupIndex \in Nat /\ k \in 0 .. maxAssetGroupIndex
    BY <2>1, <2>2
  <2>4. Number(k)
    BY <2>2, <2>3, SmallerNumber
  <2> QED BY <2>1, <2>4, TxAssumption DEF AssetIDType
<1> QED BY <1>2, <1>3

LEMMA IDOfType ==
  ASSUME NEW k \in Nat, k < Len(Groups), ResolveAssetID(k) # {}
  PROVE  IDOf(k) \in ResolveAssetID(k) /\ AssetIDType(IDOf(k))
<1>1. IDOf(k) \in ResolveAssetID(k)
  BY DEF IDOf
<1> QED BY <1>1, ResolveIn

LEMMA PushIDIn ==
  ASSUME NEW id, AssetIDType(id)
  PROVE  PushID(id) \in Seq(Short) /\ \A x \in Short : Append(PushID(id), x) \in Seq(Short)
<1> DEFINE a == id.txid
           b == Encode(id.index)
<1>1. a \in Short /\ b \in Short
  BY NumberIn DEF AssetIDType
<1> HIDE DEF a, b
<1>2. <<a, b>> \in Seq(Short) /\ \A x \in Short : Append(<<a, b>>, x) \in Seq(Short)
  BY <1>1
<1> QED BY <1>2 DEF PushID, a, b

LEMMA ControlIn ==
  ASSUME NEW k \in Nat, k < Len(Groups)
  PROVE  ControlAsset(k) \subseteq Seq(Short)
<1> DEFINE c == Groups[k + 1].control
           I(r) == IF r.byGroup THEN IF r.group < Len(Groups) THEN ResolveAssetID(r.group) ELSE {} ELSE {r.id}
           U == UNION {I(r) : r \in c}
<1>1. k + 1 \in 1 .. Len(Groups)
  BY GroupsAre
<1>2. ASSUME NEW r \in c, NEW id \in I(r) PROVE AssetIDType(id)
  <2>1. r.group \in Nat /\ AssetIDType(r.id)
    BY <1>1, AssetAssumption
  <2>2. CASE r.byGroup
    BY <2>1, <2>2, ResolveIn
  <2>3. CASE ~r.byGroup
    BY <2>1, <2>3
  <2> QED BY <2>2, <2>3
<1>3. ControlAsset(k) = IF c = {} THEN {<< <<>>, Encode(0), Encode(0) >>} ELSE {Append(PushID(id), Encode(1)) : id \in U}
  BY DEF ControlAsset
<1>4. << <<>>, Encode(0), Encode(0) >> \in Seq(Short)
  BY BoolsIn
<1> HIDE DEF c, I
<1>5. ASSUME NEW id \in U PROVE Append(PushID(id), Encode(1)) \in Seq(Short)
  <2>1. AssetIDType(id)
    BY <1>2
  <2> QED BY <2>1, PushIDIn, BoolsIn
<1> HIDE DEF U
<1> QED BY <1>3, <1>4, <1>5

-----------------------------------------------------------------------------
(***************************************************************************)
(* Asset opcodes.                                                          *)
(***************************************************************************)

LEMMA MetadataRootIn ==
  ASSUME CryptoTyped, NEW leaves \in Seq(Short)
  PROVE  MetadataRoot(leaves) \in Short
<1> DEFINE n == Len(leaves)
           T == {h \in Seq(Short) : Len(h) >= 1}
           pair(h, i) == CHOOSE x \in Crypto("sha256", <<h[2 * i - 1] \o h[2 * i]>>) : TRUE
           up(h) == [i \in 1 .. (Len(h) + 1) \div 2 |-> IF 2 * i <= Len(h) THEN pair(h, i) ELSE h[2 * i - 1]]
           G == [p \in (1 .. n) \X T |-> up(p[2])]
<1>0. n \in Nat
  OBVIOUS
<1>1. CASE leaves = <<>>
  BY <1>1, ZeroHashIn DEF MetadataRoot, Bytes
<1>2. CASE leaves # <<>>
  <2>0. leaves \in T
    BY <1>2
  <2>1. ASSUME NEW h \in T PROVE up(h) \in T
    <3> DEFINE m == (Len(h) + 1) \div 2
    <3>1. Len(h) \in Nat /\ Len(h) >= 1 /\ h \in Seq(Short)
      OBVIOUS
    <3>2. m \in Nat /\ m >= 1 /\ 2 * m <= Len(h) + 1
      BY <3>1
    <3>3. ASSUME NEW i \in 1 .. m PROVE (IF 2 * i <= Len(h) THEN pair(h, i) ELSE h[2 * i - 1]) \in Short
      <4>0. i \in Nat /\ i >= 1 /\ i <= m
        BY <3>2
      <4> HIDE DEF m
      <4>1. 2 * i - 1 \in 1 .. Len(h)
        BY <3>1, <3>2, <4>0
      <4>2. h[2 * i - 1] \in Short
        BY <3>1, <4>1
      <4>3. CASE 2 * i <= Len(h)
        <5>1. 2 * i \in 1 .. Len(h)
          BY <3>1, <4>0, <4>3
        <5>2. h[2 * i] \in Short
          BY <3>1, <5>1
        <5> DEFINE a == h[2 * i - 1]
                   b == h[2 * i]
        <5> HIDE DEF a, b
        <5>3. a \o b \in Element
          <6>1. a \in Seq(Byte) /\ b \in Seq(Byte)
            BY <4>2, <5>2, ShortAre DEF Element, a, b
          <6> QED BY <6>1 DEF Element
        <5> DEFINE C == Crypto("sha256", <<a \o b>>)
        <5>4. C \subseteq Short /\ C # {}
          BY <5>3 DEF CryptoTyped, Hashes
        <5> HIDE DEF C
        <5>5. (CHOOSE x \in C : TRUE) \in Short
          BY <5>4
        <5>6. pair(h, i) \in Short
          BY <5>5 DEF C, a, b
        <5> QED BY <4>3, <5>6
      <4> HIDE DEF pair
      <4> QED BY <4>2, <4>3
    <3> HIDE DEF pair, m
    <3>4. up(h) \in [1 .. m -> Short]
      BY <3>3 DEF m
    <3>5. \A g \in [1 .. m -> Short] : g \in Seq(Short) /\ Len(g) = m
      BY <3>2
    <3> HIDE DEF up
    <3> QED BY <3>2, <3>4, <3>5
  <2>2. ASSUME NEW k \in 1 .. n, NEW h \in T PROVE G[<<k, h>>] = up(h)
    <3> HIDE DEF up, T
    <3> QED OBVIOUS
  <2>3. MetadataRoot(leaves) =
          (CHOOSE h : h = [k \in 0 .. n |-> IF k = 0 THEN leaves ELSE up(h[k - 1])])[n][1]
    BY <1>2 DEF MetadataRoot
  <2> HIDE DEF up, G, T
  <2>4. PICK f : Iterates(f, G, n, T, leaves)
    <3>1. Steps(G, n, T)
      BY <2>1, <2>2 DEF Steps
    <3> HIDE DEF n
    <3> QED BY <1>0, <2>0, <3>1, Iteration
  <2> DEFINE R(h) == h = [k \in 0 .. n |-> IF k = 0 THEN leaves ELSE up(h[k - 1])]
  <2>5. R(f)
    <3> USE DEF Iterates
    <3>1. ASSUME NEW i \in 0 .. n PROVE f[i] = IF i = 0 THEN leaves ELSE up(f[i - 1])
      <4>1. CASE i = 0
        BY <2>4, <4>1
      <4>2. CASE i # 0
        <5>1. i \in 1 .. n /\ i - 1 \in 0 .. n
          BY <1>0, <4>2
        <5> HIDE DEF n
        <5>2. f[i - 1] \in T /\ f[i] = G[<<i, f[i - 1]>>]
          BY <2>4, <5>1
        <5> QED BY <2>2, <4>2, <5>1, <5>2
      <4> QED BY <4>1, <4>2
    <3> HIDE DEF n
    <3> QED BY <2>4, <3>1
  <2> DEFINE g == CHOOSE h : R(h)
  <2>6. R(g)
    BY <2>5
  <2>7. MetadataRoot(leaves) = g[n][1]
    BY <2>3
  <2> HIDE DEF g
  <2>8. g[0] = leaves /\ \A k \in 1 .. n : g[k] = up(g[k - 1])
    <3>1. 0 \in 0 .. n /\ \A k \in 1 .. n : k \in 0 .. n /\ k # 0
      BY <1>0
    <3> HIDE DEF n
    <3> QED BY <2>6, <3>1
  <2>9. \A k \in 0 .. n : g[k] \in T
    <3> HIDE DEF n
    <3> QED BY <1>0, <2>0, <2>1, <2>8, IterationType
  <2>10. g[n] \in T
    BY <1>0, <2>9
  <2>11. g[n][1] \in Short
    BY <2>10 DEF T
  <2> QED BY <2>7, <2>11
<1> QED BY <1>1, <1>2

\* The sum of a group's entries: what the loop has added after each of them.
LEMMA AmountSumIs ==
  ASSUME NEW entries, Len(entries) \in Nat, \A k \in 1 .. Len(entries) : entries[k].amount \in Nat
  PROVE  \E g : /\ AmountSum(entries) = g[Len(entries)]
                /\ g[0] = 0
                /\ \A k \in 1 .. Len(entries) : g[k] = g[k - 1] + entries[k].amount
                /\ \A k \in 0 .. Len(entries) : g[k] \in Nat
<1> DEFINE n == Len(entries)
           add(k) == entries[k].amount
           G == [p \in (1 .. n) \X Nat |-> p[2] + add(p[1])]
<1>0. n \in Nat /\ 0 \in Nat /\ \A k \in 1 .. n : add(k) \in Nat
  OBVIOUS
<1>1. AmountSum(entries) = (CHOOSE h : h = [k \in 0 .. n |-> IF k = 0 THEN 0 ELSE h[k - 1] + add(k)])[n]
  BY DEF AmountSum
<1> HIDE DEF n, add
<1>2. ASSUME NEW k \in 1 .. n, NEW x \in Nat PROVE G[<<k, x>>] = x + add(k) /\ G[<<k, x>>] \in Nat
  <2>1. G[<<k, x>>] = x + add(k)
    OBVIOUS
  <2> QED BY <1>0, <2>1
<1> HIDE DEF G
<1>3. PICK f : Iterates(f, G, n, Nat, 0)
  <2>1. Steps(G, n, Nat)
    BY <1>2 DEF Steps
  <2> QED BY <1>0, <2>1, Iteration
<1> DEFINE R(h) == h = [k \in 0 .. n |-> IF k = 0 THEN 0 ELSE h[k - 1] + add(k)]
<1>4. R(f)
  <2> USE DEF Iterates
  <2>1. ASSUME NEW i \in 0 .. n PROVE f[i] = IF i = 0 THEN 0 ELSE f[i - 1] + add(i)
    <3>1. CASE i = 0
      BY <1>3, <3>1
    <3>2. CASE i # 0
      <4>1. i \in 1 .. n /\ i - 1 \in 0 .. n
        BY <1>0, <3>2
      <4>2. f[i - 1] \in Nat /\ f[i] = G[<<i, f[i - 1]>>]
        BY <1>3, <4>1
      <4> QED BY <1>2, <3>2, <4>1, <4>2
    <3> QED BY <3>1, <3>2
  <2> QED BY <1>3, <2>1
<1> DEFINE g == CHOOSE h : R(h)
<1>5. R(g)
  BY <1>4
<1>6. AmountSum(entries) = g[n]
  BY <1>1
<1> HIDE DEF g
<1>7. g[0] = 0 /\ \A k \in 1 .. n : g[k] = g[k - 1] + add(k)
  <2>1. 0 \in 0 .. n /\ \A k \in 1 .. n : k \in 0 .. n /\ k # 0
    BY <1>0
  <2> QED BY <1>5, <2>1
<1>8. \A k \in 0 .. n : g[k] \in Nat
  <2>1. \A k \in 1 .. n : g[k - 1] \in Nat => g[k] \in Nat
    BY <1>0, <1>7
  <2> QED BY <1>0, <1>7, <2>1, IterationType
<1> QED BY <1>6, <1>7, <1>8 DEF n, add

LEMMA SideIs ==
  ASSUME NEW k \in Nat, k < Len(Groups), NEW source \in {0, 1}
  PROVE  /\ Len(Side(k, source)) \in Nat /\ Encode(Len(Side(k, source))) \in Short
         /\ \A n \in 1 .. Len(Side(k, source)) :
               /\ Number(Side(k, source)[n].at) /\ Side(k, source)[n].amount \in Nat /\ Number(Side(k, source)[n].amount)
               /\ source = 0 => Side(k, source)[n].intent \subseteq Short
<1>1. k + 1 \in 1 .. Len(Groups)
  BY GroupsAre
<1>2. CASE source = 0
  <2>1. Side(k, source) = Groups[k + 1].ins
    BY <1>2 DEF Side
  <2> QED BY <1>1, <2>1, AssetAssumption, NumberIn DEF Number, EntryType
<1>3. CASE source = 1
  <2>1. Side(k, source) = Groups[k + 1].outs
    BY <1>3 DEF Side
  <2> QED BY <1>1, <1>3, <2>1, AssetAssumption, NumberIn DEF Number, EntryType
<1> QED BY <1>2, <1>3

LEMMA AmountIn ==
  ASSUME NEW x \in Nat
  PROVE  PushAmount(x) \subseteq Short
<1>1. x \in Int
  OBVIOUS
<1> QED BY <1>1, Uint64In DEF PushAmount

LEMMA GroupEntryIn ==
  ASSUME NEW k \in Nat, k < Len(Groups), NEW j \in Int, NEW source
  PROVE  GroupEntry(k, j, source) \subseteq Seq(Short)
<1> SUFFICES ASSUME NEW r \in GroupEntry(k, j, source) PROVE r \in Seq(Short)
  OBVIOUS
<1> DEFINE e == Side(k, source)[j + 1]
           head == IF source = 1 THEN <<Encode(1)>>
                   ELSE IF e.intent # {} THEN <<Encode(2), CHOOSE t \in e.intent : TRUE>>
                   ELSE <<Encode(1)>>
<1>1. source \in {0, 1} /\ j \in 0 .. Len(Side(k, source)) - 1
  BY DEF GroupEntry
<1>2. GroupEntry(k, j, source) = {head \o <<Encode(e.at), a>> : a \in PushAmount(e.amount)}
  BY <1>1 DEF GroupEntry
<1>3. j + 1 \in 1 .. Len(Side(k, source))
  BY <1>1, SideIs
<1>4. Encode(e.at) \in Short /\ e.amount \in Nat /\ (source = 0 => e.intent \subseteq Short)
  BY <1>1, <1>3, SideIs, NumberIn
<1> HIDE DEF e
<1>5. head \in Seq(Short)
  <2>1. <<Encode(1)>> \in Seq(Short)
    BY BoolsIn
  <2>2. ASSUME source = 0, e.intent # {} PROVE <<Encode(2), CHOOSE t \in e.intent : TRUE>> \in Seq(Short)
    <3>1. (CHOOSE t \in e.intent : TRUE) \in Short
      BY <1>4, <2>2
    <3> QED BY <3>1, BoolsIn
  <2> QED BY <1>1, <2>1, <2>2
<1> HIDE DEF head
<1>6. PICK a \in PushAmount(e.amount) : r = head \o <<Encode(e.at), a>>
  BY <1>2
<1>7. a \in Short
  BY <1>4, <1>6, AmountIn
<1>8. <<Encode(e.at), a>> \in Seq(Short)
  BY <1>4, <1>7
<1> QED BY <1>5, <1>6, <1>8

LEMMA CountIn ==
  ASSUME NEW k \in Nat, k < Len(Groups), NEW source \in {0, 1}
  PROVE  Count(Side(k, source)) \subseteq Short
BY SideIs DEF Count

LEMMA SumIn ==
  ASSUME NEW k \in Nat, k < Len(Groups), NEW source \in {0, 1}
  PROVE  Sum(Side(k, source)) \subseteq Short
<1> DEFINE e == Side(k, source)
<1>1. Len(e) \in Nat /\ \A n \in 1 .. Len(e) : e[n].amount \in Nat
  <2>1. \A n \in 1 .. Len(e) : e[n].amount \in Nat
    BY SideIs
  <2>2. Len(e) \in Nat
    BY SideIs
  <2> QED BY <2>1, <2>2
<1> HIDE DEF e
<1>2. AmountSum(e) \in Int
  <2>1. PICK g : AmountSum(e) = g[Len(e)] /\ \A n \in 0 .. Len(e) : g[n] \in Nat
    BY <1>1, AmountSumIs
  <2>2. Len(e) \in 0 .. Len(e)
    BY <1>1
  <2>3. g[Len(e)] \in Nat
    BY <2>1, <2>2
  <2> QED BY <2>1, <2>3
<1>3. BigNumBytes(Big(AmountSum(e))) \subseteq Short
  BY <1>2, Uint64In
<1> QED BY <1>3 DEF Sum, e

Sides(src, A, B, C) ==
    CASE src \in {0, 1} -> {<<x>> : x \in A}
      [] src = 2 -> {<<x, y>> : x \in B, y \in C}
      [] OTHER -> {}

LEMMA SidesIn ==
  ASSUME NEW src, NEW A, NEW B, NEW C, src \in {0, 1} => A \subseteq Short, B \subseteq Short, C \subseteq Short
  PROVE  Sides(src, A, B, C) \subseteq Seq(Short)
<1> USE DEF Sides
<1>1. CASE src \in {0, 1}
  <2>1. {<<x>> : x \in A} \subseteq Seq(Short)
    BY <1>1, Singles
  <2> QED BY <1>1, <2>1
<1>2. CASE src = 2
  <2>1. ASSUME NEW r \in {<<x, y>> : x \in B, y \in C} PROVE r \in Seq(Short)
    <3>1. PICK x \in B, y \in C : r = <<x, y>>
      OBVIOUS
    <3>2. x \in Short /\ y \in Short
      OBVIOUS
    <3> QED BY <3>1, <3>2
  <2> QED BY <1>2, <2>1
<1>3. CASE src \notin {0, 1} /\ src # 2
  BY <1>3
<1> QED BY <1>1, <1>2, <1>3

\* Opcodes on one asset group.
LEMMA GroupKeeps ==
  ASSUME CryptoTyped, NEW L \in Bounds, NEW s \in Seq(Elements(L)), NEW op \in GroupOpcodes
  PROVE  GroupOpcode(op, s) \subseteq Seq(Elements(L))
<1> DEFINE b == s[Len(s) - 2]
           c == s[Len(s) - 1]
           d == s[Len(s)]
           R1 == UNION {{PushID(id) : id \in ResolveAssetID(k)} : k \in GroupIndex(d)}
           R2 == UNION {ControlAsset(k) : k \in GroupIndex(d)}
           R3 == {<<MetadataRoot(Groups[k + 1].metadata)>> : k \in GroupIndex(d)}
           Counts(k, src) == CASE src \in {0, 1} -> {<<x>> : x \in Count(Side(k, src))}
                               [] src = 2 -> {<<x, y>> : x \in Count(Side(k, 0)), y \in Count(Side(k, 1))}
                               [] OTHER -> {}
           Sums(k, src) == CASE src \in {0, 1} -> {<<x>> : x \in Sum(Side(k, src))}
                             [] src = 2 -> {<<x, y>> : x \in Sum(Side(k, 0)), y \in Sum(Side(k, 1))}
                             [] OTHER -> {}
           R4 == UNION {Counts(k, src) : k \in GroupIndex(c), src \in MakeScriptNum(d)}
           R5 == UNION {Sums(k, src) : k \in GroupIndex(c), src \in MakeScriptNum(d)}
           R6 == UNION {GroupEntry(k, j, src) : k \in GroupIndex(b), j \in MakeScriptNum(c), src \in MakeScriptNum(d)}
<1>1. /\ GroupOpcode("OP_INSPECTASSETGROUPASSETID", s) = Popped(s, 1, R1)
      /\ GroupOpcode("OP_INSPECTASSETGROUPCTRL", s) = Popped(s, 1, R2)
      /\ GroupOpcode("OP_INSPECTASSETGROUPMETADATAHASH", s) = Popped(s, 1, R3)
      /\ GroupOpcode("OP_INSPECTASSETGROUPNUM", s) = Popped(s, 2, R4)
      /\ GroupOpcode("OP_INSPECTASSETGROUPSUM", s) = Popped(s, 2, R5)
      /\ GroupOpcode("OP_INSPECTASSETGROUP", s) = Popped(s, 3, R6)
  <2>1. GroupOpcode("OP_INSPECTASSETGROUPASSETID", s) = Popped(s, 1, R1)
    BY DEF GroupOpcode, Popped, Take1, Take2, Take3, PerSide
  <2>2. GroupOpcode("OP_INSPECTASSETGROUPCTRL", s) = Popped(s, 1, R2)
    BY DEF GroupOpcode, Popped, Take1, Take2, Take3, PerSide
  <2>3. GroupOpcode("OP_INSPECTASSETGROUPMETADATAHASH", s) = Popped(s, 1, R3)
    BY DEF GroupOpcode, Popped, Take1, Take2, Take3, PerSide
  <2>4. GroupOpcode("OP_INSPECTASSETGROUPNUM", s) = Popped(s, 2, R4)
    BY DEF GroupOpcode, Popped, Take1, Take2, Take3, PerSide
  <2>5. GroupOpcode("OP_INSPECTASSETGROUPSUM", s) = Popped(s, 2, R5)
    BY DEF GroupOpcode, Popped, Take1, Take2, Take3, PerSide
  <2>6. GroupOpcode("OP_INSPECTASSETGROUP", s) = Popped(s, 3, R6)
    BY DEF GroupOpcode, Popped, Take1, Take2, Take3, PerSide
  <2> HIDE DEF R1, R2, R3, R4, R5, R6
  <2> QED BY <2>1, <2>2, <2>3, <2>4, <2>5, <2>6
<1>2. /\ Len(s) >= 1 => d \in Element
      /\ Len(s) >= 2 => d \in Element /\ c \in Element
      /\ Len(s) >= 3 => d \in Element /\ c \in Element /\ b \in Element
  BY OperandElements
<1> HIDE DEF b, c, d
<1>3. ASSUME NEW e \in Element, NEW k \in GroupIndex(e) PROVE k \in Nat /\ k < Len(Groups)
  <2>1. k \in Int
    BY ReadScriptNum DEF GroupIndex
  <2> QED BY <2>1 DEF GroupIndex
<1>4. Len(s) >= 1 => R1 \subseteq Seq(Short)
  <2> SUFFICES ASSUME d \in Element, NEW k \in GroupIndex(d), NEW id \in ResolveAssetID(k) PROVE PushID(id) \in Seq(Short)
    BY <1>2
  <2> QED BY <1>3, ResolveIn, PushIDIn
<1>5. Len(s) >= 1 => R2 \subseteq Seq(Short)
  BY <1>2, <1>3, ControlIn
<1>6. Len(s) >= 1 => R3 \subseteq Seq(Short)
  <2> SUFFICES ASSUME d \in Element, NEW k \in GroupIndex(d) PROVE <<MetadataRoot(Groups[k + 1].metadata)>> \in Seq(Short)
    BY <1>2
  <2>1. k + 1 \in 1 .. Len(Groups)
    BY <1>3, GroupsAre
  <2>2. Groups[k + 1].metadata \in Seq(Short)
    BY <2>1, AssetAssumption
  <2>3. MetadataRoot(Groups[k + 1].metadata) \in Short
    BY <2>2, MetadataRootIn
  <2> QED BY <2>3
<1>7. ASSUME NEW k \in Nat, k < Len(Groups), NEW src PROVE Counts(k, src) \subseteq Seq(Short) /\ Sums(k, src) \subseteq Seq(Short)
  <2>1. src \in {0, 1} => Count(Side(k, src)) \subseteq Short /\ Sum(Side(k, src)) \subseteq Short
    BY <1>7, CountIn, SumIn
  <2>2. /\ Count(Side(k, 0)) \subseteq Short /\ Sum(Side(k, 0)) \subseteq Short
        /\ Count(Side(k, 1)) \subseteq Short /\ Sum(Side(k, 1)) \subseteq Short
    BY <1>7, CountIn, SumIn
  <2>3. Counts(k, src) \subseteq Seq(Short)
    <3> DEFINE A == Count(Side(k, src))
               B == Count(Side(k, 0))
               C == Count(Side(k, 1))
    <3>1. (src \in {0, 1} => A \subseteq Short) /\ B \subseteq Short /\ C \subseteq Short
      BY <2>1, <2>2
    <3>2. Counts(k, src) = Sides(src, A, B, C)
      BY DEF Sides
    <3> HIDE DEF A, B, C, Counts
    <3>3. Sides(src, A, B, C) \subseteq Seq(Short)
      BY <3>1, SidesIn
    <3> QED BY <3>2, <3>3
  <2>4. Sums(k, src) \subseteq Seq(Short)
    <3> DEFINE A == Sum(Side(k, src))
               B == Sum(Side(k, 0))
               C == Sum(Side(k, 1))
    <3>1. (src \in {0, 1} => A \subseteq Short) /\ B \subseteq Short /\ C \subseteq Short
      BY <2>1, <2>2
    <3>2. Sums(k, src) = Sides(src, A, B, C)
      BY DEF Sides
    <3> HIDE DEF A, B, C, Sums
    <3>3. Sides(src, A, B, C) \subseteq Seq(Short)
      BY <3>1, SidesIn
    <3> QED BY <3>2, <3>3
  <2> QED BY <2>3, <2>4
<1> HIDE DEF Counts, Sums
<1>8. Len(s) >= 2 => R4 \subseteq Seq(Short) /\ R5 \subseteq Seq(Short)
  <2> SUFFICES ASSUME c \in Element PROVE R4 \subseteq Seq(Short) /\ R5 \subseteq Seq(Short)
    BY <1>2
  <2>1. \A k \in GroupIndex(c) : k \in Nat /\ k < Len(Groups)
    BY <1>3
  <2>2. ASSUME NEW r \in R4 PROVE r \in Seq(Short)
    <3>1. PICK k \in GroupIndex(c), src \in MakeScriptNum(d) : r \in Counts(k, src)
      OBVIOUS
    <3> QED BY <1>7, <2>1, <3>1
  <2>3. ASSUME NEW r \in R5 PROVE r \in Seq(Short)
    <3>1. PICK k \in GroupIndex(c), src \in MakeScriptNum(d) : r \in Sums(k, src)
      OBVIOUS
    <3> QED BY <1>7, <2>1, <3>1
  <2> QED BY <2>2, <2>3
<1>9. Len(s) >= 3 => R6 \subseteq Seq(Short)
  <2> SUFFICES ASSUME c \in Element, b \in Element, NEW r \in R6 PROVE r \in Seq(Short)
    BY <1>2
  <2>1. PICK k \in GroupIndex(b), j \in MakeScriptNum(c), src \in MakeScriptNum(d) : r \in GroupEntry(k, j, src)
    OBVIOUS
  <2>2. k \in Nat /\ k < Len(Groups) /\ j \in Int
    BY <1>3, ReadScriptNum
  <2> QED BY <2>1, <2>2, GroupEntryIn
<1> HIDE DEF R1, R2, R3, R4, R5, R6
<1>10. /\ Popped(s, 1, R1) \subseteq Seq(Elements(L)) /\ Popped(s, 1, R2) \subseteq Seq(Elements(L))
       /\ Popped(s, 1, R3) \subseteq Seq(Elements(L)) /\ Popped(s, 2, R4) \subseteq Seq(Elements(L))
       /\ Popped(s, 2, R5) \subseteq Seq(Elements(L)) /\ Popped(s, 3, R6) \subseteq Seq(Elements(L))
  BY <1>4, <1>5, <1>6, <1>8, <1>9, TakenShort
<1> QED BY <1>1, <1>10 DEF GroupOpcodes

\* The entries at an input or output.
Listed == [group : 0 .. Len(Groups) - 1, amount : {x \in Nat : Number(x)}]

\* The places of the first m entries of a group, and of the first m groups.
PlacesIn(k, source, at, m) == {k} \X {j \in 1 .. m : Side(k, source)[j].at = at}
PlacesOf(source, at, m) ==
    UNION {{k} \X {n \in 1 .. Len(Side(k, source)) : Side(k, source)[n].at = at} : k \in 0 .. m - 1}

\* One group's entries at a place, and how many.
LEMMA EntriesInType ==
  ASSUME NEW k \in Nat, k < Len(Groups), NEW source \in {0, 1}, NEW at
  PROVE  LET P == PlacesIn(k, source, at, Len(Side(k, source)))
         IN EntriesIn(k, source, at) \in Seq(Listed) /\ IsFiniteSet(P) /\ Len(EntriesIn(k, source, at)) = Cardinality(P)
<1> DEFINE e == Side(k, source)
           n == Len(e)
           T == Seq(Listed)
           new(j) == [group |-> k, amount |-> e[j].amount]
           step(j, x) == IF e[j].at = at THEN Append(x, new(j)) ELSE x
           G == [p \in (1 .. n) \X T |-> step(p[1], p[2])]
           P(m) == PlacesIn(k, source, at, m)
<1> HIDE DEF P
<1>0. n \in Nat /\ \A j \in 1 .. n : new(j) \in Listed
  <2>1. n \in Nat /\ \A j \in 1 .. n : e[j].amount \in {x \in Nat : Number(x)}
    BY SideIs
  <2>2. k \in 0 .. Len(Groups) - 1
    BY GroupsAre
  <2> HIDE DEF e, n
  <2> QED BY <2>1, <2>2 DEF Listed
<1>1. EntriesIn(k, source, at) = (CHOOSE h : h = [j \in 0 .. n |-> IF j = 0 THEN <<>> ELSE step(j, h[j - 1])])[n]
  BY DEF EntriesIn
<1> HIDE DEF n, e, new
<1>2. ASSUME NEW j \in 1 .. n, NEW x \in T PROVE step(j, x) \in T
  BY <1>0
<1> HIDE DEF T, step
<1>3. ASSUME NEW j \in 1 .. n, NEW x \in T PROVE G[<<j, x>>] = step(j, x)
  OBVIOUS
<1> HIDE DEF G
<1>4. <<>> \in T
  BY DEF T
<1>5. PICK f : Iterates(f, G, n, T, <<>>)
  <2>1. Steps(G, n, T)
    BY <1>2, <1>3 DEF Steps
  <2> QED BY <1>0, <1>4, <2>1, Iteration
<1> DEFINE R(h) == h = [j \in 0 .. n |-> IF j = 0 THEN <<>> ELSE step(j, h[j - 1])]
<1>6. R(f)
  <2> USE DEF Iterates
  <2>1. ASSUME NEW i \in 0 .. n PROVE f[i] = IF i = 0 THEN <<>> ELSE step(i, f[i - 1])
    <3>1. CASE i = 0
      BY <1>5, <3>1
    <3>2. CASE i # 0
      <4>1. i \in 1 .. n /\ i - 1 \in 0 .. n
        BY <1>0, <3>2
      <4>2. f[i - 1] \in T /\ f[i] = G[<<i, f[i - 1]>>]
        BY <1>5, <4>1
      <4> QED BY <1>3, <3>2, <4>1, <4>2
    <3> QED BY <3>1, <3>2
  <2> QED BY <1>5, <2>1
<1> DEFINE g == CHOOSE h : R(h)
<1>7. R(g)
  BY <1>6
<1>8. EntriesIn(k, source, at) = g[n]
  BY <1>1
<1> HIDE DEF g
<1>9. g[0] = <<>> /\ \A j \in 1 .. n : g[j] = step(j, g[j - 1])
  <2>1. 0 \in 0 .. n /\ \A j \in 1 .. n : j \in 0 .. n /\ j # 0
    BY <1>0
  <2> QED BY <1>7, <2>1
<1>10. \A j \in 0 .. n : g[j] \in T
  BY <1>0, <1>2, <1>4, <1>9, IterationType
<1>11. n \in 0 .. n
  BY <1>0
<1>12. \A m \in 0 .. n : IsFiniteSet(P(m)) /\ Len(g[m]) = Cardinality(P(m))
  <2> DEFINE S == {m \in Nat : m <= n => IsFiniteSet(P(m)) /\ Len(g[m]) = Cardinality(P(m))}
  <2>1. 0 \in S
    <3>1. P(0) = {}
      BY DEF P, PlacesIn
    <3>2. Len(g[0]) = 0
      BY <1>9
    <3> QED BY <3>1, <3>2, FS_EmptySet
  <2>2. ASSUME NEW m \in Nat, m \in S PROVE m + 1 \in S
    <3> SUFFICES ASSUME m + 1 <= n PROVE IsFiniteSet(P(m + 1)) /\ Len(g[m + 1]) = Cardinality(P(m + 1))
      OBVIOUS
    <3>1. m + 1 \in 1 .. n /\ (m + 1) - 1 = m /\ m \in 0 .. n /\ m <= n
      BY <1>0
    <3>2. IsFiniteSet(P(m)) /\ Len(g[m]) = Cardinality(P(m)) /\ Cardinality(P(m)) \in Nat
      BY <2>2, <3>1, FS_CardinalityType
    <3>3. g[m + 1] = step(m + 1, g[m]) /\ g[m] \in Seq(Listed) /\ new(m + 1) \in Listed
      BY <1>0, <1>9, <1>10, <3>1 DEF T
    <3>4. CASE e[m + 1].at = at
      <4>1. P(m + 1) = P(m) \cup {<<k, m + 1>>} /\ <<k, m + 1>> \notin P(m)
        BY <3>4 DEF P, PlacesIn, e
      <4>2. IsFiniteSet(P(m + 1)) /\ Cardinality(P(m + 1)) = Cardinality(P(m)) + 1
        <5> HIDE DEF P
        <5> QED BY <3>2, <4>1, FS_AddElement
      <4>3. Len(g[m + 1]) = Len(g[m]) + 1
        BY <3>3, <3>4 DEF step
      <4> QED BY <3>2, <4>2, <4>3
    <3>5. CASE e[m + 1].at # at
      <4>1. P(m + 1) = P(m)
        BY <3>5 DEF P, PlacesIn, e
      <4>2. g[m + 1] = g[m]
        BY <3>3, <3>5 DEF step
      <4> QED BY <3>2, <4>1, <4>2
    <3> QED BY <3>4, <3>5
  <2>3. Nat \subseteq S
    <3> HIDE DEF S
    <3> QED BY <2>1, <2>2, SetInduction
  <2> QED BY <1>0, <2>3
<1> QED BY <1>8, <1>10, <1>11, <1>12 DEF T, P, n, e

\* All entries at a place, and how many.
LEMMA EntriesAtType ==
  ASSUME NEW source \in {0, 1}, NEW at
  PROVE  /\ EntriesAt(source, at) \in Seq(Listed)
         /\ Len(EntriesAt(source, at)) = Cardinality(PlacesOf(source, at, Len(Groups)))
<1> DEFINE n == Len(Groups)
           T == Seq(Listed)
           step(j, x) == x \o EntriesIn(j - 1, source, at)
           G == [p \in (1 .. n) \X T |-> step(p[1], p[2])]
           P(m) == PlacesOf(source, at, m)
<1> HIDE DEF P
<1>0. n \in Nat
  BY GroupsAre
<1>1. EntriesAt(source, at) = (CHOOSE h : h = [j \in 0 .. n |-> IF j = 0 THEN <<>> ELSE step(j, h[j - 1])])[n]
  BY DEF EntriesAt
<1>2. ASSUME NEW j \in 1 .. n, NEW x \in T PROVE step(j, x) \in T
  <2>1. j - 1 \in Nat /\ j - 1 < Len(Groups)
    BY <1>0
  <2>2. EntriesIn(j - 1, source, at) \in T
    BY <2>1, EntriesInType
  <2> QED BY <2>2
<1> HIDE DEF n, T, step
<1>3. ASSUME NEW j \in 1 .. n, NEW x \in T PROVE G[<<j, x>>] = step(j, x)
  OBVIOUS
<1> HIDE DEF G
<1>4. <<>> \in T
  BY DEF T
<1>5. PICK f : Iterates(f, G, n, T, <<>>)
  <2>1. Steps(G, n, T)
    BY <1>2, <1>3 DEF Steps
  <2> QED BY <1>0, <1>4, <2>1, Iteration
<1> DEFINE R(h) == h = [j \in 0 .. n |-> IF j = 0 THEN <<>> ELSE step(j, h[j - 1])]
<1>6. R(f)
  <2> USE DEF Iterates
  <2>1. ASSUME NEW i \in 0 .. n PROVE f[i] = IF i = 0 THEN <<>> ELSE step(i, f[i - 1])
    <3>1. CASE i = 0
      BY <1>5, <3>1
    <3>2. CASE i # 0
      <4>1. i \in 1 .. n /\ i - 1 \in 0 .. n
        BY <1>0, <3>2
      <4>2. f[i - 1] \in T /\ f[i] = G[<<i, f[i - 1]>>]
        BY <1>5, <4>1
      <4> QED BY <1>3, <3>2, <4>1, <4>2
    <3> QED BY <3>1, <3>2
  <2> QED BY <1>5, <2>1
<1> DEFINE g == CHOOSE h : R(h)
<1>7. R(g)
  BY <1>6
<1>8. EntriesAt(source, at) = g[n]
  BY <1>1
<1> HIDE DEF g
<1>9. g[0] = <<>> /\ \A j \in 1 .. n : g[j] = step(j, g[j - 1])
  <2>1. 0 \in 0 .. n /\ \A j \in 1 .. n : j \in 0 .. n /\ j # 0
    BY <1>0
  <2> QED BY <1>7, <2>1
<1>10. \A j \in 0 .. n : g[j] \in T
  BY <1>0, <1>2, <1>4, <1>9, IterationType
<1>11. n \in 0 .. n
  BY <1>0
<1>12. \A m \in 0 .. n : IsFiniteSet(P(m)) /\ Len(g[m]) = Cardinality(P(m))
  <2> DEFINE S == {m \in Nat : m <= n => IsFiniteSet(P(m)) /\ Len(g[m]) = Cardinality(P(m))}
  <2>1. 0 \in S
    <3>1. P(0) = {}
      BY DEF P, PlacesOf
    <3>2. Len(g[0]) = 0
      BY <1>9
    <3> QED BY <3>1, <3>2, FS_EmptySet
  <2>2. ASSUME NEW m \in Nat, m \in S PROVE m + 1 \in S
    <3> SUFFICES ASSUME m + 1 <= n PROVE IsFiniteSet(P(m + 1)) /\ Len(g[m + 1]) = Cardinality(P(m + 1))
      OBVIOUS
    <3> DEFINE Q == PlacesIn(m, source, at, Len(Side(m, source)))
               list == EntriesIn(m, source, at)
    <3>1. m + 1 \in 1 .. n /\ (m + 1) - 1 = m /\ m \in 0 .. n /\ m <= n /\ m < Len(Groups)
      BY <1>0 DEF n
    <3>2. IsFiniteSet(P(m)) /\ Len(g[m]) = Cardinality(P(m)) /\ Cardinality(P(m)) \in Nat
      BY <2>2, <3>1, FS_CardinalityType
    <3>3. list \in Seq(Listed) /\ IsFiniteSet(Q) /\ Len(list) = Cardinality(Q) /\ Cardinality(Q) \in Nat
      BY <3>1, EntriesInType, FS_CardinalityType
    <3>4. g[m + 1] = g[m] \o list /\ g[m] \in Seq(Listed)
      BY <1>9, <1>10, <3>1 DEF T, step
    <3>5. P(m + 1) = P(m) \cup Q
      <4>1. 0 .. (m + 1) - 1 = (0 .. m - 1) \cup {m}
        OBVIOUS
      <4> QED BY <4>1 DEF P, PlacesOf, PlacesIn
    <3>6. P(m) \cap Q = {}
      BY DEF P, PlacesOf, PlacesIn
    <3> HIDE DEF list, Q
    <3>7. IsFiniteSet(P(m + 1)) /\ Cardinality(P(m + 1)) = Cardinality(P(m)) + Cardinality(Q)
      <4>1. Cardinality(P(m) \cap Q) = 0
        BY <3>6, FS_EmptySet, Zenon
      <4>2. IsFiniteSet(P(m) \cup Q)
            /\ Cardinality(P(m) \cup Q) = Cardinality(P(m)) + Cardinality(Q) - Cardinality(P(m) \cap Q)
        BY <3>2, <3>3, FS_Union, Zenon
      <4>3. IsFiniteSet(P(m + 1)) /\ Cardinality(P(m + 1)) = Cardinality(P(m)) + Cardinality(Q) - 0
        BY <3>5, <4>1, <4>2, Zenon
      <4>4. Cardinality(P(m)) + Cardinality(Q) - 0 = Cardinality(P(m)) + Cardinality(Q)
        BY <3>2, <3>3
      <4> QED BY <4>3, <4>4, Zenon
    <3>8. Len(g[m + 1]) = Len(g[m]) + Len(list)
      <4> DEFINE u == g[m]
      <4>1. u \in Seq(Listed) /\ g[m + 1] = u \o list
        BY <3>4
      <4> HIDE DEF u
      <4>2. Len(u \o list) = Len(u) + Len(list)
        BY <3>3, <4>1, JoinedLength, Zenon
      <4> QED BY <4>1, <4>2 DEF u
    <3> QED BY <3>2, <3>3, <3>7, <3>8
  <2>3. Nat \subseteq S
    <3> HIDE DEF S
    <3> QED BY <2>1, <2>2, SetInduction
  <2> QED BY <1>0, <2>3
<1> QED BY <1>8, <1>10, <1>11, <1>12 DEF T, P, n

LEMMA AssetAtIn ==
  ASSUME NEW source \in {0, 1}, NEW at, NEW t \in Int
  PROVE  AssetAt(source, at, t) \subseteq Seq(Short)
<1> SUFFICES ASSUME NEW r \in AssetAt(source, at, t) PROVE r \in Seq(Short)
  OBVIOUS
<1> DEFINE list == EntriesAt(source, at)
           g == list[t + 1].group
<1>1. list \in Seq(Listed) /\ Len(list) \in Nat
  BY EntriesAtType
<1>2. ~(t < 0 \/ t >= Len(list)) /\ AllResolve(g) /\ \E a \in PushAmount(list[t + 1].amount) : r = Append(PushID(IDOf(g)), a)
  BY DEF AssetAt
<1>3. t + 1 \in 1 .. Len(list)
  BY <1>1, <1>2
<1>4. list[t + 1] \in Listed
  BY <1>1, <1>3
<1>5. g \in 0 .. Len(Groups) - 1 /\ list[t + 1].amount \in Nat
  BY <1>4 DEF Listed
<1> HIDE DEF list
<1>6. g \in Nat /\ g < Len(Groups) /\ g \in 0 .. g
  BY <1>5, GroupsAre
<1>7. ResolveAssetID(g) # {}
  BY <1>2, <1>6 DEF AllResolve
<1>8. AssetIDType(IDOf(g))
  BY <1>6, <1>7, IDOfType
<1> QED BY <1>2, <1>5, <1>8, AmountIn, PushIDIn

LEMMA NotFoundIn == {<<Encode(0), Encode(0)>>} \subseteq Seq(Short)
<1>1. <<Encode(0), Encode(0)>> \in Seq(Short)
  BY BoolsIn
<1> QED BY <1>1

LEMMA LookupIn ==
  ASSUME NEW source \in {0, 1}, NEW at, NEW want
  PROVE  AssetLookup(source, at, want) \subseteq Seq(Short)
<1> DEFINE list == EntriesAt(source, at)
           hits == {n \in 1 .. Len(list) : AllResolve(list[n].group) /\ IDOf(list[n].group) = want}
           m == CHOOSE n \in hits : \A j \in hits : n <= j
           A == PushAmount(list[m].amount)
<1>1. list \in Seq(Listed) /\ Len(list) \in Nat
  BY EntriesAtType
<1>2. AssetLookup(source, at, want) =
        IF hits # {} THEN {<<a, Encode(1)>> : a \in A}
        ELSE IF AllResolve(Len(Groups) - 1) THEN {<<Encode(0), Encode(0)>>} ELSE {}
  BY DEF AssetLookup
<1> HIDE DEF list
<1>3. CASE hits # {}
  <2>1. m \in 1 .. Len(list)
    <3>1. hits \in SUBSET Nat /\ hits # {}
      BY <1>3
    <3> HIDE DEF hits
    <3>2. \E n \in hits : \A j \in hits : n <= j
      BY <3>1, LeastNumber
    <3>3. m \in hits
      BY <3>2
    <3> QED BY <3>3 DEF hits
  <2> HIDE DEF m, hits
  <2>2. list[m] \in Listed
    BY <1>1, <2>1
  <2>3. A \subseteq Short
    BY <2>2, AmountIn DEF Listed
  <2> HIDE DEF A
  <2>4. ASSUME NEW r \in {<<a, Encode(1)>> : a \in A} PROVE r \in Seq(Short)
    BY <2>3, BoolsIn
  <2> QED BY <1>2, <1>3, <2>4
<1>4. CASE hits = {}
  <2> HIDE DEF hits, A
  <2> QED BY <1>2, <1>4, NotFoundIn
<1> QED BY <1>3, <1>4

LEMMA FindGroupIn ==
  ASSUME NEW want
  PROVE  FindGroup(want) \subseteq Seq(Short)
<1> DEFINE hits == {k \in 0 .. Len(Groups) - 1 : AllResolve(k) /\ IDOf(k) = want}
           m == CHOOSE k \in hits : \A j \in hits : k <= j
<1>1. FindGroup(want) =
        IF hits # {} THEN {<<Encode(m), Encode(1)>>}
        ELSE IF AllResolve(Len(Groups) - 1) THEN {<<Encode(0), Encode(0)>>} ELSE {}
  BY DEF FindGroup
<1>2. CASE hits # {}
  <2>1. m \in 0 .. Len(Groups) - 1
    <3>1. hits \in SUBSET Nat /\ hits # {}
      BY <1>2, GroupsAre
    <3> HIDE DEF hits
    <3>2. \E n \in hits : \A j \in hits : n <= j
      BY <3>1, LeastNumber
    <3>3. m \in hits
      BY <3>2
    <3> QED BY <3>3 DEF hits
  <2> HIDE DEF m, hits
  <2>2. m \in 0 .. Len(Groups) /\ Len(Groups) \in Nat /\ Number(Len(Groups))
    BY <2>1, GroupsAre, AssetAssumption
  <2>3. Encode(m) \in Short
    BY <2>2, SmallerNumber
  <2>4. <<Encode(m), Encode(1)>> \in Seq(Short)
    BY <2>3, BoolsIn
  <2> QED BY <1>1, <1>2, <2>4
<1>3. CASE hits = {}
  <2> HIDE DEF hits
  <2> QED BY <1>1, <1>3, NotFoundIn
<1> QED BY <1>2, <1>3

\* Opcodes on the entries at a place.
LEMMA EntryKeeps ==
  ASSUME NEW L \in Bounds, NEW s \in Seq(Elements(L)), NEW op \in InputSideOpcodes \cup OutputSideOpcodes
  PROVE  EntryOpcode(op, s) \subseteq Seq(Elements(L))
<1> DEFINE b == s[Len(s) - 2]
           c == s[Len(s) - 1]
           d == s[Len(s)]
           src == IF op \in InputSideOpcodes THEN 0 ELSE 1
           R1 == {<<Encode(Len(EntriesAt(src, n)))>> : n \in MakeScriptNum(d)}
           R2 == UNION {AssetAt(src, n, t) : n \in MakeScriptNum(c), t \in MakeScriptNum(d)}
           R3 == UNION {AssetLookup(src, n, id) : n \in MakeScriptNum(b), id \in PopAssetID(c, d)}
<1>1. /\ Len(s) >= 1 => d \in Element
      /\ Len(s) >= 2 => d \in Element /\ c \in Element
      /\ Len(s) >= 3 => d \in Element /\ c \in Element /\ b \in Element
  BY OperandElements
<1>2. src \in {0, 1}
  OBVIOUS
<1>3. Len(s) >= 1 => R1 \subseteq Seq(Short)
  <2> HIDE DEF b, c, d, src
  <2> SUFFICES ASSUME d \in Element, NEW n \in MakeScriptNum(d) PROVE <<Encode(Len(EntriesAt(src, n)))>> \in Seq(Short)
    BY <1>1
  <2>1. n \in ScriptNumbers
    BY ReadScriptNum
  <2>2. Number(Len(EntriesAt(src, n)))
    BY <1>2, <2>1, AssetAssumption
  <2>3. Encode(Len(EntriesAt(src, n))) \in Short
    BY <2>2, NumberIn
  <2> QED BY <2>3
<1>4. Len(s) >= 2 => R2 \subseteq Seq(Short)
  <2> HIDE DEF b, c, d, src
  <2> SUFFICES ASSUME d \in Element, NEW r \in R2 PROVE r \in Seq(Short)
    BY <1>1
  <2>1. PICK n \in MakeScriptNum(c), t \in MakeScriptNum(d) : r \in AssetAt(src, n, t)
    OBVIOUS
  <2>2. t \in Int
    BY ReadScriptNum
  <2> QED BY <1>2, <2>1, <2>2, AssetAtIn
<1>5. R3 \subseteq Seq(Short)
  <2> HIDE DEF b, c, d, src
  <2> SUFFICES ASSUME NEW r \in R3 PROVE r \in Seq(Short)
    OBVIOUS
  <2>1. PICK n \in MakeScriptNum(b), id \in PopAssetID(c, d) : r \in AssetLookup(src, n, id)
    OBVIOUS
  <2> QED BY <1>2, <2>1, LookupIn
<1>6. CASE op \in {"OP_INSPECTINASSETCOUNT", "OP_INSPECTOUTASSETCOUNT"}
  <2>1. EntryOpcode(op, s) = Popped(s, 1, R1)
    BY <1>6 DEF EntryOpcode, Popped, Take1, Take2, Take3
  <2> HIDE DEF R1
  <2> QED BY <1>3, <2>1, TakenShort
<1>7. CASE op \in {"OP_INSPECTINASSETAT", "OP_INSPECTOUTASSETAT"}
  <2>1. EntryOpcode(op, s) = Popped(s, 2, R2)
    BY <1>7 DEF EntryOpcode, Popped, Take1, Take2, Take3
  <2> HIDE DEF R2
  <2> QED BY <1>4, <2>1, TakenShort
<1>8. CASE op \in {"OP_INSPECTINASSETLOOKUP", "OP_INSPECTOUTASSETLOOKUP"}
  <2>1. EntryOpcode(op, s) = Popped(s, 3, R3)
    BY <1>8 DEF EntryOpcode, Popped, Take1, Take2, Take3
  <2> HIDE DEF R3
  <2> QED BY <1>5, <2>1, TakenShort
<1> QED BY <1>6, <1>7, <1>8 DEF InputSideOpcodes, OutputSideOpcodes

\* All asset opcodes.
LEMMA AssetKeeps ==
  ASSUME CryptoTyped, NEW L \in Bounds, NEW s \in Seq(Elements(L)), NEW op \in AssetOps, NEW data, NEW i
  PROVE  OpcodeEffect(i, op, data, s) \subseteq Seq(Elements(L))
<1> DEFINE T == Elements(L)
           c == s[Len(s) - 1]
           d == s[Len(s)]
           R == UNION {FindGroup(id) : id \in PopAssetID(c, d)}
<1>1. OpcodeEffect(i, op, data, s) = AssetOpcode(op, s)
  BY AssetDispatch
<1>2. CASE Tx.noAssets
  BY <1>1, <1>2 DEF AssetOpcode, Take2
<1>3. CASE ~Tx.noAssets
  <2>1. CASE op = "OP_INSPECTNUMASSETGROUPS"
    <3>a. op \notin InputSideOpcodes \cup OutputSideOpcodes /\ op \notin GroupOpcodes
      BY <2>1 DEF InputSideOpcodes, OutputSideOpcodes, GroupOpcodes
    <3>1. AssetOpcode(op, s) = {Append(s, Encode(Len(Groups)))}
      BY <1>3, <2>1, <3>a DEF AssetOpcode, Take2
    <3>2. Encode(Len(Groups)) \in T
      BY GroupsAre, ShortIn
    <3>3. Append(s, Encode(Len(Groups))) \in Seq(T)
      <4> HIDE DEF T
      <4> QED BY <3>2 DEF T
    <3> QED BY <1>1, <3>1, <3>3
  <2>2. CASE op = "OP_FINDASSETGROUPBYASSETID"
    <3>a. op \notin InputSideOpcodes \cup OutputSideOpcodes /\ op \notin GroupOpcodes
      BY <2>2 DEF InputSideOpcodes, OutputSideOpcodes, GroupOpcodes
    <3>1. AssetOpcode(op, s) = Popped(s, 2, R)
      BY <1>3, <2>2, <3>a DEF AssetOpcode, Popped, Take2
    <3> HIDE DEF c, d
    <3>2. R \subseteq Seq(Short)
      BY FindGroupIn
    <3> HIDE DEF R
    <3> QED BY <1>1, <3>1, <3>2, TakenShort
  <2>3. CASE op \in InputSideOpcodes \cup OutputSideOpcodes
    <3>1. op # "OP_INSPECTNUMASSETGROUPS" /\ op # "OP_FINDASSETGROUPBYASSETID" /\ op \notin GroupOpcodes
      BY <2>3 DEF InputSideOpcodes, OutputSideOpcodes, GroupOpcodes
    <3>2. AssetOpcode(op, s) = EntryOpcode(op, s)
      BY <1>3, <2>3, <3>1 DEF AssetOpcode, Take2
    <3> QED BY <1>1, <2>3, <3>2, EntryKeeps
  <2>4. CASE op \in GroupOpcodes
    <3>1. op # "OP_INSPECTNUMASSETGROUPS" /\ op # "OP_FINDASSETGROUPBYASSETID" /\ op \notin InputSideOpcodes \cup OutputSideOpcodes
      BY <2>4 DEF InputSideOpcodes, OutputSideOpcodes, GroupOpcodes
    <3>2. AssetOpcode(op, s) = GroupOpcode(op, s)
      BY <1>3, <2>4, <3>1 DEF AssetOpcode, Take2
    <3> QED BY <1>1, <2>4, <3>2, GroupKeeps
  <2> QED BY <2>1, <2>2, <2>3, <2>4 DEF AssetOps
<1> QED BY <1>2, <1>3

\* Every opcode: a stack of elements of at most L bytes stays one.
LEMMA OpcodeKeeps ==
  ASSUME CryptoTyped, NEW L \in Bounds, NEW s \in Seq(Elements(L)), NEW op \in Opcodes, NEW data \in Short,
         NEW i \in 1 .. NumInputs, op = "OP_DEPTH" => Len(s) <= MaxStackSize
  PROVE  OpcodeEffect(i, op, data, s) \subseteq Seq(Elements(L))
<1>1. CASE op \in PushOps
  BY <1>1, PushKeeps
<1>2. CASE op \in LockTimeOps \cup FailingOps \cup {"OP_NOP"}
  BY <1>2, SameKeeps
<1>3. CASE op \in VerifyOps
  BY <1>3, VerifyKeeps
<1>4. CASE op \in NumericOps
  BY <1>4, NumericKeeps
<1>5. CASE op \in {"OP_NUM2BIN", "OP_BIN2NUM"}
  BY <1>5, ConversionKeeps
<1>6. CASE op \in StackOps
  BY <1>6, StackKeeps
<1>7. CASE op \in SpliceOps
  BY <1>7, SpliceKeeps
<1>8. CASE op \in BitwiseOps
  BY <1>8, BitwiseKeeps
<1>9. CASE op \in HashOps
  BY <1>9, HashKeeps
<1>10. CASE op \in StreamOps
  BY <1>10, StreamKeeps
<1>11. CASE op \in SignatureOps
  BY <1>11, SignatureKeeps
<1>12. CASE op \in CurveOps
  BY <1>12, CurveKeeps
<1>13. CASE op \in InputOps
  BY <1>13, InputKeeps
<1>14. CASE op \in TxOps
  BY <1>14, TxKeeps
<1>15. CASE op \in PacketOps
  BY <1>15, PacketKeeps
<1>16. CASE op \in AssetOps
  BY <1>16, AssetKeeps
<1> QED BY <1>1, <1>2, <1>3, <1>4, <1>5, <1>6, <1>7, <1>8, <1>9, <1>10, <1>11, <1>12, <1>13, <1>14, <1>15, <1>16 DEF Opcodes

-----------------------------------------------------------------------------
(***************************************************************************)
(* The longest element bounds every element, and is bounded by what does.  *)
(***************************************************************************)
Higher(m, n) == IF n > m THEN n ELSE m

LEMMA LongestIs ==
  ASSUME NEW s, Len(s) \in Nat, \A k \in 1 .. Len(s) : Len(s[k]) \in Nat
  PROVE  \E g : /\ LongestElement(s) = g[Len(s)]
                /\ g[0] = 0
                /\ \A k \in 1 .. Len(s) : g[k] = Higher(g[k - 1], Len(s[k]))
                /\ \A k \in 0 .. Len(s) : g[k] \in Nat
<1> DEFINE n == Len(s)
           size(k) == Len(s[k])
           G == [p \in (1 .. n) \X Nat |-> Higher(p[2], size(p[1]))]
<1>0. n \in Nat /\ 0 \in Nat /\ \A k \in 1 .. n : size(k) \in Nat
  OBVIOUS
<1>1. LongestElement(s) = (CHOOSE h : h = [k \in 0 .. n |-> IF k = 0 THEN 0 ELSE Higher(h[k - 1], size(k))])[n]
  BY DEF LongestElement, Higher
<1> HIDE DEF n, size
<1>2. ASSUME NEW k \in 1 .. n, NEW x \in Nat PROVE G[<<k, x>>] = Higher(x, size(k)) /\ G[<<k, x>>] \in Nat
  <2>1. G[<<k, x>>] = Higher(x, size(k))
    OBVIOUS
  <2> QED BY <1>0, <2>1 DEF Higher
<1> HIDE DEF G
<1>3. PICK f : Iterates(f, G, n, Nat, 0)
  <2>1. Steps(G, n, Nat)
    BY <1>2 DEF Steps
  <2> QED BY <1>0, <2>1, Iteration
<1> DEFINE R(h) == h = [k \in 0 .. n |-> IF k = 0 THEN 0 ELSE Higher(h[k - 1], size(k))]
<1>4. R(f)
  <2> USE DEF Iterates
  <2>1. ASSUME NEW i \in 0 .. n PROVE f[i] = IF i = 0 THEN 0 ELSE Higher(f[i - 1], size(i))
    <3>1. CASE i = 0
      BY <1>3, <3>1
    <3>2. CASE i # 0
      <4>1. i \in 1 .. n /\ i - 1 \in 0 .. n
        BY <1>0, <3>2
      <4>2. f[i - 1] \in Nat /\ f[i] = G[<<i, f[i - 1]>>]
        BY <1>3, <4>1
      <4> QED BY <1>2, <3>2, <4>1, <4>2
    <3> QED BY <3>1, <3>2
  <2> QED BY <1>3, <2>1
<1> DEFINE g == CHOOSE h : R(h)
<1>5. R(g)
  BY <1>4
<1>6. LongestElement(s) = g[n]
  BY <1>1
<1> HIDE DEF g
<1>7. g[0] = 0 /\ \A k \in 1 .. n : g[k] = Higher(g[k - 1], size(k))
  <2>1. 0 \in 0 .. n /\ \A k \in 1 .. n : k \in 0 .. n /\ k # 0
    BY <1>0
  <2> QED BY <1>5, <2>1
<1>8. \A k \in 0 .. n : g[k] \in Nat
  <2>1. \A k \in 1 .. n : g[k - 1] \in Nat => g[k] \in Nat
    BY <1>0, <1>7 DEF Higher
  <2> QED BY <1>0, <1>7, <2>1, IterationType
<1> QED BY <1>6, <1>7, <1>8 DEF n, size

LEMMA LongestAbove ==
  ASSUME NEW s \in Seq(Element)
  PROVE  LongestElement(s) \in Nat /\ \A k \in 1 .. Len(s) : Len(s[k]) <= LongestElement(s)
<1>1. Len(s) \in Nat /\ \A k \in 1 .. Len(s) : s[k] \in Element /\ Len(s[k]) \in Nat
  BY ElementLen
<1>2. PICK g : /\ LongestElement(s) = g[Len(s)]
               /\ g[0] = 0
               /\ \A k \in 1 .. Len(s) : g[k] = Higher(g[k - 1], Len(s[k]))
               /\ \A k \in 0 .. Len(s) : g[k] \in Nat
  BY <1>1, LongestIs
<1> DEFINE S == {m \in Nat : m <= Len(s) => \A j \in 1 .. m : Len(s[j]) <= g[m]}
<1>3. 0 \in S
  OBVIOUS
<1>4. ASSUME NEW m \in Nat, m \in S PROVE m + 1 \in S
  <2> SUFFICES ASSUME m + 1 <= Len(s), NEW j \in 1 .. m + 1 PROVE Len(s[j]) <= g[m + 1]
    OBVIOUS
  <2>1. m + 1 \in 1 .. Len(s) /\ (m + 1) - 1 = m /\ m \in 0 .. Len(s)
    BY <1>1
  <2>2. g[m + 1] = Higher(g[m], Len(s[m + 1])) /\ g[m] \in Nat /\ Len(s[m + 1]) \in Nat
    BY <1>1, <1>2, <2>1
  <2>3. g[m + 1] \in Nat /\ g[m] <= g[m + 1] /\ Len(s[m + 1]) <= g[m + 1]
    BY <2>2 DEF Higher
  <2>4. CASE j = m + 1
    BY <2>3, <2>4
  <2>5. CASE j # m + 1
    <3>1. j \in 1 .. m /\ j \in 1 .. Len(s)
      BY <2>1, <2>5
    <3>2. Len(s[j]) <= g[m] /\ Len(s[j]) \in Nat
      BY <1>1, <1>4, <2>1, <3>1
    <3> QED BY <2>2, <2>3, <3>2
  <2> QED BY <2>4, <2>5
<1>5. Nat \subseteq S
  <2> HIDE DEF S
  <2> QED BY <1>3, <1>4, SetInduction
<1>6. Len(s) \in S /\ Len(s) \in 0 .. Len(s)
  BY <1>1, <1>5
<1> QED BY <1>2, <1>6

LEMMA LongestBelow ==
  ASSUME NEW L \in Nat, NEW s \in Seq(Elements(L))
  PROVE  LongestElement(s) <= L
<1>1. Len(s) \in Nat /\ \A k \in 1 .. Len(s) : s[k] \in Element /\ Len(s[k]) \in Nat /\ Len(s[k]) <= L
  <2>1. \A k \in 1 .. Len(s) : s[k] \in Elements(L)
    OBVIOUS
  <2> QED BY <2>1, ElementLen DEF Elements
<1>2. PICK g : /\ LongestElement(s) = g[Len(s)]
               /\ g[0] = 0
               /\ \A k \in 1 .. Len(s) : g[k] = Higher(g[k - 1], Len(s[k]))
               /\ \A k \in 0 .. Len(s) : g[k] \in Nat
  BY <1>1, LongestIs
<1>3. ASSUME NEW k \in 1 .. Len(s), g[k - 1] \in 0 .. L PROVE g[k] \in 0 .. L
  <2>1. g[k] = Higher(g[k - 1], Len(s[k]))
    BY <1>2
  <2> QED BY <1>1, <1>3, <2>1 DEF Higher
<1>4. \A k \in 0 .. Len(s) : g[k] \in 0 .. L
  <2> DEFINE T == 0 .. L
  <2>1. g[0] \in T /\ \A k \in 1 .. Len(s) : g[k - 1] \in T => g[k] \in T
    BY <1>2, <1>3
  <2> HIDE DEF T
  <2>2. \A k \in 0 .. Len(s) : g[k] \in T
    BY <1>1, <2>1, IterationType
  <2> QED BY <2>2 DEF T
<1> QED BY <1>1, <1>2, <1>4

LEMMA LongestOfBoth ==
  ASSUME NEW s \in Seq(Element), NEW t \in Seq(Element)
  PROVE  LET L == LongestElement(s \o t)
         IN L \in Nat /\ s \in Seq(Elements(L)) /\ t \in Seq(Elements(L))
<1> DEFINE L == LongestElement(s \o t)
<1>1. s \o t \in Seq(Element)
  OBVIOUS
<1>2. L \in Nat /\ \A k \in 1 .. Len(s \o t) : Len((s \o t)[k]) <= L
  BY <1>1, LongestAbove
<1> HIDE DEF L
<1>3. ASSUME NEW k \in 1 .. Len(s) PROVE s[k] \in Elements(L)
  <2>1. k \in 1 .. Len(s \o t) /\ (s \o t)[k] = s[k] /\ s[k] \in Element
    OBVIOUS
  <2> QED BY <1>2, <2>1 DEF Elements
<1>4. ASSUME NEW k \in 1 .. Len(t) PROVE t[k] \in Elements(L)
  <2>1. Len(s) + k \in 1 .. Len(s \o t) /\ (s \o t)[Len(s) + k] = t[k] /\ t[k] \in Element
    OBVIOUS
  <2> QED BY <1>2, <2>1 DEF Elements
<1>5. s \in Seq(Elements(L)) /\ t \in Seq(Elements(L))
  BY <1>3, <1>4
<1> QED BY <1>2, <1>5, Zenon DEF L

-----------------------------------------------------------------------------
(***************************************************************************)
(* Every step keeps both stacks stacks of byte strings, none longer than   *)
(* the limit or the longest before it.                                     *)
(***************************************************************************)
\* The engine runs the opcodes of ScriptOpcodes.
RealOpcodes ==
    \A i \in 1 .. NumInputs, op \in Opcodes, data \in Element, s \in Seq(Element) :
        Effect(i, op, data, s) = OpcodeEffect(i, op, data, s)

LEMMA PopKeeps ==
  ASSUME NEW T, NEW s \in Seq(T), s # <<>>
  PROVE  Front(s) \in Seq(T) /\ Last(s) \in T
BY DEF Front, Last

LEMMA IfKeeps ==
  ASSUME NEW T, dstack \in Seq(T), NEW negate, NEW m \in If(negate)
  PROVE  m.d \in Seq(T) /\ m.a = astack
<1>1. CASE ~isBranchExecuting
  <2> DEFINE w == Append(vfExec, FALSE)
  <2>1. m = Machine(dstack, astack, Append(condStack, "Skip"), w)
    BY <1>1, Zenon DEF If
  <2> HIDE DEF w
  <2> QED BY <2>1 DEF Machine
<1>2. CASE isBranchExecuting
  <2>1. PICK b \in IfBool :
          m = Machine(Front(dstack), astack,
                      Append(condStack, IF b # negate THEN "True" ELSE "False"),
                      Append(vfExec, b # negate))
    BY <1>2 DEF If
  <2>2. dstack # <<>> /\ m.d = Front(dstack) /\ m.a = astack
    BY <2>1 DEF Machine, IfBool
  <2> QED BY <2>2, PopKeeps
<1> QED BY <1>1, <1>2

LEMMA AltKeeps ==
  ASSUME NEW T, dstack \in Seq(T), astack \in Seq(T), NEW m \in ToAlt \cup FromAlt
  PROVE  m.d \in Seq(T) /\ m.a \in Seq(T)
<1>1. CASE m \in ToAlt
  <2>1. dstack # <<>> /\ m.d = Front(dstack) /\ m.a = Append(astack, Last(dstack))
    BY <1>1 DEF ToAlt, Machine
  <2> QED BY <2>1, PopKeeps, AppendInSeq, Zenon
<1>2. CASE m \in FromAlt
  <2>1. astack # <<>> /\ m.d = Append(dstack, Last(astack)) /\ m.a = Front(astack)
    BY <1>2 DEF FromAlt, Machine
  <2> QED BY <2>1, PopKeeps, AppendInSeq, Zenon
<1> QED BY <1>1, <1>2

LEMMA ResultsKeep ==
  ASSUME RealOpcodes, CryptoTyped, NEW L \in Bounds,
         dstack \in Seq(Elements(L)), astack \in Seq(Elements(L)), input \in 1 .. NumInputs,
         NEW tok \in Tokens, Legal(tok), NEW m \in Results(tok), Fits(m)
  PROVE  m.d \in Seq(Elements(L)) /\ m.a \in Seq(Elements(L))
<1> DEFINE T == Elements(L)
           E == {Machine(d, astack, condStack, vfExec) : d \in Effect(input, tok.op, tok.data, dstack)}
<1>1. CASE Passed(tok)
  <2>1. m.d = dstack /\ m.a = astack
    BY <1>1 DEF Results, Machine
  <2> QED BY <2>1
<1>2. CASE ~Passed(tok)
  <2>1. m \in Opfunc(tok)
    BY <1>2 DEF Results
  <2>2. \/ m \in If(FALSE) \/ m \in If(TRUE) \/ m \in Else \/ m \in EndIf
        \/ m \in ToAlt \/ m \in FromAlt
        \/ /\ tok.op \notin CondOps \cup {"OP_TOALTSTACK", "OP_FROMALTSTACK"}
           /\ m \in E
    BY <2>1, Zenon DEF Opfunc, CondOps
  <2>3. CASE m \in If(FALSE) \/ m \in If(TRUE)
    <3>1. m.d \in Seq(T) /\ m.a = astack
      BY <2>3, IfKeeps
    <3> QED BY <3>1
  <2>4. CASE m \in Else \/ m \in EndIf
    <3>1. m.d = dstack /\ m.a = astack
      BY <2>4 DEF Else, EndIf, Machine
    <3> QED BY <3>1
  <2>5. CASE m \in ToAlt \/ m \in FromAlt
    BY <2>5, AltKeeps
  <2>6. CASE /\ tok.op \notin CondOps \cup {"OP_TOALTSTACK", "OP_FROMALTSTACK"}
             /\ m \in E
    <3>1. m.d \in Effect(input, tok.op, tok.data, dstack) /\ m.a = astack
      BY <2>6 DEF Machine
    <3>2. tok.op \in Opcodes /\ tok.data \in Element /\ tok.data \in Short
      BY <2>6, ScriptAssumption DEF Legal, Short
    <3>3. dstack \in Seq(Element)
      BY SeqIn
    <3>4. m.d \in OpcodeEffect(input, tok.op, tok.data, dstack)
      BY <3>1, <3>2, <3>3 DEF RealOpcodes
    <3>5. tok.op = "OP_DEPTH" => Len(dstack) <= MaxStackSize
      <4> SUFFICES ASSUME tok.op = "OP_DEPTH" PROVE Len(dstack) <= MaxStackSize
        OBVIOUS
      <4>1. m.d = Append(dstack, Encode(Depth(dstack)))
        <5>1. OpcodeEffect(input, "OP_DEPTH", tok.data, dstack) = StackOpcode("OP_DEPTH", dstack)
          BY StackDispatch DEF StackOps
        <5> QED BY <3>4, <5>1 DEF StackOpcode, Push
      <4>2. Len(m.d) = Len(dstack) + 1 /\ Len(dstack) \in Nat /\ Len(astack) \in Nat
        BY <4>1
      <4>3. Len(m.d) + Len(astack) <= MaxStackSize /\ MaxStackSize \in Nat
        BY <3>1, EngineAssumption DEF Fits
      <4> QED BY <4>2, <4>3
    <3>6. m.d \in Seq(T)
      BY <3>2, <3>4, <3>5, OpcodeKeeps
    <3> QED BY <3>1, <3>6
  <2> QED BY <2>2, <2>3, <2>4, <2>5, <2>6
<1> QED BY <1>1, <1>2

\* Both stacks, and the witness that a leaf starts from, are byte strings.
ByteStacks == dstack \in Seq(Element) /\ astack \in Seq(Element) /\ txWitness.stack \in Seq(Element)

\* What an element of the next stack may measure.
Bounded(d) ==
    \/ LongestElement(d) <= MaxScriptElementSize
    \/ LongestElement(d) <= LongestElement(dstack \o astack)

\* A token that succeeds.
LEMMA StepKeeps ==
  ASSUME RealOpcodes, CryptoTyped, TypeOK, ByteStacks, status = "running",
         NEW tok \in Tokens, Legal(tok), NEW m \in Results(tok), Fits(m)
  PROVE  m.d \in Seq(Element) /\ m.a \in Seq(Element) /\ Bounded(m.d)
<1> DEFINE M == LongestElement(dstack \o astack)
           L == Higher(MaxScriptElementSize, M)
<1>1. MaxScriptElementSize \in Nat /\ NumInputs \in Nat
  BY EngineAssumption
<1>2. M \in Nat /\ dstack \in Seq(Elements(M)) /\ astack \in Seq(Elements(M))
  BY LongestOfBoth DEF ByteStacks
<1> HIDE DEF M
<1>3. L \in Nat /\ L >= MaxScriptElementSize /\ L >= M /\ L \in {MaxScriptElementSize, M}
  BY <1>1, <1>2 DEF Higher
<1> HIDE DEF L
<1>4. L \in Bounds
  BY <1>3 DEF Bounds
<1>5. dstack \in Seq(Elements(L)) /\ astack \in Seq(Elements(L))
  <2>1. Elements(M) \subseteq Elements(L)
    <3>1. ASSUME NEW e \in Elements(M) PROVE e \in Elements(L)
      <4>1. e \in Element /\ Len(e) <= M /\ Len(e) \in Nat
        BY ElementLen DEF Elements
      <4> QED BY <1>2, <1>3, <4>1 DEF Elements
    <3> QED BY <3>1
  <2> QED BY <1>2, <2>1
<1>6. input \in 1 .. NumInputs
  BY <1>1 DEF TypeOK
<1>7. m.d \in Seq(Elements(L)) /\ m.a \in Seq(Elements(L))
  BY <1>4, <1>5, <1>6, ResultsKeep
<1>8. m.d \in Seq(Element) /\ m.a \in Seq(Element)
  BY <1>4, <1>7, SeqIn
<1>9. LongestElement(m.d) <= L
  BY <1>3, <1>7, LongestBelow
<1> QED BY <1>3, <1>8, <1>9 DEF Bounded, M

LEMMA EndedKeeps ==
  ASSUME RealOpcodes, CryptoTyped, TypeOK, ByteStacks, NEW tok \in Tokens, NEW m \in Ended(tok)
  PROVE  m.d \in Seq(Element) /\ Bounded(m.d)
<1>1. m \in Results(tok) /\ Legal(tok) /\ Fits(m) /\ status = "running"
  BY DEF Ended, InScript
<1> QED BY <1>1, StepKeeps

\* A stack that verifyWitnessProgram lets through.
LEMMA WitnessBounded ==
  ASSUME NEW w \in Seq(Element), WitnessSize(w)
  PROVE  Bounded(w)
<1>1. MaxScriptElementSize \in Nat
  BY EngineAssumption
<1>2. ASSUME NEW k \in 1 .. Len(w) PROVE w[k] \in Elements(MaxScriptElementSize)
  BY DEF WitnessSize, Elements
<1>3. w \in Seq(Elements(MaxScriptElementSize))
  BY <1>2
<1> QED BY <1>1, <1>3, LongestBelow DEF Bounded

LEMMA EmptyBounded == <<>> \in Seq(Element) /\ Bounded(<<>>)
<1>1. <<>> \in Seq(Element)
  OBVIOUS
<1>2. WitnessSize(<<>>)
  BY EngineAssumption DEF WitnessSize
<1> QED BY <1>1, <1>2, WitnessBounded

LEMMA ByteStacksInit == Init => ByteStacks
BY EmptyBounded DEF Init, ByteStacks

\* What a step leaves: stacks of byte strings, none of them too long.
StacksKept ==
    ByteStacks' /\ (status = "running" /\ input' = input => Bounded(dstack') \/ UNCHANGED dstack)

\* Every step keeps the stacks, with bounds.
LEMMA ByteStacksNext ==
  ASSUME RealOpcodes, CryptoTyped, TypeOK, ByteStacks, [Next]_vars
  PROVE  StacksKept
<1>0. <<>> \in Seq(Element)
  BY EmptyBounded
<1>1. ASSUME NEW scr, NEW sig, NEW w \in Witnesses, NEW tw \in TxWitnesses, StartInput(scr, sig, w, tw)
      PROVE  StacksKept
  <2>1. dstack' = w /\ astack' = <<>> /\ txWitness' = tw /\ status = "ready"
    BY <1>1 DEF StartInput
  <2>2. w \in Seq(Element) /\ tw.stack \in Seq(Element)
    BY ScriptAssumption
  <2> QED BY <1>0, <2>1, <2>2 DEF ByteStacks, StacksKept
<1>2. ASSUME UNCHANGED <<dstack, astack, txWitness>>
      PROVE  StacksKept
  BY <1>2 DEF ByteStacks, StacksKept
<1>3. ASSUME NEW tok \in Tokens, StepOpcode(tok)
      PROVE  StacksKept
  <2>1. PICK m \in Results(tok) : Fits(m) /\ dstack' = m.d /\ astack' = m.a
    BY <1>3, Zenon DEF StepOpcode
  <2>2. status = "running" /\ Legal(tok) /\ txWitness' = txWitness
    BY <1>3, Zenon DEF StepOpcode, InScript, context
  <2> QED BY <2>1, <2>2, StepKeeps, Zenon DEF ByteStacks, StacksKept
<1>4. ASSUME NEW d, Restart(d), d \in Seq(Element), Bounded(d), txWitness' = txWitness
      PROVE  StacksKept
  <2>1. dstack' = d /\ astack' = <<>>
    BY <1>4 DEF Restart
  <2> QED BY <1>0, <1>4, <2>1, Zenon DEF ByteStacks, StacksKept
<1>5. ASSUME NEW tok \in Tokens, EndSigScript(tok)
      PROVE  StacksKept
  <2>1. PICK m \in Ended(tok) : Restart(m.d)
    BY <1>5, Zenon DEF EndSigScript
  <2>2. txWitness' = txWitness
    BY <1>5, Zenon DEF EndSigScript, context
  <2> QED BY <1>4, <2>1, <2>2, EndedKeeps, Zenon
<1>6. ASSUME NEW tok \in Tokens, EndScripts(tok)
      PROVE  StacksKept
  <2>1. PICK m \in Ended(tok) : Restart(m.d)
    BY <1>6, Zenon DEF EndScripts, Return
  <2>2. txWitness' = txWitness
    BY <1>6, Zenon DEF EndScripts, context
  <2> QED BY <1>4, <2>1, <2>2, EndedKeeps, Zenon
<1>7. ASSUME NEW tok \in Tokens, EndProgram(tok)
      PROVE  StacksKept
  <2>1. PICK m \in Ended(tok) :
          \/ Restart(m.d)
          \/ WitnessSize(txWitness.stack) /\ Restart(txWitness.stack)
          \/ Restart(<<>>)
    BY <1>7, Zenon DEF EndProgram, Return
  <2>2. txWitness' = txWitness
    BY <1>7, Zenon DEF EndProgram, context
  <2>3. m.d \in Seq(Element) /\ Bounded(m.d)
    BY EndedKeeps
  <2>4. txWitness.stack \in Seq(Element)
    BY DEF ByteStacks
  <2>5. WitnessSize(txWitness.stack) => Bounded(txWitness.stack)
    BY <2>4, WitnessBounded
  <2>6. CASE Restart(m.d)
    BY <1>4, <2>2, <2>3, <2>6
  <2>7. CASE WitnessSize(txWitness.stack) /\ Restart(txWitness.stack)
    BY <1>4, <2>2, <2>4, <2>5, <2>7
  <2>8. CASE Restart(<<>>)
    BY <1>4, <2>2, <2>8, EmptyBounded
  <2> QED BY <2>1, <2>6, <2>7, <2>8
<1>8. ASSUME NEW why, Fail(why)
      PROVE  StacksKept
  <2>1. UNCHANGED <<dstack, astack, txWitness>>
    BY <1>8, Zenon DEF Fail, context, stacks
  <2> QED BY <1>2, <2>1, Zenon
<1>9. ASSUME NEW scr, NEW sig, NEW tw, RefuseInput(scr, sig, tw)
      PROVE  StacksKept
  BY <1>8, <1>9, Zenon DEF RefuseInput
<1>10. ASSUME NEW tok, NEW last, FailOpcode(tok, last)
      PROVE  StacksKept
  BY <1>8, <1>10, Zenon DEF FailOpcode
<1>11. CASE UNCHANGED vars
  <2>1. UNCHANGED <<dstack, astack, txWitness>>
    BY <1>11, Zenon DEF vars, context, stacks
  <2> QED BY <1>2, <2>1, Zenon
<1>12. CASE \E scr \in Scripts, sig \in SigScripts, w \in Witnesses, tw \in TxWitnesses :
             StartInput(scr, sig, w, tw) \/ RefuseInput(scr, sig, tw)
  BY <1>1, <1>9, <1>12, Zenon
<1>13. CASE \E tok \in Tokens, last \in BOOLEAN : FailOpcode(tok, last)
  BY <1>10, <1>13, Zenon
<1>14. CASE \E tok \in Tokens : StepOpcode(tok) \/ EndSigScript(tok) \/ EndScripts(tok) \/ EndProgram(tok)
  BY <1>3, <1>5, <1>6, <1>7, <1>14, Zenon
<1> QED BY <1>11, <1>12, <1>13, <1>14, Zenon DEF Next

\* An element has its size before the step as well.
LEMMA DataBounded ==
  ASSUME ByteStacks
  PROVE  LongestElement(dstack) <= LongestElement(dstack \o astack)
<1>1. LongestElement(dstack \o astack) \in Nat /\ dstack \in Seq(Elements(LongestElement(dstack \o astack)))
  BY LongestOfBoth DEF ByteStacks
<1> QED BY <1>1, LongestBelow

\* Both stacks are stacks of byte strings in every reachable state.
LEMMA MachineInductive ==
  ASSUME RealOpcodes, CryptoTyped
  PROVE  Spec => []ByteStacks
<1>1. TypeOK /\ ByteStacks /\ [Next]_vars => ByteStacks'
  BY ByteStacksNext DEF StacksKept
<1> QED BY <1>1, ByteStacksInit, TypeCorrect, PTL DEF Spec

\* In every state that the engine reaches with its real opcodes, the numeric
\* opcodes and the int64 fast path under them compute on the integers, for
\* every width of a byte, an int64 and a BigNum (NumericExact).
THEOREM NumbersExact ==
  ASSUME RealOpcodes, CryptoTyped
  PROVE  Spec => []NumericExact
<1>1. ByteStacks => NumericExact
  BY NumericExactHolds DEF ByteStacks
<1> QED BY <1>1, MachineInductive, PTL

\* There, a number has one encoding that the opcodes accept, the conversions
\* keep its value at every width, and an element has one push
\* (EncodingCanonical).
THEOREM EncodingsCanonical ==
  ASSUME RealOpcodes, CryptoTyped
  PROVE  Spec => []EncodingCanonical
<1>1. ByteStacks => EncodingCanonical
  BY EncodingCanonicalHolds DEF ByteStacks
<1> QED BY <1>1, MachineInductive, PTL

\* There, the stack opcodes do what the comments of opcode.go draw, at every
\* depth (StackTransformations).
THEOREM StackOpcodesTransform ==
  ASSUME RealOpcodes, CryptoTyped
  PROVE  Spec => []StackTransformations
<1>1. ByteStacks => StackTransformations
  BY StackTransformationsHold DEF ByteStacks
<1> QED BY <1>1, MachineInductive, PTL

\* No step of an engine with its real opcodes makes an element longer than
\* MaxScriptElementSize, or than the longest there was (ElementsStayBounded).
THEOREM ElementsBounded ==
  ASSUME RealOpcodes, CryptoTyped
  PROVE  Spec => ElementsStayBounded
<1> DEFINE Stays == status = "running" /\ input' = input =>
                       \/ LongestElement(dstack') <= MaxScriptElementSize
                       \/ LongestElement(dstack') <= LongestElement(dstack \o astack)
<1>1. TypeOK /\ ByteStacks /\ [Next]_vars => [Stays]_vars
  <2> SUFFICES ASSUME TypeOK, ByteStacks, [Next]_vars, status = "running", input' = input
               PROVE  Bounded(dstack')
    BY Zenon DEF Bounded
  <2>1. Bounded(dstack') \/ UNCHANGED dstack
    BY ByteStacksNext DEF StacksKept
  <2>2. Bounded(dstack)
    BY DataBounded DEF Bounded
  <2> QED BY <2>1, <2>2
<1> QED BY <1>1, MachineInductive, TypeCorrect, PTL DEF Spec, ElementsStayBounded

-----------------------------------------------------------------------------
(***************************************************************************)
(* The views of the asset packet.                                          *)
(***************************************************************************)
\* What a number of at most maxBigNumLen bytes is pushed as.
LEMMA FitsIfRepresentable ==
  ASSUME NEW v \in Int
  PROVE  Len(Encode(v)) <= maxBigNumLen <=> Representable(v)
<1>1. maxBigNumLen \in Nat /\ maxBigNumLen > 0 /\ maxBigNumLen - 1 \in Nat
  BY SizesAre
<1>2. Len(Encode(v)) <= maxBigNumLen <=> v = 0 \/ (maxBigNumLen > 0 /\ Magnitude(v) < SignBit * Weight(maxBigNumLen - 1))
  BY <1>1, EncodeType
<1>3. v = 0 => Number(v)
  <2>1. Number(MaxStackSize) /\ MaxStackSize \in Nat
    BY SizeAssumption, EngineAssumption
  <2> QED BY <2>1, SmallerNumber
<1> QED BY <1>1, <1>2, <1>3 DEF Representable, Number

LEMMA AmountIs ==
  ASSUME NEW x \in Nat, Number(x)
  PROVE  PushAmount(x) = {Encode(x)}
<1>1. BigNumFromUint64(x).val = x /\ x \in Int
  BY DEF BigNumFromUint64, Small, Big
<1>2. Len(Encode(x)) <= maxBigNumLen
  BY <1>1, FitsIfRepresentable DEF Number
<1> QED BY <1>1, <1>2 DEF PushAmount, BigNumBytes

\* Two assets are pushed as the same two elements only if they are the same.
LEMMA PushIDInjective ==
  ASSUME NEW a, NEW b, AssetIDType(a), AssetIDType(b)
  PROVE  PushID(a) = PushID(b) <=> a = b
<1>1. /\ a = [txid |-> a.txid, index |-> a.index] /\ a.index \in Int
      /\ b = [txid |-> b.txid, index |-> b.index] /\ b.index \in Int
  BY DEF AssetIDType
<1>2. ASSUME PushID(a) = PushID(b) PROVE a = b
  <2>1. a.txid = b.txid /\ Encode(a.index) = Encode(b.index)
    BY <1>2 DEF PushID
  <2>2. a.index = b.index
    BY <1>1, <2>1, DecodeEncode
  <2> QED BY <1>1, <2>1, <2>2
<1> QED BY <1>2

\* Where every group resolves, an entry shows its asset and its amount.
View(source, at, t) ==
    LET e == EntriesAt(source, at)[t + 1]
    IN <<IDOf(e.group).txid, Encode(IDOf(e.group).index), Encode(e.amount)>>

LEMMA GroupResolves ==
  ASSUME AllResolve(Len(Groups) - 1), NEW k \in 0 .. Len(Groups) - 1
  PROVE  AllResolve(k) /\ ResolveAssetID(k) # {} /\ AssetIDType(IDOf(k))
<1>1. Len(Groups) \in Nat /\ k \in Nat /\ k < Len(Groups)
  BY GroupsAre
<1>2. \A j \in 0 .. k : j \in 0 .. Len(Groups) - 1
  BY <1>1
<1>3. AllResolve(k) /\ ResolveAssetID(k) # {}
  BY <1>2 DEF AllResolve
<1> QED BY <1>1, <1>3, IDOfType

\* The entry that an index shows.
LEMMA EntryIs ==
  ASSUME AllResolve(Len(Groups) - 1), NEW source \in {0, 1}, NEW at, NEW t \in Nat
  PROVE  /\ t < Len(EntriesAt(source, at)) => AssetAt(source, at, t) = {View(source, at, t)}
         /\ t >= Len(EntriesAt(source, at)) => AssetAt(source, at, t) = {}
<1> DEFINE list == EntriesAt(source, at)
           e == list[t + 1]
           g == e.group
<1>1. list \in Seq(Listed) /\ Len(list) \in Nat
  BY EntriesAtType
<1>2. CASE t >= Len(list)
  <2>1. AssetAt(source, at, t) = {}
    BY <1>2 DEF AssetAt
  <2> QED BY <1>1, <1>2, <2>1
<1>3. CASE t < Len(list)
  <2>1. t + 1 \in 1 .. Len(list) /\ ~(t < 0 \/ t >= Len(list))
    BY <1>1, <1>3
  <2>2. e \in Listed
    <3> HIDE DEF list
    <3> QED BY <1>1, <2>1
  <2>3. g \in 0 .. Len(Groups) - 1 /\ e.amount \in Nat /\ Number(e.amount)
    <3> HIDE DEF e
    <3> QED BY <2>2 DEF Listed
  <2>4. AllResolve(g)
    BY <2>3, GroupResolves
  <2>5. AssetAt(source, at, t) = {Append(PushID(IDOf(g)), a) : a \in PushAmount(e.amount)}
    BY <2>1, <2>4 DEF AssetAt
  <2>6. PushAmount(e.amount) = {Encode(e.amount)}
    BY <2>3, AmountIs
  <2> DEFINE x == IDOf(g).txid
             y == Encode(IDOf(g).index)
             z == Encode(e.amount)
  <2>7. PushID(IDOf(g)) = <<x, y>> /\ View(source, at, t) = <<x, y, z>>
    BY DEF PushID, View
  <2> HIDE DEF x, y, z, e, g
  <2>8. Append(<<x, y>>, z) = <<x, y, z>>
    BY TripleIs
  <2>9. AssetAt(source, at, t) = {View(source, at, t)}
    BY <2>5, <2>6, <2>7, <2>8 DEF z
  <2> QED BY <1>1, <1>3, <2>9
<1> QED BY <1>1, <1>2, <1>3

\* An entry shows an id only if it is its group's.
LEMMA HoldsIs ==
  ASSUME AllResolve(Len(Groups) - 1), NEW source \in {0, 1}, NEW at, NEW t \in Nat, NEW id, AssetIDType(id)
  PROVE  (\E r \in AssetAt(source, at, t) : SubSeq(r, 1, 2) = PushID(id))
            <=> t < Len(EntriesAt(source, at)) /\ IDOf(EntriesAt(source, at)[t + 1].group) = id
<1> DEFINE list == EntriesAt(source, at)
           g == list[t + 1].group
<1>1. list \in Seq(Listed) /\ Len(list) \in Nat
  BY EntriesAtType
<1>2. CASE ~(t < Len(list))
  <2>1. AssetAt(source, at, t) = {}
    BY <1>1, <1>2, EntryIs
  <2> QED BY <1>2, <2>1
<1>3. CASE t < Len(list)
  <2>1. AssetAt(source, at, t) = {View(source, at, t)}
    BY <1>3, EntryIs
  <2>2. list[t + 1] \in Listed
    <3> HIDE DEF list
    <3> QED BY <1>1, <1>3
  <2>3. g \in 0 .. Len(Groups) - 1
    <3> DEFINE e == list[t + 1]
    <3> HIDE DEF e
    <3>1. e.group \in 0 .. Len(Groups) - 1
      BY <2>2 DEF Listed, e
    <3> QED BY <3>1 DEF e
  <2>4. AssetIDType(IDOf(g))
    BY <2>3, GroupResolves
  <2> DEFINE x == IDOf(g).txid
             y == Encode(IDOf(g).index)
             z == Encode(list[t + 1].amount)
  <2>5. PushID(IDOf(g)) = <<x, y>> /\ View(source, at, t) = <<x, y, z>>
    BY DEF PushID, View
  <2> HIDE DEF x, y, z
  <2>6. SubSeq(<<x, y, z>>, 1, 2) = <<x, y>>
    BY TripleIs
  <2>7. SubSeq(View(source, at, t), 1, 2) = PushID(IDOf(g))
    BY <2>5, <2>6
  <2>8. PushID(IDOf(g)) = PushID(id) <=> IDOf(g) = id
    BY <2>4, PushIDInjective
  <2> QED BY <1>3, <2>1, <2>7, <2>8
<1> QED BY <1>2, <1>3

LEMMA FlagsAre == Encode(0) = <<>> /\ Encode(1) = <<1>>
<1>1. 1 \in 1 .. SmallIntMax
  BY WidthAssumption
<1> QED BY <1>1, SmallEncode DEF Encode

\* The lookup finds the asset at the first entry that shows it.
LEMMA LookupIs ==
  ASSUME AllResolve(Len(Groups) - 1), NEW source \in {0, 1}, NEW at, NEW id, AssetIDType(id)
  PROVE  LET at0 == {t \in 0 .. Len(EntriesAt(source, at)) :
                        \E r \in AssetAt(source, at, t) : SubSeq(r, 1, 2) = PushID(id)}
         IN AssetLookup(source, at, id) =
               IF at0 = {} THEN {<< <<>>, <<>> >>}
               ELSE {<<r[3], <<1>> >> : r \in AssetAt(source, at, CHOOSE t \in at0 : \A u \in at0 : t <= u)}
<1> DEFINE list == EntriesAt(source, at)
           held(n) == IDOf(list[n].group)
           at0 == {t \in 0 .. Len(list) : \E r \in AssetAt(source, at, t) : SubSeq(r, 1, 2) = PushID(id)}
           hits == {n \in 1 .. Len(list) : AllResolve(list[n].group) /\ held(n) = id}
           c == CHOOSE t \in at0 : \A u \in at0 : t <= u
           h == CHOOSE n \in hits : \A m \in hits : n <= m
<1>1. list \in Seq(Listed) /\ Len(list) \in Nat
  BY EntriesAtType
<1>2. AssetLookup(source, at, id) =
        IF hits # {} THEN {<<a, Encode(1)>> : a \in PushAmount(list[h].amount)}
        ELSE IF AllResolve(Len(Groups) - 1) THEN {<<Encode(0), Encode(0)>>} ELSE {}
  BY DEF AssetLookup
<1>3. \A t \in Nat : t \in at0 <=> t < Len(list) /\ held(t + 1) = id
  <2> SUFFICES ASSUME NEW t \in Nat PROVE t \in at0 <=> t < Len(list) /\ held(t + 1) = id
    OBVIOUS
  <2>1. (\E r \in AssetAt(source, at, t) : SubSeq(r, 1, 2) = PushID(id)) <=> t < Len(list) /\ held(t + 1) = id
    BY HoldsIs
  <2>2. t < Len(list) => t \in 0 .. Len(list)
    BY <1>1
  <2> QED BY <2>1, <2>2
<1>4. \A n \in 1 .. Len(list) : /\ AllResolve(list[n].group)
                                /\ list[n].amount \in Nat /\ Number(list[n].amount)
  <2> SUFFICES ASSUME NEW n \in 1 .. Len(list)
               PROVE  AllResolve(list[n].group) /\ list[n].amount \in Nat /\ Number(list[n].amount)
    OBVIOUS
  <2> DEFINE e == list[n]
  <2> HIDE DEF list
  <2>1. e \in Listed
    BY <1>1
  <2> HIDE DEF e
  <2>2. e.group \in 0 .. Len(Groups) - 1 /\ e.amount \in Nat /\ Number(e.amount)
    BY <2>1 DEF Listed
  <2>3. AllResolve(e.group)
    BY <2>2, GroupResolves
  <2> QED BY <2>2, <2>3 DEF e
<1>5. \A n \in Nat : n \in hits <=> n \in 1 .. Len(list) /\ held(n) = id
  BY <1>4
<1>6. at0 \in SUBSET Nat /\ hits \in SUBSET Nat
  BY <1>1
<1> HIDE DEF list, held, at0, hits
<1>7. \A t \in Nat : t \in at0 <=> t + 1 \in hits
  BY <1>1, <1>3, <1>5
<1>8. \A n \in hits : n \in Nat /\ n >= 1 /\ n - 1 \in at0
  <2> SUFFICES ASSUME NEW n \in hits PROVE n \in Nat /\ n >= 1 /\ n - 1 \in at0
    OBVIOUS
  <2>1. n \in Nat /\ n \in 1 .. Len(list)
    BY <1>5, <1>6
  <2>2. n - 1 \in Nat /\ (n - 1) + 1 = n /\ n >= 1
    BY <1>1, <2>1
  <2> QED BY <1>7, <2>1, <2>2
<1> DEFINE found == {<<r[3], <<1>> >> : r \in AssetAt(source, at, c)}
<1>9. AssetLookup(source, at, id) = IF at0 = {} THEN {<< <<>>, <<>> >>} ELSE found
  <2>1. CASE at0 = {}
    <3>1. hits = {}
      BY <1>8, <2>1
    <3>2. AssetLookup(source, at, id) = {<<Encode(0), Encode(0)>>}
      BY <1>2, <3>1
    <3> QED BY <2>1, <3>2, FlagsAre
  <2>2. CASE at0 # {}
    <3>1. c \in at0 /\ \A u \in at0 : c <= u
      BY <1>6, <2>2, LeastIs
    <3>2. hits # {}
      BY <1>6, <1>7, <2>2
    <3>3. h \in hits /\ \A m \in hits : h <= m
      BY <1>6, <3>2, LeastIs
    <3> HIDE DEF c, h
    <3>4. h = c + 1 /\ c \in Nat
      <4>1. c \in Nat /\ c + 1 \in hits /\ h <= c + 1
        BY <1>6, <1>7, <3>1, <3>3
      <4>2. h \in Nat /\ h - 1 \in at0 /\ c <= h - 1
        BY <1>8, <3>1, <3>3
      <4> QED BY <4>1, <4>2
    <3>5. c < Len(list) /\ h \in 1 .. Len(list)
      BY <1>3, <1>5, <3>1, <3>3, <3>4
    <3>6. AssetAt(source, at, c) = {View(source, at, c)}
      BY <3>4, <3>5, EntryIs DEF list
    <3>7. View(source, at, c)[3] = Encode(list[h].amount)
      BY <3>4 DEF View, list
    <3>8. PushAmount(list[h].amount) = {Encode(list[h].amount)}
      BY <1>4, <3>5, AmountIs
    <3>9. found = {<<Encode(list[h].amount), <<1>> >>}
      BY <3>6, <3>7
    <3>10. AssetLookup(source, at, id) = {<<Encode(list[h].amount), Encode(1)>>}
      BY <1>2, <3>2, <3>8 DEF h
    <3> QED BY <2>2, <3>9, <3>10, FlagsAre
  <2> QED BY <2>1, <2>2
<1> QED BY <1>9 DEF at0, list

LEMMA FoundInOwnGroup ==
  ASSUME AssetsDistinct, NEW k \in 0 .. Len(Groups) - 1
  PROVE  FindGroup(IDOf(k)) = {<<Encode(k), <<1>> >>}
<1> DEFINE hits == {j \in 0 .. Len(Groups) - 1 : AllResolve(j) /\ IDOf(j) = IDOf(k)}
<1>1. hits = {k}
  BY GroupResolves DEF AssetsDistinct
<1>2. FindGroup(IDOf(k)) = {<<Encode(CHOOSE j \in hits : \A m \in hits : j <= m), Encode(1)>>}
  BY <1>1 DEF FindGroup
<1> HIDE DEF hits
<1>3. (CHOOSE j \in hits : \A m \in hits : j <= m) = k
  <2>1. k \in Nat /\ hits \in SUBSET Nat /\ hits # {}
    BY <1>1
  <2> QED BY <1>1, <2>1, LeastIs
<1> QED BY <1>2, <1>3, FlagsAre

\* The loop's sum is the number of units that the entries hold.
LEMMA SumIsTotal ==
  ASSUME NEW entries, Len(entries) \in Nat, \A n \in 1 .. Len(entries) : entries[n].amount \in Nat
  PROVE  AmountSum(entries) = Total(entries) /\ Total(entries) \in Nat
<1> DEFINE n == Len(entries)
           f == [i \in 1 .. n |-> entries[i].amount]
<1>0. n \in Nat /\ f \in [1 .. n -> Nat] /\ Total(entries) = SumOver(f, 1 .. n)
  BY DEF Total
<1>1. PICK g : /\ AmountSum(entries) = g[n]
               /\ g[0] = 0
               /\ \A k \in 1 .. n : g[k] = g[k - 1] + entries[k].amount
               /\ \A k \in 0 .. n : g[k] \in Nat
  BY AmountSumIs
<1>2. \A k \in 1 .. n : g[k] = g[k - 1] + f[k]
  BY <1>1
<1> HIDE DEF f, n
<1> DEFINE S == {m \in Nat : m <= n => IsFiniteSet(Sats(f, 1 .. m)) /\ SumOver(f, 1 .. m) = g[m]}
<1>3. 0 \in S
  <2>1. 1 .. 0 = {}
    OBVIOUS
  <2> QED BY <1>1, <2>1, SumEmpty
<1>4. ASSUME NEW m \in Nat, m \in S PROVE m + 1 \in S
  <2> SUFFICES ASSUME m + 1 <= n
               PROVE  IsFiniteSet(Sats(f, 1 .. m + 1)) /\ SumOver(f, 1 .. m + 1) = g[m + 1]
    OBVIOUS
  <2>1. m <= n /\ m + 1 \in 1 .. n /\ (m + 1) - 1 = m
    BY <1>0
  <2>2. IsFiniteSet(Sats(f, 1 .. m)) /\ SumOver(f, 1 .. m) = g[m] /\ f[m + 1] \in Nat /\ g[m + 1] = g[m] + f[m + 1]
    BY <1>0, <1>2, <1>4, <2>1
  <2>3. 1 .. m + 1 = (1 .. m) \cup {m + 1} /\ m + 1 \notin 1 .. m
    OBVIOUS
  <2>4. /\ IsFiniteSet(Sats(f, (1 .. m) \cup {m + 1}))
        /\ SumOver(f, (1 .. m) \cup {m + 1}) = SumOver(f, 1 .. m) + f[m + 1]
    <3> DEFINE K == 1 .. m
               k == m + 1
    <3>1. k \notin K /\ f[k] \in Nat /\ IsFiniteSet(Sats(f, K))
      BY <2>2, <2>3
    <3> HIDE DEF K, k
    <3>2. IsFiniteSet(Sats(f, K \cup {k})) /\ SumOver(f, K \cup {k}) = SumOver(f, K) + f[k]
      BY <3>1, SumOneMore
    <3> QED BY <3>2, Zenon DEF K, k
  <2> QED BY <2>2, <2>3, <2>4
<1>5. Nat \subseteq S
  <2> HIDE DEF S
  <2> QED BY <1>3, <1>4, SetInduction
<1>6. SumOver(f, 1 .. n) = g[n] /\ g[n] \in Nat
  BY <1>0, <1>1, <1>5
<1> QED BY <1>0, <1>1, <1>6

\* The sum of a side is the total or fails.
LEMMA GroupSumIs ==
  ASSUME NEW k \in 0 .. Len(Groups) - 1, NEW source \in {0, 1}
  PROVE  Sum(Side(k, source)) = {Encode(v) : v \in {w \in {Total(Side(k, source))} : Representable(w)}}
<1> DEFINE e == Side(k, source)
           x == AmountSum(e)
<1>1. k \in Nat /\ k < Len(Groups)
  BY GroupsAre
<1>2. Len(e) \in Nat /\ \A n \in 1 .. Len(e) : e[n].amount \in Nat
  BY <1>1, SideIs
<1>3. x = Total(e) /\ x \in Int
  BY <1>2, SumIsTotal
<1>4. Sum(e) = IF Len(Encode(x)) <= maxBigNumLen THEN {Encode(x)} ELSE {}
  BY DEF Sum, BigNumBytes, Big
<1> HIDE DEF e, x
<1>5. Len(Encode(x)) <= maxBigNumLen <=> Representable(x)
  BY <1>3, FitsIfRepresentable
<1>6. Sum(e) = {Encode(v) : v \in {w \in {x} : Representable(w)}}
  BY <1>4, <1>5
<1> QED BY <1>3, <1>6 DEF e

LEMMA AssetViewsHold == AssetViewsAgree
<1> SUFFICES ASSUME AssetsDistinct, NEW source \in {0, 1},
                    NEW at \in (0 .. Len(Tx.ins)) \cup (0 .. Len(Tx.outs))
             PROVE  LET count == Len(EntriesAt(source, at))
                        entry(t) == AssetAt(source, at, t)
                        holds(t, id) == \E r \in entry(t) : SubSeq(r, 1, 2) = PushID(id)
                        ids == {IDOf(k) : k \in 0 .. Len(Groups) - 1} \cup
                               {[txid |-> Tx.txid, index |-> maxAssetGroupIndex]}
                    IN /\ count = Cardinality(Places(source, at))
                       /\ \A t \in 0 .. count : entry(t) # {} <=> t < count
                       /\ \A id \in ids :
                             LET at0 == {t \in 0 .. count : holds(t, id)}
                             IN AssetLookup(source, at, id) =
                                   IF at0 = {} THEN {<< <<>>, <<>> >>}
                                   ELSE {<<r[3], <<1>> >> :
                                            r \in entry(CHOOSE t \in at0 : \A u \in at0 : t <= u)}
                       /\ \A k \in 0 .. Len(Groups) - 1 :
                             /\ FindGroup(IDOf(k)) = {<<Encode(k), <<1>> >>}
                             /\ Sum(Side(k, source)) =
                                   {Encode(v) : v \in {w \in {Total(Side(k, source))} : Representable(w)}}
  BY Zenon DEF AssetViewsAgree
<1> DEFINE count == Len(EntriesAt(source, at))
           ids == {IDOf(k) : k \in 0 .. Len(Groups) - 1} \cup
                  {[txid |-> Tx.txid, index |-> maxAssetGroupIndex]}
<1>1. AllResolve(Len(Groups) - 1)
  BY DEF AssetsDistinct
<1>2. count = Cardinality(Places(source, at)) /\ count \in Nat
  <2>1. EntriesAt(source, at) \in Seq(Listed)
        /\ Len(EntriesAt(source, at)) = Cardinality(PlacesOf(source, at, Len(Groups)))
    BY EntriesAtType
  <2>2. PlacesOf(source, at, Len(Groups)) = Places(source, at)
    BY Zenon DEF PlacesOf, Places
  <2> QED BY <2>1, <2>2
<1>3. ASSUME NEW t \in 0 .. count PROVE AssetAt(source, at, t) # {} <=> t < count
  <2>1. t \in Nat
    OBVIOUS
  <2>2. CASE t < count
    <3>1. AssetAt(source, at, t) = {View(source, at, t)}
      BY <1>1, <2>1, <2>2, EntryIs
    <3> QED BY <2>2, <3>1
  <2>3. CASE ~(t < count)
    <3>1. AssetAt(source, at, t) = {}
      BY <1>1, <1>2, <2>1, <2>3, EntryIs
    <3> QED BY <2>3, <3>1
  <2> QED BY <2>2, <2>3
<1>4. ASSUME NEW id \in ids PROVE AssetIDType(id)
  <2>1. CASE id = [txid |-> Tx.txid, index |-> maxAssetGroupIndex]
    BY <2>1, TxAssumption, SizeAssumption DEF AssetIDType
  <2>2. CASE \E k \in 0 .. Len(Groups) - 1 : id = IDOf(k)
    BY <1>1, <2>2, GroupResolves
  <2> QED BY <2>1, <2>2
<1>5. ASSUME NEW k \in 0 .. Len(Groups) - 1
      PROVE  /\ FindGroup(IDOf(k)) = {<<Encode(k), <<1>> >>}
             /\ Sum(Side(k, source)) = {Encode(v) : v \in {w \in {Total(Side(k, source))} : Representable(w)}}
  BY FoundInOwnGroup, GroupSumIs
<1>6. ASSUME NEW id \in ids
      PROVE  LET at0 == {t \in 0 .. count : \E r \in AssetAt(source, at, t) : SubSeq(r, 1, 2) = PushID(id)}
             IN AssetLookup(source, at, id) =
                   IF at0 = {} THEN {<< <<>>, <<>> >>}
                   ELSE {<<r[3], <<1>> >> : r \in AssetAt(source, at, CHOOSE t \in at0 : \A u \in at0 : t <= u)}
  BY <1>1, <1>4, LookupIs, Zenon
<1> QED BY <1>2, <1>3, <1>5, <1>6, Zenon

\* The views of the asset packet that the opcodes give a script agree, for
\* every packet (AssetViewsAgree).
THEOREM AssetViewsCorrect == Spec => []AssetViewsAgree
BY AssetViewsHold, PTL
=============================================================================
