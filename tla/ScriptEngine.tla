---------------------------- MODULE ScriptEngine ----------------------------
(***************************************************************************)
(* The Arkade script virtual machine (engine.go, compute_limits.go and     *)
(* ArkadeScript.Execute of script.go): one request runs the scripts of its *)
(* inputs in turn, each on an engine of its own, under one ComputeBudget.  *)
(*                                                                         *)
(* A script is chosen as it runs: each step takes any token and whether it *)
(* is the last of its script.  Effect(i, op, data, s) is the set of stacks *)
(* that opcode op leaves of s (empty on an error): what this module states *)
(* holds for every set of opcodes.  ScriptOpcodes defines the real ones.   *)
(***************************************************************************)
EXTENDS ScriptNum, OutflowSum

CONSTANTS
    Effect(_, _, _, _),
    Tokens,                    \* [op, data]: what a script may hold
    ProgramScript,             \* the tokens of a witness program's script
    Scripts,                   \* subset of {"empty", "plain", "program"}
    SigScripts,                \* subset of BOOLEAN: is there a signature script?
    Witnesses,                 \* witness stacks of the emulator packet
    TxWitnesses,               \* [kind, stack]: witnesses of the spending transaction
    limits,                    \* ComputeLimits: opcode -> cap per input
    requestInputBudget,        \* 4
    MaxInt,                    \* math.MaxInt
    MaxStackSize, MaxScriptElementSize, maxCombinedStackByteSize,
    DirectMax, PushData1Max, PushData2Max,   \* 75, 255, 65535
    NumInputs,                 \* bound: scripts in a request
    MaxOps                     \* bound: tokens in a script

ASSUME EngineAssumption ==
    /\ limits \in [DOMAIN limits -> 0 .. MaxInt]
    /\ requestInputBudget \in Nat \ {0}
    /\ MaxInt \in Nat
    /\ NumInputs \in Nat \ {0}
    /\ MaxOps \in Nat \ {0}
    /\ MaxStackSize \in Nat /\ MaxScriptElementSize \in Nat

\* Each push opcode takes longer data than the one before it, and the longest
\* element has one.
ASSUME PushSizes ==
    /\ DirectMax \in Nat \ {0} /\ PushData1Max \in Nat /\ PushData2Max \in Nat
    /\ DirectMax <= PushData1Max /\ PushData1Max <= PushData2Max
    /\ MaxScriptElementSize <= PushData2Max

VARIABLES
    status,      \* "ready" for the next input, "running", "accepted", "failed"
    failure,     \* [cause, op]: why the request failed
    input,       \* the input being executed, 0 before the first
    script,      \* what scripts[1] is
    txWitness,   \* the input's own witness
    scriptIdx, opcodeIdx,
    dstack, astack,
    condStack,
    opCounts,    \* per input
    mustSucceed,
    reqCounts,   \* of the shared ComputeBudget
    vfExec,      \* history: the condition of each open block, as consensus keeps it
    work         \* history: executions of each limited opcode by each input

stacks == <<dstack, astack, condStack, vfExec>>
counters == <<opCounts, reqCounts, work>>
context == <<input, script, txWitness>>
vars == <<status, failure, context, scriptIdx, opcodeIdx, stacks, counters, mustSucceed>>

Limited == DOMAIN limits
OpCond == {"True", "False", "Skip"}
CondOps == {"OP_IF", "OP_NOTIF", "OP_ELSE", "OP_ENDIF"}
PushDataOps == {"OP_0", "OP_DATA", "OP_PUSHDATA1", "OP_PUSHDATA2", "OP_PUSHDATA4"}
PushOnlyOps == PushDataOps \cup {"OP_1NEGATE", "OP_RESERVED"} \cup SmallIntOps

\* The default table limits no push opcode, and no override is expected to.
ASSUME PushesUnlimited == Limited \cap PushOnlyOps = {}

\* A witness program is a version opcode and one push.
ASSUME ProgramAssumption ==
    /\ Len(ProgramScript) \in Nat \ {0}
    /\ \A i \in 1 .. Len(ProgramScript) : ProgramScript[i].op \in PushOnlyOps

\* Mutant: the aggregate cap is one input's worth.
OneInputBudget(op) == limits[op]

\* AggregateComputeLimits: scaled, never wrapping around.
RequestLimit(op) ==
    IF limits[op] > MaxInt \div requestInputBudget THEN MaxInt
    ELSE limits[op] * requestInputBudget

-----------------------------------------------------------------------------
(***************************************************************************)
(* What one opcode does.                                                   *)
(***************************************************************************)
isBranchExecuting == condStack = <<>> \/ condStack[Len(condStack)] = "True"

\* isOpcodeAlwaysIllegal, and the size of a push
Legal(tok) == tok.op \notin {"OP_VERIF", "OP_VERNOTIF"} /\ Len(tok.data) <= MaxScriptElementSize

\* Passed over in a branch that does not execute.
Passed(tok) == ~isBranchExecuting /\ tok.op \notin CondOps

\* checkMinimalDataPush; no push opcode up to OP_PUSHDATA4 is minimal for -1
\* or a number that has an opcode of its own.
checkMinimalDataPush(op, data) ==
    /\ Len(data) = 0 => op = "OP_0"
    /\ Len(data) = 1 => data[1] \notin (1 .. SmallIntMax) \cup {SignBit + 1}
    /\ Len(data) \in 1 .. DirectMax => op = "OP_DATA"
    /\ Len(data) \in DirectMax + 1 .. PushData1Max => op = "OP_PUSHDATA1"
    /\ Len(data) \in PushData1Max + 1 .. PushData2Max => op = "OP_PUSHDATA2"

Minimal(tok) == isBranchExecuting /\ tok.op \in PushDataOps => checkMinimalDataPush(tok.op, tok.data)

\* chargeOpcode: the input's own cap first, then the request's.
Charged(counts, op) == [o \in Limited |-> IF o = op THEN counts[o] + 1 ELSE counts[o]]

OverLimit(op) == op \in Limited /\ opCounts[op] + 1 > limits[op]

\* Mutant: each input is charged to a budget of its own.
BudgetPerInput(op) == FALSE

OverBudget(op) == op \in Limited /\ ~OverLimit(op) /\ reqCounts[op] + 1 > RequestLimit(op)

Front(s) == SubSeq(s, 1, Len(s) - 1)
Last(s) == s[Len(s)]
Machine(d, a, c, v) == [d |-> d, a |-> a, c |-> c, v |-> v]

\* popIfBool: the minimal-if rule
IfBool == IF dstack # <<>> /\ Last(dstack) \in {<<>>, <<1>>} THEN {AsBool(Last(dstack))} ELSE {}

\* Mutant: a nested conditional opens a block of its own value.
NestedIfAsFalse(negate) ==
    IF ~isBranchExecuting
    THEN {Machine(dstack, astack, Append(condStack, "False"), Append(vfExec, FALSE))}
    ELSE {Machine(Front(dstack), astack,
                  Append(condStack, IF b # negate THEN "True" ELSE "False"),
                  Append(vfExec, b # negate)) : b \in IfBool}

\* opcodeIf and opcodeNotIf
If(negate) ==
    IF ~isBranchExecuting
    THEN {Machine(dstack, astack, Append(condStack, "Skip"), Append(vfExec, FALSE))}
    ELSE {Machine(Front(dstack), astack,
                  Append(condStack, IF b # negate THEN "True" ELSE "False"),
                  Append(vfExec, b # negate)) : b \in IfBool}

\* opcodeElse
InverseCond(c) == CASE c = "True" -> "False" [] c = "False" -> "True" [] OTHER -> "Skip"
Else ==
    IF condStack = <<>> THEN {}
    ELSE {Machine(dstack, astack, Append(Front(condStack), InverseCond(Last(condStack))),
                  Append(Front(vfExec), ~Last(vfExec)))}

\* opcodeEndif
EndIf == IF condStack = <<>> THEN {}
         ELSE {Machine(dstack, astack, Front(condStack), Front(vfExec))}

\* opcodeToAltStack and opcodeFromAltStack
ToAlt == IF dstack = <<>> THEN {}
         ELSE {Machine(Front(dstack), Append(astack, Last(dstack)), condStack, vfExec)}
FromAlt == IF astack = <<>> THEN {}
           ELSE {Machine(Append(dstack, Last(astack)), Front(astack), condStack, vfExec)}

Opfunc(tok) ==
    CASE tok.op = "OP_IF" -> If(FALSE)
      [] tok.op = "OP_NOTIF" -> If(TRUE)
      [] tok.op = "OP_ELSE" -> Else
      [] tok.op = "OP_ENDIF" -> EndIf
      [] tok.op = "OP_TOALTSTACK" -> ToAlt
      [] tok.op = "OP_FROMALTSTACK" -> FromAlt
      [] OTHER -> {Machine(d, astack, condStack, vfExec) : d \in Effect(input, tok.op, tok.data, dstack)}

\* The rest of executeOpcode.
Results(tok) ==
    IF Passed(tok) THEN {Machine(dstack, astack, condStack, vfExec)}
    ELSE IF ~Minimal(tok) \/ OverLimit(tok.op) \/ OverBudget(tok.op) THEN {}
    ELSE Opfunc(tok)

\* stackByteSize
ByteSize(s) == LET size[n \in 0 .. Len(s)] == IF n = 0 THEN 0 ELSE size[n - 1] + Len(s[n])
               IN size[Len(s)]
Fits(m) == /\ Len(m.d) + Len(m.a) <= MaxStackSize
           /\ ByteSize(m.d) + ByteSize(m.a) <= maxCombinedStackByteSize

-----------------------------------------------------------------------------
(***************************************************************************)
(* Starting an input.                                                      *)
(***************************************************************************)
NoCounts == [op \in Limited |-> 0]

\* NewEngine's refusals
Refused(scr, sig, tw) ==
    \/ scr = "empty" /\ ~sig
    \/ scr = "program" /\ sig
    \/ scr # "program" /\ tw.kind # "none"

\* ArkadeScript.Execute up to engine.Execute: NewEngine, a fresh context, and
\* the packet's witness as the stack.
StartInput(scr, sig, witness, tw) ==
    /\ status = "ready" /\ input < NumInputs
    /\ ~Refused(scr, sig, tw)
    /\ status' = "running"
    /\ input' = input + 1 /\ script' = scr /\ txWitness' = tw
    /\ scriptIdx' = IF sig THEN 0 ELSE 1
    /\ opcodeIdx' = 0
    /\ dstack' = witness /\ astack' = <<>> /\ condStack' = <<>> /\ vfExec' = <<>>
    /\ opCounts' = NoCounts
    /\ mustSucceed' = FALSE
    /\ UNCHANGED <<failure, reqCounts, work>>

NoFailure == [cause |-> "none", op |-> "none"]
ScriptError == [cause |-> "script", op |-> "none"]
Fail(why) ==
    /\ status' = "failed" /\ failure' = why
    /\ UNCHANGED <<context, scriptIdx, opcodeIdx, stacks, counters, mustSucceed>>

RefuseInput(scr, sig, tw) ==
    /\ status = "ready" /\ input < NumInputs
    /\ Refused(scr, sig, tw)
    /\ Fail(ScriptError)

-----------------------------------------------------------------------------
(***************************************************************************)
(* Step.                                                                   *)
(***************************************************************************)
\* The tokens that the current script can hold next.
InScript(tok, last) ==
    /\ status = "running"
    /\ scriptIdx = 0 => tok.op \in PushOnlyOps
    /\ IF scriptIdx = 1 /\ script = "program"
       THEN /\ tok = ProgramScript[opcodeIdx + 1]
            /\ last <=> opcodeIdx + 1 = Len(ProgramScript)
       ELSE opcodeIdx + 1 = MaxOps => last

Counted(counts, tok) == IF Passed(tok) THEN counts ELSE Charged(counts, tok.op)
Charge(tok) ==
    /\ opCounts' = Counted(opCounts, tok)
    /\ reqCounts' = Counted(reqCounts, tok)
    /\ work' = [work EXCEPT ![input] = Counted(work[input], tok)]

\* An opcode that is not the last of its script
StepOpcode(tok) ==
    /\ InScript(tok, FALSE) /\ Legal(tok)
    /\ \E m \in Results(tok) :
          /\ Fits(m)
          /\ dstack' = m.d /\ astack' = m.a /\ condStack' = m.c /\ vfExec' = m.v
    /\ Charge(tok)
    /\ opcodeIdx' = opcodeIdx + 1
    /\ UNCHANGED <<status, failure, context, scriptIdx, mustSucceed>>

\* The opcode, the size limits, or the end of the script fails.
FailOpcode(tok, last) ==
    /\ InScript(tok, last)
    /\ Legal(tok) => \A m \in Results(tok) : Fits(m) => last /\ m.c # <<>>
    /\ Fail(IF ~Legal(tok) \/ Passed(tok) \/ ~Minimal(tok) THEN ScriptError
            ELSE IF OverLimit(tok.op) THEN [cause |-> "limit", op |-> tok.op]
            ELSE IF OverBudget(tok.op) THEN [cause |-> "budget", op |-> tok.op]
            ELSE ScriptError)

\* CheckErrorCondition(true): exactly one element, and it is true.
CheckErrorCondition(d) == Len(d) = 1 /\ AsBool(d[1])

\* The machines after the final opcode of a script, with every block closed.
Ended(tok) ==
    IF InScript(tok, TRUE) /\ Legal(tok) THEN {m \in Results(tok) : Fits(m) /\ m.c = <<>>} ELSE {}

Restart(d) ==
    /\ dstack' = d /\ astack' = <<>> /\ condStack' = <<>> /\ vfExec' = <<>>
    /\ opcodeIdx' = 0

\* Execution is over and Execute returns: to the next input, or to the caller.
Return(d, ok) ==
    /\ Restart(d)
    /\ status' = IF ~ok THEN "failed" ELSE IF input = NumInputs THEN "accepted" ELSE "ready"
    /\ failure' = IF ok THEN failure ELSE ScriptError

\* The signature script gives way to a script that is not empty.
EndSigScript(tok) ==
    /\ scriptIdx = 0 /\ script # "empty"
    /\ \E m \in Ended(tok) : Restart(m.d)
    /\ scriptIdx' = 1
    /\ Charge(tok)
    /\ UNCHANGED <<status, failure, context, mustSucceed>>

\* The last script ends: an empty script after the signature script is skipped.
EndScripts(tok) ==
    /\ \/ scriptIdx = 0 /\ script = "empty"
       \/ scriptIdx = 1 /\ script = "plain"
       \/ scriptIdx = 2
    /\ \E m \in Ended(tok) : Return(m.d, CheckErrorCondition(m.d))
    /\ scriptIdx' = scriptIdx + 1
    /\ Charge(tok)
    /\ UNCHANGED <<context, mustSucceed>>

\* verifyWitnessProgram: its result is a key spend, a leaf, or an error.
WitnessSize(w) == Len(w) <= MaxStackSize /\ \A i \in 1 .. Len(w) : Len(w[i]) <= MaxScriptElementSize
EndProgram(tok) ==
    /\ scriptIdx = 1 /\ script = "program"
    /\ scriptIdx' = 2
    /\ opCounts' = NoCounts
    /\ reqCounts' = Counted(reqCounts, tok)
    /\ work' = [work EXCEPT ![input] = Counted(work[input], tok)]
    /\ UNCHANGED context
    /\ \E m \in Ended(tok) :
       \/ /\ txWitness.kind = "key"
          /\ mustSucceed' = TRUE
          /\ Return(m.d, TRUE)
       \/ /\ txWitness.kind = "leaf" /\ WitnessSize(txWitness.stack)
          /\ Restart(txWitness.stack)
          /\ UNCHANGED <<status, failure, mustSucceed>>
       \/ /\ txWitness.kind = "emptyleaf" /\ WitnessSize(txWitness.stack)
          /\ Return(txWitness.stack, CheckErrorCondition(txWitness.stack))
          /\ UNCHANGED mustSucceed
       \/ /\ \/ txWitness.kind \in {"none", "invalid"}
             \/ txWitness.kind \in {"leaf", "emptyleaf"} /\ ~WitnessSize(txWitness.stack)
          /\ Return(<<>>, FALSE)
          /\ UNCHANGED mustSucceed

-----------------------------------------------------------------------------
Init ==
    /\ status = "ready" /\ failure = NoFailure
    /\ input = 0 /\ script = "plain" /\ txWitness = [kind |-> "none", stack |-> <<>>]
    /\ scriptIdx = 0 /\ opcodeIdx = 0
    /\ dstack = <<>> /\ astack = <<>> /\ condStack = <<>> /\ vfExec = <<>>
    /\ opCounts = NoCounts /\ reqCounts = NoCounts
    /\ work = [i \in 1 .. NumInputs |-> NoCounts]
    /\ mustSucceed = FALSE

Next ==
    \/ \E scr \in Scripts, sig \in SigScripts, w \in Witnesses, tw \in TxWitnesses :
          StartInput(scr, sig, w, tw) \/ RefuseInput(scr, sig, tw)
    \/ \E tok \in Tokens, last \in BOOLEAN : FailOpcode(tok, last)
    \/ \E tok \in Tokens :
          StepOpcode(tok) \/ EndSigScript(tok) \/ EndScripts(tok) \/ EndProgram(tok)

Spec == Init /\ [][Next]_vars

-----------------------------------------------------------------------------
(***************************************************************************)
(* Properties.                                                             *)
(***************************************************************************)
\* The types of the engine's fields and of the request's counters.
TypeOK ==
    /\ status \in {"ready", "running", "accepted", "failed"}
    /\ failure \in {NoFailure, ScriptError} \cup [cause : {"limit", "budget"}, op : Limited]
    /\ input \in 0 .. NumInputs
    /\ status = "running" => input > 0
    /\ scriptIdx \in 0 .. 3 /\ opcodeIdx \in Nat
    /\ condStack \in Seq(OpCond) /\ vfExec \in Seq(BOOLEAN)
    /\ opCounts \in [Limited -> Nat] /\ reqCounts \in [Limited -> Nat]
    /\ work \in [1 .. NumInputs -> [Limited -> Nat]]
    /\ mustSucceed \in BOOLEAN

\* The three-valued condStack decides as consensus does with one Boolean per
\* open block: a block executes iff its own condition and those of all the
\* blocks around it hold, through any nesting of OP_IF, OP_NOTIF, OP_ELSE and
\* OP_ENDIF (isBranchExecuting looks at the top entry only).
CondStackIsConsensus ==
    /\ Len(condStack) = Len(vfExec)
    /\ \A k \in 1 .. Len(condStack) :
          condStack[k] = "True" <=> \A j \in 1 .. k : vfExec[j]

\* A branch that does not execute leaves both stacks alone (executeOpcode's
\* early return, and the conditionals that run regardless).
SkippedBranchIsInert ==
    [][status = "running" /\ status' = "running" /\ input' = input /\ scriptIdx' = scriptIdx
          /\ ~isBranchExecuting
       => UNCHANGED <<dstack, astack>>]_vars

\* No input executes a limited opcode more often than its cap, though a taproot
\* spend starts a second context with fresh counts (verifyWitnessProgram).
InputWorkCapped ==
    \A i \in 1 .. NumInputs, op \in Limited : work[i][op] <= limits[op]

\* A request is refused on its budget only after requestInputBudget inputs: an
\* input within its own caps can never exhaust the request (the comment of
\* AggregateComputeLimits), whatever its limits are.
InputCannotExhaustRequest ==
    failure.cause = "budget" =>
        \/ input > requestInputBudget
        \/ input > 1 /\ limits[failure.op] > MaxInt \div requestInputBudget

\* The work of a whole request does not grow with the number of its inputs:
\* what all of them together execute of an opcode is requestInputBudget times
\* its cap at most.
WorkOf(op) == SumOver([i \in 1 .. NumInputs |-> work[i][op]], 1 .. NumInputs)
RequestWorkCapped == \A op \in Limited : WorkOf(op) <= requestInputBudget * limits[op]
=============================================================================
