----------------------------- MODULE ScriptStack -----------------------------
(***************************************************************************)
(* The data stack of the Arkade script engine (stack.go).  A stack is a    *)
(* sequence with the top last; index 0 is the top, as in the code.  An     *)
(* operation returns the set of stacks it can leave: {} is the error       *)
(* ErrInvalidStackOperation.                                               *)
(***************************************************************************)
EXTENDS Integers, Sequences

Depth(s) == Len(s)

\* PeekByteArray
Peek(s, idx) == IF idx >= 0 /\ idx < Len(s) THEN {s[Len(s) - idx]} ELSE {}

\* Everything below the top n elements.
Below(s, n) == SubSeq(s, 1, Len(s) - n)

\* The result of nipN: the removed element and the stack without it.
nipN(s, idx) ==
    IF idx >= 0 /\ idx <= Len(s) - 1
    THEN {[so |-> s[Len(s) - idx],
           stk |-> SubSeq(s, 1, Len(s) - idx - 1) \o SubSeq(s, Len(s) - idx + 1, Len(s))]}
    ELSE {}

\* F applied n times, from left to right, until one fails.
Loop(F(_), n, s) ==
    LET after[k \in 0 .. n] == IF k = 0 THEN {s} ELSE UNION {F(t) : t \in after[k - 1]}
    IN after[n]

MoveUp(s, idx) == {Append(x.stk, x.so) : x \in nipN(s, idx)}
CopyUp(s, idx) == {Append(s, x) : x \in Peek(s, idx)}

NipN(s, idx) == {x.stk : x \in nipN(s, idx)}
DropN(s, n) == IF n < 1 THEN {} ELSE Loop(LAMBDA t : NipN(t, 0), n, s)
DupN(s, n) == IF n < 1 THEN {} ELSE Loop(LAMBDA t : CopyUp(t, n - 1), n, s)
SwapN(s, n) == IF n < 1 THEN {} ELSE Loop(LAMBDA t : MoveUp(t, 2 * n - 1), n, s)
OverN(s, n) == IF n < 1 THEN {} ELSE Loop(LAMBDA t : CopyUp(t, 2 * n - 1), n, s)
PickN(s, n) == CopyUp(s, n)
RollN(s, n) == MoveUp(s, n)

\* Mutant: the entry to move is found again in each turn.
RotOneDeeper(s, n) == IF n < 1 THEN {} ELSE Loop(LAMBDA t : MoveUp(t, 3 * n), n, s)

RotN(s, n) == IF n < 1 THEN {} ELSE Loop(LAMBDA t : MoveUp(t, 3 * n - 1), n, s)

Tuck(s) == {t.stk \o <<u.so, t.so, u.so>> :
                t \in UNION {nipN(v.stk, 0) : v \in nipN(s, 0)}, u \in nipN(s, 0)}

-----------------------------------------------------------------------------
(***************************************************************************)
(* An opcode pops its operands and pushes its results.  F returns the set  *)
(* of sequences pushed, with the operands in the order of the script, the  *)
(* top of the stack last.                                                  *)
(***************************************************************************)
Take1(s, F(_)) ==
    IF Len(s) < 1 THEN {} ELSE {Below(s, 1) \o r : r \in F(s[Len(s)])}
Take2(s, F(_, _)) ==
    IF Len(s) < 2 THEN {} ELSE {Below(s, 2) \o r : r \in F(s[Len(s) - 1], s[Len(s)])}
Take3(s, F(_, _, _)) ==
    IF Len(s) < 3 THEN {}
    ELSE {Below(s, 3) \o r : r \in F(s[Len(s) - 2], s[Len(s) - 1], s[Len(s)])}
Take4(s, F(_, _, _, _)) ==
    IF Len(s) < 4 THEN {}
    ELSE {Below(s, 4) \o r :
              r \in F(s[Len(s) - 3], s[Len(s) - 2], s[Len(s) - 1], s[Len(s)])}
=============================================================================
