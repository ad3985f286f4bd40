--------------------------- MODULE CovenantSigner ---------------------------
(***************************************************************************)
(* What the emulator promises, whatever requests it is sent: a signature   *)
(* with a key tweaked by a script leaves it only after that script ran to  *)
(* success where the signature counts, or after an earlier signature for   *)
(* the same coin.  A signature is [key, leaf, tx, input]; a transaction    *)
(* names the outputs it spends in tx.ins as [tx, index].                   *)
(***************************************************************************)
EXTENDS Integers, Sequences

VARIABLES
    executed,   \* [tx, input, script]: executions that succeeded
    released    \* signatures that left the emulator

Spent(s) == s.tx.ins[s.input]

Ran(E, s) == [tx |-> s.tx, input |-> s.input, script |-> s.key.script] \in E

\* The checkpoint under an ark input whose script ran.
RanAbove(E, s) ==
    \E e \in E : e.script = s.key.script /\ e.tx.ins[e.input].tx = s.tx

\* The message input of an intent proof: its second input's script ran.
RanBeside(E, s) == s.input = 1 /\ [tx |-> s.tx, input |-> 2, script |-> s.key.script] \in E

\* The batch that settles an intent: a signature for the same coin, key and
\* leaf was released before.
SignedBefore(R, s) == \E r \in R : r.key = s.key /\ r.leaf = s.leaf /\ Spent(r) = Spent(s)

Justified(E, R, s) == Ran(E, s) \/ RanAbove(E, s) \/ RanBeside(E, s) \/ SignedBefore(R, s)

Init == executed = {} /\ released = {}

Run ==
    /\ executed \subseteq executed'
    /\ UNCHANGED released

Release ==
    /\ released \subseteq released'
    /\ \A s \in released' \ released : Justified(executed, released, s)
    /\ UNCHANGED executed

Next == Run \/ Release

Spec == Init /\ [][Next]_<<executed, released>>
=============================================================================
