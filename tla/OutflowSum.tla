----------------------------- MODULE OutflowSum -----------------------------
(***************************************************************************)
(* SELECT SUM(recipient_amount + fee): the sum of a table column over a    *)
(* set of rows, as the number of satoshis the rows hold, each satoshi      *)
(* counted once.  The form needs no recursion, so the theorems about the   *)
(* daily allowance can be proved for every table.  The script engine's     *)
(* counters per input and opcode are such a table too.                     *)
(***************************************************************************)
EXTENDS Integers, FiniteSets

\* The satoshis of the rows in K, where outflow[k] is row k's column value.
Sats(outflow, K) == UNION {{k} \X (1..outflow[k]) : k \in K}

SumOver(outflow, K) == Cardinality(Sats(outflow, K))
=============================================================================
