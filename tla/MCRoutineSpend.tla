--------------------------- MODULE MCRoutineSpend ---------------------------
(* Instances of RoutineSpend for TLC. *)
EXTENDS RoutineSpend

\* "a" and "b" differ only in the packet witness; "c", "d" and "e" are spends
\* of the same output with another challenge: "d" has no valid direct
\* signature and "e" is not a routine spend.
MCChallengeOf == [t \in Tx |-> IF t \in {"a", "b"} THEN "h1" ELSE "h2"]
MCSpends == [t \in Tx |-> "o1"]
MCRoutine == Tx \ {"e"}
MCDirectAuth == Tx \ {"d"}

MCEntry(key, leaf, sighash, by, tx) ==
    [key |-> key, leaf |-> leaf, sighash |-> sighash, bytes |-> [by |-> by, tx |-> tx, n |-> 1]]

\* Entries of a hostile response: the signature of the right and of another
\* transaction, a wrong leaf, sighash, key label or string, and other entries
\* under the keys of the phone and of the private signer.
MCForeign ==
    {MCEntry("arkade", "routine", "default", "arkade", tx) : tx \in {"a", "c"}}
    \cup {MCEntry("arkade", "other", "default", "arkade", "a"),
          MCEntry("arkade", "routine", "other", "arkade", "a"),
          MCEntry("arkade", "routine", "default", "nobody", "a"),
          MCEntry("nobody", "routine", "default", "arkade", "a"),
          MCEntry("phone", "routine", "default", "phone", "b"),
          MCEntry("phone", "other", "default", "phone", "a"),
          MCEntry("vault", "routine", "default", "vault", "c"),
          MCEntry("vault", "routine", "default", "nobody", "a")}
=============================================================================
