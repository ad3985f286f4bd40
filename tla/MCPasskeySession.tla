-------------------------- MODULE MCPasskeySession --------------------------
(* The instance of PasskeySession for TLC. *)
EXTENDS PasskeySession
=============================================================================
