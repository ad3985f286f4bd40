--------------------------- MODULE PasskeySession ---------------------------
(***************************************************************************)
(* Passkey sessions of provider/session.go: one-use challenges in memory,  *)
(* the bounded verification slots of the service, and the encrypted        *)
(* recovery envelope a session installs or reads.                          *)
(*                                                                         *)
(* sessionMu is held for the length of one step here.  Between the steps a *)
(* call holds only its slot: the time it read, the challenge it consumed   *)
(* and the credential it loaded are its locals.                            *)
(***************************************************************************)
EXTENDS Naturals, FiniteSets

CONSTANTS
    Caller,                \* goroutines of the service
    Id,                    \* random challenges, the id standing for its bytes
    Envelope,              \* encrypted envelopes with their binding signatures
    TTL,                   \* passkeyChallengeTTL
    MaxPasskeyChallenges,
    MaxVerifications,      \* capacity of verificationSlots
    MaxTime,               \* bound on the clock
    NULL

ASSUME SessionAssumption ==
    /\ TTL \in Nat \ {0}
    /\ MaxPasskeyChallenges \in Nat \ {0}
    /\ MaxVerifications \in Nat \ {0}
    /\ MaxTime \in Nat
    /\ NULL \notin Envelope

Purpose == {"recover", "install"}

VARIABLES
    now,         \* sessionNow()
    pending,     \* sessionChallenges: the outstanding ids and their records
    slots,       \* calls that hold a verification slot
    call,        \* the local state of each goroutine
    envelope,    \* the credential_envelope row
    copy,        \* its copy in vault_envelope
    v4,          \* the v4 tables hold the first vault
    issued,      \* history: what each id was issued for, and when
    ceremonies,  \* <<id, purpose>> the user's device has signed a proof for
    bound,       \* envelopes whose binding the device has signed
    sessions,    \* history: how often each <<id, purpose>> authenticated
    recovered    \* history: envelopes given out

vars == <<now, pending, slots, call, envelope, copy, v4, issued, ceremonies,
          bound, sessions, recovered>>
history == <<issued, ceremonies, bound, sessions, recovered>>
store == <<envelope, copy, v4>>

Challenge == [purpose: Purpose, expires: Nat]
Issued == [purpose: Purpose, at: Nat]
Session == [id: Id, purpose: Purpose]

Idle == [pc |-> "idle"]
Issuing == [pc: {"insert"}, purpose: Purpose, at: Nat]
Authenticating == [pc: {"consume", "verify", "act"}, purpose: Purpose, id: Id,
                   env: Envelope \cup {NULL}]
Verifying == [pc: {"other"}]

Init ==
    /\ now = 0
    /\ pending = [i \in {} |-> NULL]
    /\ slots = 0
    /\ call = [c \in Caller |-> Idle]
    /\ envelope = NULL
    /\ copy = NULL
    /\ v4 \in BOOLEAN
    /\ issued = [i \in {} |-> NULL]
    /\ ceremonies = {}
    /\ bound = {}
    /\ sessions = [s \in Session |-> 0]
    /\ recovered = {}

Goto(c, state) == call' = [call EXCEPT ![c] = state]

-----------------------------------------------------------------------------
(***************************************************************************)
(* Verification slots: a buffered channel that never makes a caller wait.  *)
(***************************************************************************)
\* acquireVerification; a full channel is ErrVerificationBusy.
AcquireVerification == slots < MaxVerifications /\ slots' = slots + 1

Release == slots' = slots - 1

\* Draft, Preflight, Bind and Authorize share the slots.
OtherVerification(c) ==
    /\ call[c].pc = "idle"
    /\ AcquireVerification
    /\ Goto(c, [pc |-> "other"])
    /\ UNCHANGED <<now, pending, store, history>>

\* Mutant: a second slot is needed before the first one is given back.
OtherReturnNested(c) ==
    /\ call[c].pc = "other"
    /\ slots < MaxVerifications
    /\ Release
    /\ Goto(c, Idle)
    /\ UNCHANGED <<now, pending, store, history>>

OtherReturn(c) ==
    /\ call[c].pc = "other"
    /\ Release
    /\ Goto(c, Idle)
    /\ UNCHANGED <<now, pending, store, history>>

-----------------------------------------------------------------------------
(***************************************************************************)
(* IssuePasskeyChallenge: the checks and the clock are read before the     *)
(* lock, the map is pruned and written under it.                           *)
(***************************************************************************)
IssueStart(c, purpose) ==
    /\ call[c].pc = "idle"
    /\ purpose = "recover" => envelope # NULL
    /\ Goto(c, [pc |-> "insert", purpose |-> purpose, at |-> now])
    /\ UNCHANGED <<now, pending, slots, store, history>>

\* The challenges that have not expired at the time the call read.
Live(at) == {i \in DOMAIN pending : at < pending[i].expires}

Restricted(ids) == [i \in ids |-> pending[i]]
With(f, i, value) == [x \in DOMAIN f \cup {i} |-> IF x = i THEN value ELSE f[x]]

HasRoom(ids) == Cardinality(ids) < MaxPasskeyChallenges

\* A fresh random id.
IssueInsert(c, i) ==
    LET at == call[c].at
        kept == Live(at) IN
    /\ call[c].pc = "insert"
    /\ i \notin DOMAIN issued
    /\ HasRoom(kept)
    /\ pending' = With(Restricted(kept), i, [purpose |-> call[c].purpose, expires |-> at + TTL])
    /\ issued' = With(issued, i, [purpose |-> call[c].purpose, at |-> now])
    /\ Goto(c, Idle)
    /\ UNCHANGED <<now, slots, store, ceremonies, bound, sessions, recovered>>

\* No room: ErrVerificationBusy, after the pruning.
IssueBusy(c) ==
    /\ call[c].pc = "insert"
    /\ ~HasRoom(Live(call[c].at))
    /\ pending' = Restricted(Live(call[c].at))
    /\ Goto(c, Idle)
    /\ UNCHANGED <<now, slots, store, history>>

-----------------------------------------------------------------------------
(***************************************************************************)
(* The user's device: WebAuthn and DirectP256 over purpose and challenge,  *)
(* and the two binding signatures over an envelope.  Proofs once made may  *)
(* be sent any number of times, by anyone.                                 *)
(***************************************************************************)
Ceremony(i, purpose) ==
    /\ i \in DOMAIN issued
    /\ ceremonies' = ceremonies \cup {[id |-> i, purpose |-> purpose]}
    /\ UNCHANGED <<now, pending, slots, call, store, issued, bound, sessions, recovered>>

SignBinding(e) ==
    /\ bound' = bound \cup {e}
    /\ UNCHANGED <<now, pending, slots, call, store, issued, ceremonies, sessions, recovered>>

-----------------------------------------------------------------------------
(***************************************************************************)
(* authenticatePasskeySession, and what its two callers do with it.        *)
(***************************************************************************)
\* An id that was never issued is refused like one that is no longer there.
Authenticate(c, purpose, i, e) ==
    /\ call[c].pc = "idle"
    /\ i \in DOMAIN issued
    /\ e = NULL <=> purpose = "recover"
    /\ AcquireVerification
    /\ Goto(c, [pc |-> "consume", purpose |-> purpose, id |-> i, env |-> e])
    /\ UNCHANGED <<now, pending, store, history>>

\* Mutant: the challenge stays until it expires.
ForgetNothing(i) == UNCHANGED pending

\* delete(s.sessionChallenges, id), before the challenge is looked at.
Forget(i) == pending' = Restricted(DOMAIN pending \ {i})

\* Mutant: expiry is left to the pruning of the next issue.
MatchesLate(i, purpose) == i \in DOMAIN pending /\ pending[i].purpose = purpose

Matches(i, purpose) ==
    /\ i \in DOMAIN pending
    /\ pending[i].purpose = purpose
    /\ now < pending[i].expires

\* consumePasskeyChallenge
Consume(c) ==
    LET i == call[c].id IN
    /\ call[c].pc = "consume"
    /\ Forget(i)
    /\ \/ Matches(i, call[c].purpose) /\ call' = [call EXCEPT ![c].pc = "verify"] /\ UNCHANGED slots
       \/ ~Matches(i, call[c].purpose) /\ Goto(c, Idle) /\ Release
    /\ UNCHANGED <<now, store, history>>

\* webauthn.Validate and the DirectP256 proof over purpose and challenge.
ProofVerifies(s) == s \in ceremonies

\* The assertion is verified and the slot released.  A failure (or a
\* credential that cannot be loaded) ends the call.
Verify(c) ==
    LET s == [id |-> call[c].id, purpose |-> call[c].purpose] IN
    /\ call[c].pc = "verify"
    /\ Release
    /\ \/ /\ ProofVerifies(s)
          /\ sessions' = [sessions EXCEPT ![s] = @ + 1]
          /\ call' = [call EXCEPT ![c].pc = "act"]
       \/ /\ Goto(c, Idle)
          /\ UNCHANGED sessions
    /\ UNCHANGED <<now, pending, store, issued, ceremonies, bound, recovered>>

\* Only an absent or an identical envelope may be stored.
MayStore(e) == envelope \in {NULL, e}

\* Mutant: the v4 copy is left to the next migration.
SyncNothing(e) == UNCHANGED copy

\* syncLegacyVaultEnvelopeTx
SyncLegacyVaultEnvelope(e) ==
    IF v4 THEN copy \in {NULL, e} /\ copy' = e ELSE UNCHANGED copy

\* InstallCredentialEnvelope after the session: the binding signatures and
\* StoreCredentialEnvelopeIfAbsent, one transaction over both tables; an
\* error, or a commit whose outcome is unknown, ends the call as well.
Install(c) ==
    LET e == call[c].env IN
    /\ call[c].pc = "act"
    /\ call[c].purpose = "install"
    /\ \/ /\ e \in bound
          /\ MayStore(e)
          /\ SyncLegacyVaultEnvelope(e)
          /\ envelope' = e
       \/ UNCHANGED <<envelope, copy>>
    /\ Goto(c, Idle)
    /\ UNCHANGED <<now, pending, slots, v4, history>>

\* RecoverCredentialEnvelope after the session.
Recover(c) ==
    /\ call[c].pc = "act"
    /\ call[c].purpose = "recover"
    /\ recovered' = recovered \cup ({envelope} \ {NULL})
    /\ Goto(c, Idle)
    /\ UNCHANGED <<now, pending, slots, store, issued, ceremonies, bound, sessions>>

-----------------------------------------------------------------------------
Tick ==
    /\ now < MaxTime
    /\ now' = now + 1
    /\ UNCHANGED <<pending, slots, call, store, history>>

\* The process restarts: memory is gone, and a v3 database is migrated, its
\* envelope with it (upsertMigratedLegacyVault).
Restart ==
    /\ pending' = [i \in {} |-> NULL]
    /\ slots' = 0
    /\ call' = [c \in Caller |-> Idle]
    /\ v4' = TRUE
    /\ copy' = IF copy = NULL THEN envelope ELSE copy
    /\ UNCHANGED <<now, envelope, history>>

Step(c) ==
    \/ OtherReturn(c) \/ IssueBusy(c) \/ (\E i \in Id : IssueInsert(c, i))
    \/ Consume(c) \/ Verify(c) \/ Install(c) \/ Recover(c)

Next ==
    \/ Tick \/ Restart
    \/ \E c \in Caller :
         \/ Step(c) \/ OtherVerification(c)
         \/ \E p \in Purpose : IssueStart(c, p)
         \/ \E p \in Purpose, i \in Id, e \in Envelope \cup {NULL} : Authenticate(c, p, i, e)
    \/ \E i \in Id, p \in Purpose : Ceremony(i, p)
    \/ \E e \in Envelope : SignBinding(e)

Spec == Init /\ [][Next]_vars

\* No step of a call waits for another one: the calls go on by themselves.
FairSpec == Spec /\ \A c \in Caller : WF_vars(Step(c))

-----------------------------------------------------------------------------
(***************************************************************************)
(* Properties.                                                             *)
(***************************************************************************)
\* The type invariant.
TypeOK ==
    /\ now \in Nat
    /\ DOMAIN pending \subseteq Id
    /\ pending \in [DOMAIN pending -> Challenge]
    /\ slots \in Nat
    /\ call \in [Caller -> {Idle} \cup Issuing \cup Authenticating \cup Verifying]
    /\ envelope \in Envelope \cup {NULL}
    /\ copy \in Envelope \cup {NULL}
    /\ v4 \in BOOLEAN
    /\ DOMAIN issued \subseteq Id
    /\ issued \in [DOMAIN issued -> Issued]
    /\ ceremonies \subseteq Session
    /\ bound \subseteq Envelope
    /\ sessions \in [Session -> Nat]
    /\ recovered \subseteq Envelope

\* A challenge authenticates at most once, whatever two concurrent calls and
\* replays of one proof do: consumePasskeyChallenge deletes it under the lock.
AuthenticatedOnce ==
    \A s, t \in Session : s.id = t.id /\ sessions[s] > 0 =>
        sessions[s] = 1 /\ (s # t => sessions[t] = 0)

\* A session exists only for a challenge issued for its purpose, with a proof
\* of the user's device over that purpose and challenge.
SessionIsGenuine ==
    \A s \in Session : sessions[s] > 0 =>
        /\ s \in ceremonies
        /\ s.id \in DOMAIN issued
        /\ issued[s.id].purpose = s.purpose

\* A challenge passes only within its TTL, counted from its insertion,
\* although its issuer may have read the clock earlier and the call that
\* consumes it may have waited for the lock.
ConsumedInTime ==
    [][\A c \in Caller : call[c].pc = "consume" /\ call'[c].pc = "verify" =>
          now < issued[call[c].id].at + TTL]_vars

\* The outstanding challenges never exceed the limit (maxPasskeyChallenges).
ChallengesBounded == Cardinality(DOMAIN pending) <= MaxPasskeyChallenges

\* The calls between acquireVerification and its deferred release.
Holders == {c \in Caller : call[c].pc \in {"consume", "verify", "other"}}

\* The channel holds exactly one token per holder, on every path through a call:
\* a leaked token would take the service down for good after
\* MaxVerifications failures.
SlotsBalanced == slots = Cardinality(Holders)

\* The first stored envelope is never replaced ("a different envelope can
\* never replace the first one").
EnvelopeKept == [][envelope # NULL => envelope' = envelope]_vars

\* The v3 row and the v4 copy hold one envelope, before and after a
\* migration, and it is one whose binding the device has signed.
EnvelopeCopiesAgree ==
    /\ v4 => copy = envelope
    /\ ~v4 => copy = NULL
    /\ envelope # NULL => envelope \in bound

\* An envelope is stored or given out only after a session for that purpose.
EnvelopeNeedsSession ==
    /\ envelope # NULL => \E s \in Session : s.purpose = "install" /\ sessions[s] > 0
    /\ recovered # {} => /\ recovered = {envelope}
                         /\ \E s \in Session : s.purpose = "recover" /\ sessions[s] > 0

\* A full set of slots is always given back: the service does not stay busy.
SlotsComeBack == (slots = MaxVerifications) ~> (slots < MaxVerifications)
=============================================================================
