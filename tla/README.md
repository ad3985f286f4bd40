# TLA+ development for the Arkade emulator and the 2FA vault

The repository holds two programs. The *emulator* (`pkg/arkade`,
`internal/application`, `internal/interface/grpc`) executes Arkade scripts and
signs transactions whose scripts succeed. The *2FA vault* (`poc/2fa-vault`) is
a wallet whose routine spends need three signatures on one Taproot leaf: the
phone, a private VaultCosigner that a policy service guards, and the public
ArkadeCosigner, which is a remote emulator. The policy service, called the
authorizer, is where state, money and failure meet; the emulator is where a signature either
stands on an executed script or does not. Both are modelled, and between them the
script engine they share.

## Inventory

| Component | State | Operations | What is hard about it | What makes it correct |
|---|---|---|---|---|
| Issuance ledger (`policy/ledger.go`) | the `issuance` table of a SQLite file, one mutex per process | `IssueSequential`, `Issue`, `SpentInPeriod` | several goroutines and processes, crashes between transactions, commits whose outcome is unknown, retries, midnight | the daily allowance; reserve before key use; durable before dispatch; one answer per digest |
| Authorization service (`provider/service.go`, `psbtguard.go`, `signer.go`) | the published vault snapshot, verification slots | `Authorize`, `Bind`, `Preflight`, `signExactStage` | responses of the public signer are untrusted; slots may run out | only the one expected signature is imported; slots are returned |
| Enrollment (`service.go`, `ledger.go`, `vault_create.go`, `pending.go`) | vault, credential and invite rows; token hash and deadline in memory | `Register`, `CreateTenantVault`, `LoadVaults` | error after commit, races between registrations, restart | one tuple per vault; published implies durable; an invite is used once |
| Passkey session (`session.go`) | outstanding challenges | issue, consume | TTL, capacity, concurrent consumption | a challenge is used at most once and never after it expired |
| Publication (`publish.go`, `esplora.go`) | none of its own | verify a completed spend, broadcast | late and repeated broadcasts | only completed spends are broadcast |
| Spend classifier (`classify.go`, `vault/*.go`) | none | `Draft`, `Preflight`, `Bind`, classify, build, sign | three rule sets written apart (builder, classifier, script), a transaction that grows after it was confirmed | what is reserved can be signed; the script alone bounds the loss; a challenge is one spend |
| Vault store (`tenant*.go`, `migrate.go`, `schema_struct.go`, `envelope.go`) | schema version, backup file, envelopes | backup, migrate, verify | a crash between backup and migration | no vault is lost; migration is idempotent |
| Browser wallet (`web/*.js`) | local storage | draft, enroll, authorize, retry | a lost answer, a reload between two steps | the retry sends the exact same bytes |
| Emulator service (`internal/application`) | signer keys, arkd's key, the clock | `SubmitTx`, `SubmitIntent`, `SubmitFinalization`, `SubmitOnchainTx` | untrusted PSBTs, a key retired while a request runs, arkd failing between two calls, signatures handed back later | a signature stands on a script that ran; it is over the true output; arkd's coins stay off chain |
| Script engine (`pkg/arkade`) | data, alt and condition stacks, counters per input and per request | `NewEngine`, `Step`, `Execute`, opcodes | limits at their edge, nested conditionals, a second context in one input, machine words | conditionals as in consensus; work is capped; arithmetic is exact; encodings are canonical |

The components interact as follows. `Authorize` verifies a request (a
verification slot, the classifier, WebAuthn, the phone signature), then runs
`Ledger.IssueSequential` with two closures: the first signs with the private
key in process, the second sends the stored private stage to the public
emulator. Both import exactly one signature through `signExactStage`. The
ledger's mutex is held across both. Enrollment writes the vault rows that
`LoadVaults` publishes into the snapshot `Authorize` reads. The browser calls
`Authorize` and repeats the call with the same bytes when an answer is lost.
The public ArkadeCosigner is the emulator: each packet entry of a submitted
transaction is read, executed by the script engine under one request budget, and
its input signed with the key tweaked by the script; arkd is called to submit and
finalize. The vault's authorization script runs in the same engine; `SpendRules`
states what it decides, `ScriptEngine` and `ScriptOpcodes` how the engine decides.

PROJECT.json lists the hazards at their lines; the properties below are for them.

## Modules

| Module | Models |
|---|---|
| `OutflowSum` | `SUM(recipient_amount + fee)` |
| `SpendAuthority` | abstract specification: what the ledger promises its callers |
| `IssuanceLedger` | `policy/ledger.go`: the issuance table and the calls on it |
| `MCIssuanceLedger` | instances of `IssuanceLedger` for TLC |
| `BasicLemmas` | lemmas that several proofs use: induction stated for sets, recursive functions, the sum, division, sequences |
| `IssuanceLedgerProofs` | the inductive invariants and the theorems |
| `Enrollment`, `MCEnrollment`, `EnrollmentProofs` | first claim, tenant vaults, invitations, backup, migration and the start of the process |
| `RoutineSpend`, `MCRoutineSpend`, `RoutineSpendProofs` | one spend from the request to the chain: checks, signature import, publication |
| `PasskeySession`, `MCPasskeySession`, `PasskeySessionProofs` | passkey challenges, verification slots, the recovery envelope |
| `SpendRules` | the vault's transactions: classifier, static policy, authorization script, builders, challenge, `LocalSigner` |
| `SpendDraft`, `MCSpendDraft`, `SpendDraftProofs` | a PSBT between the builders, the user's device and the authorizer |
| `ScriptNum` | `scriptnum.go`, `bignum.go`: encodings, the int64 fast path, conversions |
| `ScriptStack` | `stack.go`: the stack operations |
| `ScriptEngine` | `engine.go`, `compute_limits.go`, `script.go`: the step loop for any set of opcodes |
| `AssetOpcodes`, `ScriptOpcodes` | `asset_opcodes.go`, `opcode.go`: what each opcode does to a stack |
| `ScriptMachine`, `MCScript`, `ScriptMachineProofs` | the engine with the real opcodes, and the references they are compared with; the proofs about the engine and about the opcodes |
| `CovenantSigner` | abstract specification: what the emulator promises |
| `EmulatorService`, `MCEmulator`, `EmulatorServiceProofs` | `internal/application`: the four operations, their retries, arkd and its indexer |

`RoutineSpend` uses of the issuance table only what `IssuanceLedger` establishes
about it (the first text of a challenge is bound, rows advance), and refines
what is in the rows: PSBTs with their signatures.

### IssuanceLedger

State: `issuance` is the table, `clock` the UTC day, `mu` the mutex of each
process, `call` the position and locals of each goroutine. `keyUse`,
`dispatched` and `answers` are histories used only by properties: what the
private key signed, what was sent to the public cosigner, what callers were told.

| Action | Code |
|---|---|
| `Call`, `Lock`, `Return` | the entry of `issueSequential`, `l.mu.Lock()`, its deferred unlock |
| `ReserveFresh`, `ReserveRefused`, `ReserveExisting`, `ReserveMismatch` | the branches of `commitReservation` and of the `switch` on the stored state |
| `VaultSign`, `ArkadeSign` | the two closures of `Service.Authorize` |
| `LegacyArkadeStage` | the identity second stage of `Ledger.Issue` |
| `CommitVaultSigned`, `CommitCompletion` | `commitVaultSigned`, `commitCompletion` through `commitSigningStage` |
| `Fail` | any error return with nothing written |
| `Crash` | a process stops and opens the database again |
| `Tick` | the day changes, forwards or, after a clock correction, backwards |

A transaction is one step because every transaction of this code starts with
`BEGIN IMMEDIATE`. A commit has three outcomes: done, failed, and *durable but
reported as an error*. The first resumes the call; the second is `Fail`; the
third is the `Return` alternative of the same action. A signer may fail before
it used its key (`Fail`) or after (`Return` in `VaultSign`, `ArkadeSign`).

A PSBT is a record of what the stages add to it. A signature is told apart by
the attempt that made it, so that re-signing is visible. Amounts are integers
with the code's overflow check; the largest integer is a constant, so that TLC
reaches the overflow with small numbers.

### Enrollment

State: the SQLite file (the v3 `credential` row, the v4 vault, credential, invite
and pending rows), the backup file, and for each process its position in
`openWithDialers`, its published snapshot and its current call. `claimed` is a history
that goes with the file: the `credential` row was written by a call that carried the
operator's token (or was there before this binary). Each answer in `accepted` records
it, so that an answer given from a reloaded row, after an ambiguous commit or because
another process won, is held to the same condition as one that follows its own commit.

| Action | Code |
|---|---|
| `Open`, `CheckBackup`, `VacuumInto`, `FinishBackup`, `Migrate`, `Arm`, `LoadVaults` | the startup steps of `openWithDialers`, `BackupSQLiteIfAbsent`, `MigrateLegacySingleton`, `Service.LoadVaults` |
| `Register`, `RegisterEnroll`, `RegisterReload` | `RegisterWithBootstrap`: the checks, `EnrollWithEnvelope` with its three commit outcomes, the reload after an error |
| `CreateTenantVault`, `PutInvite`, `ReservePendingEnrollment` | the invitation API |
| `WindowCloses`, `InviteExpires` | the deadlines |
| `Crash`, `LoseDatabase` | the process stops; the operator loses the volume (external) |

### RoutineSpend

State: the issuance `row` of each challenge with its PSBT, the signatures that
exist (`made`), the challenges confirmed with the passkey (`asserted`), the
node's mempool and blocks, and the position of each `Publish`. `sent`, `seen`
and `reports` are histories. A signature is the key, the transaction and a
nonce that made it; a PSBT entry is the key and leaf it is *labelled* with and
its bytes, so that a label need not match its signature.

| Action | Code |
|---|---|
| `Reserve` | `Authorize` up to the reservation: `verifyAuthorizeRequest` with classifier, WebAuthn, packet witness and phone signature |
| `VaultStage`, `ArkadeStage` | the two closures: `signExactStage` with `LocalSigner` and with `RemoteSigner`, `verifyExactRoutineSignatures` before and after |
| `Publish`, `PublishLookup`, `PublishBroadcast`, `PublishConfirm` | `preparePublication`, `dispatchPublication` |
| `PublicationStatus` | the same checks and one look-up |
| `Confirm`, `PhoneSign`, `Mine`, `Evict` | the device and the node (external) |

The public signer may answer with any packet over any transaction, with any
subset of the submitted entries and up to two more entries of `Foreign`; it
cannot forge the phone's or the private key's signatures. `classifySpend` and
the challenge are functions of the transaction here (`Routine`, `ChallengeOf`).

### PasskeySession

State: the outstanding challenges `pending`, the used `slots`, the locals of
each call, the two envelope rows, and histories of what was issued, signed by
the device, authenticated and given out.

| Action | Code |
|---|---|
| `IssueStart`, `IssueInsert`, `IssueBusy` | `IssuePasskeyChallenge` before and under `sessionMu` |
| `Authenticate`, `Consume`, `Verify` | `authenticatePasskeySession`: the slot, `consumePasskeyChallenge`, the proofs |
| `Install`, `Recover` | what `InstallCredentialEnvelope` and `RecoverCredentialEnvelope` do with the session |
| `OtherVerification`, `OtherReturn` | the other calls that share the slots |
| `Restart` | memory is lost, a v3 database is migrated |
| `Tick`, `Ceremony`, `SignBinding` | the clock, and the user's device (external) |

### SpendRules and SpendDraft

A transaction is a record of the fields some rule reads; a script is its kind,
its identity and its length, so that virtual sizes are computed and not
assumed; a hash is the thing hashed. `SpendRules` holds three rule sets that the
code writes down independently: `classifySpend` with `enforceStaticPolicy`
(Go, before the reservation), the authorization script (`AuthScript`,
`ScriptFee`, `ScriptOutputs`: what `vault/script.go` assembles, with the signed
size as a constant of the script), and the builders of `vault/tx.go`. The
fee-rate product is taken modulo 2^64 as in the code, with a smaller word.

`SpendDraft` has the PSBT the client holds as its main variable. `Draft`,
`BuildAdmin`, `BuildRecovery` make one; `Edit` changes any one field of it;
`Preflight`, `Bind` and `Authorize` are the service's calls; `SelfBind` is a client
that writes the witness without the service. Nothing is remembered between
calls, as in the code. An edited PSBT must still be one that decodes (`PSBTShape`;
every call refuses what does not), and is otherwise anything.

`Bind` classifies what it is given and not what it returns. The witness it writes
is usually longer than none, so the fee rate allows more; a PSBT that came in with
a *longer* witness shrinks, and its fee may then exceed the rate: `Authorize` refuses
it although `Bind` answered. `BoundIsAuthorizable` states the three exceptions (this
one, a fee-rate product that no longer fits int64, and a final field).

`final` says that the input has a `FinalScriptWitness` or `FinalScriptSig`. `Encoded`
is what a PSBT is after it was serialized and parsed: with a final field the library
writes neither the leaf script nor the signatures. `classify` and
`verifyAuthorization` do not look at the field, so such a PSBT passes `Authorize`, its
allowance is reserved, and `LocalSigner` then refuses the encoding that the row keeps
(service.go:1255, signer.go:43; publish.go:103 and vault/tx.go:292 test the field, but
later). `AuthorizedIsSigned` states this as the one exception, and as an equivalence: a
PSBT without the field is always signed, one with it never. The day's allowance is all
that is lost, and only to a client that sets the field itself after the user has
confirmed the spend.

### ScriptNum, ScriptStack, ScriptEngine and the opcodes

`ScriptEngine` is one request: its inputs are run in turn on engines of their own
under one `ComputeBudget`. A script is chosen while it runs (each step takes any
token), and an opcode is the constant operator `Effect`, so that what is proved
holds for any opcode table; `ScriptOpcodes!OpcodeEffect` is the real one.

| Action | Code |
|---|---|
| `StartInput`, `RefuseInput` | `NewEngine` and what it rejects |
| `StepOpcode` | `Step`, `executeOpcode`: the early return of a skipped branch, the charge to both counters, the effect, the stack limits |
| `FailOpcode` | the errors of a step; the cause tells a limit from the budget |
| `EndSigScript`, `EndScripts`, `EndProgram` | the end of a script in `Step`, `verifyWitnessProgram` with its fresh context, `CheckErrorCondition` |

`vfExec` is a ghost: the stack of one Boolean per open block that Bitcoin's
consensus code keeps. The opcodes work on sequences of elements, an element is a
sequence of bytes, and a byte has `ByteBits` bits. An opcode returns the *set* of
results, empty on an error. Hash and curve functions are the constant `Crypto`,
the transaction is the constant `Tx`.

### EmulatorService

One request is in flight at a time: requests share nothing the service writes.
A txid is the transaction, an output script the set of leaves it commits, and a
signature the record of everything its hash covers. `executed`, `released` and
`finalized` are histories.

| Action | Code |
|---|---|
| `Connect` | `New` with `arkdConnectRetryConfig` |
| `Receive` | the checks each operation makes before its loop; the client puts signatures it holds into a finalization's proof |
| `SkipMessageEntry`, `SkipForeignEntry`, `SignEntryStep`, `FailEntry` | one entry of the packet: `resolveArkadeScriptSigner`, `validateCheckpoint`, the execution, `signInput` |
| `RefuseLoop`, `AnswerSigned`, `RefuseUnsigned`, `SubmitToArkd` | the end of the loop: `finalizerAccumulator`, `verifyNonArkdCheckpointSignatures` |
| `CallFinalizeTx`, `CallGetCommitmentTx`, `AbandonRetry` | `retryFinalize`, `retryWithBackoff` |
| `Settle` | the rest of `SubmitFinalization`: associations, forfeits, boarding inputs |
| `ArkdAccepts`, `ArkdRefuses`, `FinalizeTxReturns`, `GetCommitmentTxReturns`, `Index` | arkd and its indexer (external): they refuse, drop checkpoints, return them with or without a signature, fail, answer late or never |

The code appends the signatures arkd returned to a checkpoint without verifying them
(tx.go:163-178) and calls `FinalizeTx`. `ArkdAccepts` therefore chooses for each
returned checkpoint whether arkd signed it, and `FinalizedComplete` is about the keys the
service does verify: every key of the leaf but arkd's. `Associations` is the map
`getSignedInputAssociations` ends with: of several entries for one outpoint the last one
stays, and an outpoint that is in the map ends the search through the signers' keys.

`CovenantSigner` says what the operations have in common: a signature leaves only
if its script ran at that input, or above the checkpoint it signs, or beside the
message input, or if a signature for the same coin, key and leaf left before.

## Runs

| Run | Question | Bounds |
|---|---|---|
| `issuance_process` | can the spends of a day exceed the allowance, is the private key used again once its result is stored, does every call return, and does the ledger implement `SpendAuthority`? | 1 process, 2 callers, 2 vaults, 2 days, a digest in two texts, spends that fit alone and not together, one that overflows |
| `issuance_stages` | can two processes produce two answers, use a key without a reservation, or repeat a one-stage call? | 2 processes, 1 digest, 2 texts of it and a one-stage call, 2 possible public signatures, 2 key uses |
| `enrollment_claim` | can two processes enroll two tuples, serve one that is not stored, or claim without the token? | 2 processes, 3 tuples of 2 credential ids, 2 tenants for 1 invitation, right, wrong and missing tokens, fresh and v3 databases |
| `enrollment_backup` | does the backup survive, and does it keep a lost vault from being claimed again? | 1 process at a time, crashes in every startup step, a lost database |
| `enrollment_backup_race` | the same with two processes at once: *violated*, a finding | 2 processes |
| `passkey_session` | can a challenge be used twice or late, can the envelope's two rows differ, and are slots always given back? | 2 callers, 2 challenges, a limit of 1 outstanding, 1 slot, a TTL of 1 and a clock to 1, 2 envelopes, both databases |
| `routine_spend` | what can a client, a hostile public signer and a failing node make the stages and two publications do? | 5 transactions, two of one challenge, one not routine, one without the direct signature; 10 kinds of response entries, two per response; 2 publications |
| `script_engine` | do nested conditionals decide as in consensus, and is work capped per request? | 3 inputs, budget for 2, scripts of up to 6 tokens, signature scripts and witness programs, caps below and above `MaxInt` / budget |
| `script_opcodes` | is every opcode exact on short stacks? | 1 opcode after the pushes, stacks from a small set of elements around the ends of the word |
| `emulator` | which signatures leave the service, over what and when; does every request end that no call to arkd holds? | 2 requests of 40: well-formed ones of all four kinds and, for each check, one that only that check refuses; a key retired at tick 1 of 3; 2 attempts |
| `emulator_unresponsive` | do the retry caps free a request from an arkd that does not answer? *violated*, a finding | 1 request, 2 attempts |
| `spend_draft` | do the builder, the classifier and the script agree on a PSBT that changes hands? | 5 vault records, two of them valid with different fee rates and ceilings; 3 amounts and 3 fees around each limit, 2 changes of one field each, among them the script of another vault's coin and a final field |

The engine's instances use a byte of 3 bits, an int64 of two bytes, a script
number of one and elements of three: every boundary of the encodings, of the
int64 fast path and of the size limits is then within one opcode of a small
stack. `script_opcodes` compares each opcode with a definition that does not
follow the code: integers for arithmetic, the picture in the opcode's comment for
the stack opcodes, one view of the asset packet with another. `spend_draft` uses
the real template's sizes (a 399-byte witness, 448 and 518 virtual bytes), since
the fee limits are about them, and scales money down to TLC's integers.

Two of every actor are enough to show an interleaving, a lost race and its
retry; the theorems remove the bounds for the safety properties.

Fairness. `issuance_process` assumes weak fairness of a call's own steps and
strong fairness of acquiring the mutex. The first holds because both signer
calls run under `SignTimeout` (15 s by default) and SQLite calls return; the
second because Go's mutex enters starvation mode and hands itself to the
longest waiter. Crashes and clock steps have no fairness.
`routine_spend` assumes weak fairness of the steps of a `Publish`: every
request to the node has a deadline (15 s in `esplora.go`) or ends with the
caller's context. `passkey_session` assumes weak fairness of the steps of a call
that has begun: none of them waits for another call (a full channel is an error
and not a wait, and `sessionMu` is never held across one). `emulator` assumes weak fairness of the
request's own steps and of nothing else. A call to arkd need not return: `SubmitTx`,
`FinalizeTx` and `GetCommitmentTx` are made with the handler's context, which has no
deadline, and `retryWithBackoff` looks at its caps between two attempts only.
`RequestReturns` says that every request ends unless such a call never does; that the
caps alone are enough, as tx.go:417-419 has it, is `NeverWedged`, which
`emulator_unresponsive` refutes. New calls, restarts, the device, the node, arkd, its
indexer and the clock have no fairness.

Deadlock is checked except where the system may stop: the emulator refuses to
start when arkd names no key and its bound on requests is reached, a client may
drop a draft, and a script ends.

Some properties are proved and in no run, because another property of the run
covers the same hazard: `DispatchDurable`, `StagesConsistent`, `RowsNeverRegress`,
`PublishedDurable`, `CredentialsUnique`, `InvitesUsedOnce`, `GenuineSessions`,
`SlotsAreBalanced`, `BoundedChallenges`, `EnvelopeBehindSession`,
`FirstEnvelopeStays`, `ReportsAccepted`, `StagesAddOne`, `WorkPerInputCapped`,
`SkippedBranches` and the type invariants.

Every property has a mutant in PROJECT.json: a plausible wrong version of the
code's definition under which TLC finds the property violated. The mutants are
defined next to the definitions they replace.

## Proofs

`IssuanceLedgerProofs` proves, for any number of processes, callers, vaults,
days, texts and any allowance, from `ConstantsAssumption` alone:
`TypeCorrect`, `KeyUseReserved`, `DispatchDurable`, `OneAnswer`,
`StagesConsistent`, `BudgetHolds`, `RowsNeverRegress`, `LegacyOneSignature` and
`ImplementsSpendAuthority`; and, for one process, `NoReuseInOneProcess`.

The properties are not inductive: that a stored private stage was made by the
key says nothing about what a call between signing and committing carries in
its locals. `StageInv` therefore adds `CallersInv`, one line per stage: a call
that is about to sign carries the request its row is bound to, a call about to
commit the private stage carries a PSBT the key has made for that row, a call
in the public stage carries the durable private stage, a call about to complete
carries an extension of it. `TablesInv` relates the rows to the histories. Each
action preserves `StageInv` (one lemma per action); another caller's step
cannot disturb these facts because rows only advance (`CallBoundStable`).

The budget is proved apart (`BudgetInv`): the only step that changes the sum is
an insertion, `BasicLemmas` gives `SumInsert` (inserting a key adds its
value), and `FitsAllowance` bounds the new sum; every other step changes
neither the keys nor the amounts, and `SatsExtensional` says that the sum then
stays. `ImplementsSpendAuthority` follows from `RowsAdvance` and the budget:
an insertion is a `Grant`, a completion a `Decide`, or a `Decide` with an
`Answer`, every other step a stutter.

`LegacyOneSignature` needs that a call about to sign in the one-stage form holds a
row it inserted itself, that no other call holds, and that the key has not signed
(`LegacyInv`). `NoReuseInOneProcess` rests on the mutex: with one process at most one
call is past `Lock`, so the row a caller read as reserved is still reserved when it
signs. Two processes sharing the file do not have this, and TLC's runs check it for
one process only, as the theorem's hypothesis `OneProcess` says.

`EnrollmentProofs` proves `TypeCorrect`, `RowsAgree`, `PublishedDurable`,
`CredentialsUnique`, `RegisteredStored`, `BackupGuards`, `InvitesUsedOnce` and
`FirstClaimHasToken` for any number of processes, tuples and invitations, and
`RollbackKept` for one process at a time (with two it is false, which is the finding
of `enrollment_backup_race`). The inductive invariant
`StoreInv` joins the two-table agreement with what a process at each startup
position may rely on: tables exist once it has migrated, nothing is published
before `LoadVaults`, what is published is in the database. `BackupInv` and
`InviteInv` are on top of it: the identity in a backup is the one of the
database it was taken from, and consumed invitations and tenant vaults are
written in one transaction. `ClaimInv` relates three things: a call that may still write
the row was checked against the token (`CallsCarryToken`), the row that is stored was
written by such a call, and so every answer stands for one, whichever process wrote the
row. `RollbackInv` says what the backup file holds at each position
of a start, before and after a crash.

`RoutineSpendProofs` proves `SpendTypes`, `VaultKeyGuarded`,
`CompletedCanPublish`, `OneSpend`, `ReportsAccepted` and `StagesAddOne` for any
transactions, challenges, keys' nonces and any set of response entries. The
strengthening is `RowsOK`: a reserved row holds the phone's entry and nothing
else, a private stage the phone's and the private key's, a completed one exactly
three, each a signature of the row's own transaction. It is what makes the
second, independently written verifier (`VerifyRoutinePartials`) and the script
engine accept, and it is preserved because `ImportExact` reads from a response
nothing but one entry it verifies against the *submitted* transaction. `CallsOK`
(a call carries the raw transaction of a completed row) gives
`OneSpendPerChallenge`, and `NodeOK` (what is known was accepted once) gives
`ReportedWasAccepted`.

`PasskeySessionProofs` proves all safety properties of `PasskeySession` for any
callers, challenges and limits. `AuthenticatedOnce` is not inductive: the key is
that a challenge is at any time in one of three places, outstanding
(`PendingUnused`), held by exactly one call between `Consume` and `Verify`
(`HeldUnused`), or spent. `PendingOK` relates an outstanding challenge to its
issue and gives `ConsumedInTime`; `LocalsOK` says what a call may rely on at
each position, in particular that a call that acts has a counted session.
`SlotsBalanced` is counted with the library's cardinality theorems: each action
adds one holder and one token, removes both, or changes neither.

`ScriptMachineProofs` proves first, about `ScriptEngine`, `TypeCorrect`, `CondStackCorrect`,
`WorkPerInputCapped`, `BudgetOutlastsInputs`, `RequestWorkBounded` and
`SkippedBranches` for any opcode
table, any limits, any number of inputs and scripts of any length.
`CondStackIsConsensus` relates the top entry to all open blocks; OP_ELSE breaks
it unless one also knows that *Skip* marks exactly the blocks inside one that
does not execute, which is `Mirrors`. For the counters, `CountInv` relates four
quantities: what an input has done (`work`) is what the running context has
counted, or nothing before the leaf script starts (`FreshWork`, because
`verifyWitnessProgram` starts a fresh context), and the request's count is at most
the caps of the inputs begun (`RequestBelow`), which against the scaled and
saturated limit gives `InputCannotExhaustRequest`. `RequestWorkBounded` is about the
sum over all inputs: `BudgetInv` says that the sum is what the shared counter holds,
and each charge increments one summand (`SumIncrement` of `BasicLemmas`).

It then proves, about the real opcodes, `NumbersExact`, `EncodingsCanonical`,
`StackOpcodesTransform`, `ElementsBounded` and `AssetViewsCorrect`: for bytes of any
number of bits, any widths of int64, script number and BigNum, any size of an element,
stacks of any depth, any transaction and any asset packet.

- *Numbers.* `Encode`, `Decode` and `LowBytes` are related by induction on the number
  of bytes: a magnitude is the sum of its bytes by weight, the byte count is the
  least that holds it, so that decoding an encoding returns the number, an element
  passes `CheckMinimalDataEncoding` exactly when it is the encoding of its value, and
  an integer fits `maxBigNumLen` bytes exactly when it is `Representable`. For the
  int64 fast path, `Wrap` leaves an integer as it is exactly in the int64 range; that
  each overflow test is equivalent to leaving the range is then arithmetic on one pair
  of operands. For `Mul` it is the uniqueness of quotient and remainder, and the guard
  for -1 times `MinInt64` is the one pair at which the test by division errs.
- *Conversions and pushes.* `MinimallyEncode` and `FixedBytes` are compared with
  `Encode` and `Decode` byte by byte: only zero bytes and the place of the sign
  differ. `PushesCanonical` is a case split on the element's length, which the sizes
  of the push opcodes (`PushSizes`) make exclusive.
- *Stacks.* Each loop over `nipN` and push is followed iteration by iteration
  (`Iteration`), and the result is compared with the picture, position by position.
- *Dispatch.* The properties are stated of the opcode families (`NumericOpcode`,
  `NumConversion`, `StackOpcode`); one lemma per family (`NumericDispatch`, ...) shows
  that the arms of `OpcodeEffect` do not overlap, so that the table runs that family.
- *Elements.* The strengthening is `ByteStacks`: both stacks and the stack saved for a
  witness program are sequences of byte strings. It is needed because of an arbitrary
  value on a stack nothing can be said, neither its length nor its value, and the
  properties themselves do not exclude one. `OpcodeKeeps`, one lemma per family of
  opcodes, says that an opcode turns a stack of byte strings of at most L bytes, with L
  at least `MaxScriptElementSize`, into such a stack. It gives both `MachineInductive`
  and `ElementsBounded`.
- *Assets.* `EntriesAt` goes through groups and entries in order; its length is the
  number of places that name the position, and when the groups have distinct ids its
  entries, what the lookup by id finds and the sums of a group describe the same
  places. This needs neither `ByteStacks` nor a hypothesis on the opcodes: the packet
  does not change.

The first four have two hypotheses, which the instance of `script_opcodes` satisfies.
`RealOpcodes` says that the engine runs `OpcodeEffect`, as the configuration sets it.
`CryptoTyped` says what the libraries return: short byte strings for hashes, integers
for coordinates, and that SHA-256 does not fail. The constants' assumptions are those
of the parsed input: scripts and witnesses are byte strings (`ScriptAssumption`), what
an opcode reads from the transaction or the packet is a short byte string or a number
that fits an element (`TxAssumption`, `AssetAssumption`), and the code's size limits are
in the order the code has them (`SizeAssumption`, `PushSizes`, `WidthAssumption`). TLC
evaluates all of them on the instances.

To be proved about, the arithmetic on bytes is written with recursive functions
(`Pow2`, `LowBytes`, `FromBits`, `EntriesIn`). `AssetViewsAgree` was strengthened on the
way: it now covers packets with any number of entries and states the count and the
sums, under the condition the proof showed it needs, that no two groups are of one
asset.

`EmulatorServiceProofs` proves `TypeCorrect`, `ImplementsCovenant`,
`SpendsAreTrue`, `ArkdCoinsStayOffchain`, `SignedInTime` and `FinalizesComplete`
for every set of requests, any keys and any number of deprecated ones. The
assumption is `RequestAssumption`: what the PSBT decoder returns has one input
record per outpoint. `CovenantInv` says that each signature collected so far
stands on a script that ran (`OwnStandsOnRuns`); the checkpoint of an input is the
transaction it spends only because `indexCheckpoints` was checked before the loop
(`LoopKnowsCheckpoints`). `SoundInv` adds that the request is as it was accepted
(`RequestAsReceived`) and that the collected signatures are over true outputs
(`OwnIsSound`). It must contain `SpendsWhatItSays` itself: `Settle` trusts the
output of an *earlier* released signature (`ProofSignature`), so the property is
what carries it from one request to the next. `CompleteInv` follows the
checkpoints' signatures from `verifyNonArkdCheckpointSignatures` through arkd's answer,
which can add entries and, unverified, its own signatures, but takes none away.

`SpendDraftProofs` proves all six properties of `SpendDraft` for every store of
vault records, every policy, amount, fee and edit, and any integer limits that
satisfy `MoneyAssumption`. The assumptions are `StoreAssumption` (base keys carry no
tweak, policy values are integers, the authorization script is not empty) and
`RequestAssumption` (requests decode). The argument is one normal form,
`RoutineForm`: recipient, change to this vault, one canonical packet with this
vault's script.

- `ClassifiedForm` and `SignedForm` show that the classifier and the script, each on
  its own terms, accept nothing that is not of the form. For the script this needs
  that a signer's key can stand in no leaf but the routine one (`SignedLeaf`: the
  other leaves hold untweaked keys) and that the leaf is one the spent output commits
  to.
- On the form the two fee rules are the same: `VBytesAgree` (the estimated witness is
  the constant in the script), `FeeAgrees`, `FormExact` (the packet's length bytes are
  those of a 64-byte witness). `AuthorizableSigned`, `SignedBounds` and
  `SignedClassified` follow, and with them `AuthorizedSigned`, `ScriptLossBounded` and
  `ScriptAndClassifierAgree`. `EncodedParts` says what the encoding keeps: everything
  without a final field, and no leaf with one, so that
  `LocalSigner` finds no leaf.
- On the form the masked transaction is the transaction without its witness
  (`RoutineChallenge`, `RoutineUnwitnessed`), which is `OneSpendPerChallenge`, and
  writing a witness keeps the challenge (`FormWritten`, `AnswerRewritten`), which with
  `AnswerClassified` is `BoundAuthorizable`.
- `DraftInv` is the inductive invariant: every PSBT decodes, what was authorized is
  authorizable, Bind's answer that nobody has changed is the confirmed spend with the
  signature in it (`Answers`), and a built PSBT is what was asked for (`Conserves`,
  which gives `BuildersExact`). It is needed because an arbitrary value in the
  client's hands has no size and no outputs to reason about, and because `Bind` leaves
  no record in the service.

The attempt to prove `BoundIsAuthorizable` found the shrinking witness described
above, which the earlier instance did not reach; the instance reaches it now, and
without the size condition TLC finds the violation. Likewise `ScriptBoundsLoss` with
the *enrolled* vault's limits is false when the coin is another vault's: the private
key is the same for all vaults of a store, and the limits that bind are those of the
vault whose coin is spent.

Sums over sequences and over inputs are recursive functions; what is proved about them
goes through `LeastNumber` and `SetInduction` of `BasicLemmas`: induction stated
for a *set* of numbers, which the provers can instantiate where the library's
theorems, stated for an operator, cannot be.

Only model-checked: liveness (`issuance_process`, `routine_spend`, `passkey_session`
and `emulator`), which is outside the prover's reach. Every invariant and action
property of a passing run, and both refinements, are stated by a theorem.

## Not modelled, and the plan

- Elliptic-curve, hash, pairing and DER code (`ec_ops`, `sigscheme`, `webauthn`), the
  sighash's byte layout: their results are inputs, or what they commit to.
- The HTTP handlers of the authorizer and the server wiring of the emulator:
  decoding and routing without state. What the handlers guarantee is an assumption
  (`RequestAssumption`, `ConfigAssumption`, `EngineAssumption`).
- The comparison of the SQL schema text (`schema_struct.go`) and the derivation of
  keys and MACs from files: pure functions of configuration.
- The browser wallet: the server trusts nothing it sends, and the models let a
  client send anything.
- The window in which `parseRegisterRequestIndependent` clears two fields of the
  service (service.go:441): only `Status` reads them without the lock, and it is a
  report on which no state of the protocol depends.
- Generated protobuf code, vendored scripts, command-line tools and the regtest
  demonstration.

A comment older than the code: scriptnum.go:20-35 says that numeric opcodes take
4-byte operands only. They take BigNums of up to 520 bytes; `ScriptNum` and
`ScriptOpcodes` follow the code. EMULATOR.md:133 calls `PrevoutTxField` optional; the
code refuses an onchain transaction that lacks it for any input (prevout.go:146-150), and
`EmulatorService` follows the code. pending.go:36 says that `ReservePendingEnrollment`
inserts a row "for an unused invite"; the INSERT (pending.go:70) does not test whether
the invitation is consumed or expired, and neither does the action here. Only tests call
it so far.

Planned, in this order:

1. That `RoutineSpend`'s rows refine `IssuanceLedger`'s.
2. The browser's exact-byte retry (`authorizeretry.js`) composed with
   `RoutineSpend`.
