--------------------------- MODULE IssuanceLedger ---------------------------
(***************************************************************************)
(* The SQLite issuance store of the policy package and the staged signing  *)
(* flow that runs inside it: Ledger.IssueSequential (the VaultCosigner and *)
(* ArkadeCosigner stages of Service.Authorize) and the one-stage           *)
(* Ledger.Issue.                                                           *)
(*                                                                         *)
(* Every SQL transaction is one step: BEGIN IMMEDIATE excludes every other *)
(* writer, of this process and of any other that has the file open.        *)
(* Between two transactions a call holds only the process-local mutex      *)
(* Ledger.mu, which a crash releases; the table survives.  A COMMIT may    *)
(* report an error although the row is durable (ambiguous commit), and a   *)
(* signer may fail before or after it has used its key.                    *)
(***************************************************************************)
EXTENDS Integers, FiniteSets, OutflowSum

CONSTANTS
    Process,     \* authorizer processes that have the database file open
    Caller,      \* goroutines that run an issuance call
    Key,         \* primary keys (vault_id, arkade_sighash)
    Vault,       \* vault ids
    VaultOf,     \* [Key -> Vault], the vault_id column of a key
    Request,     \* exact normalized PSBT texts
    CoSig,       \* signatures the public ArkadeCosigner may return
    Period,      \* UTC days
    Input,       \* arguments of an issuance call, see CallArgs
    Allowance,   \* remainingCap: fixture.PeriodAllowanceSats
    MaxInt64,    \* 1<<63 - 1
    MaxSigns,    \* bound on the uses of the VaultCosigner key per issuance
    NULL         \* SQL NULL, and no mutex holder

VARIABLES
    issuance,    \* the table, a function from the stored keys to their rows
    clock,       \* the UTC day the ledger's clock shows
    mu,          \* Ledger.mu of each process: its holder or NULL
    call,        \* the local state of each caller
    keyUse,      \* history: every use of the VaultCosigner key
    dispatched,  \* history: every PSBT sent to the public ArkadeCosigner
    answers      \* history: every signed PSBT returned without an error

vars == <<issuance, clock, mu, call, keyUse, dispatched, answers>>

(***************************************************************************)
(* Data.  A PSBT is abstracted to what the stages add to it: the request   *)
(* text, the VaultCosigner signature (told apart by the attempt that made  *)
(* it) and the ArkadeCosigner signature.                                   *)
(***************************************************************************)
VaultPSBT  == [request: Request, attempt: 1..MaxSigns]
SignedPSBT == [request: Request, attempt: 1..MaxSigns, cosig: CoSig]

CallArgs == [key: Key, request: Request, recipient: Int, fee: Int,
             resumeReserved: BOOLEAN]

ASSUME ConstantsAssumption ==
    /\ VaultOf \in [Key -> Vault]
    /\ Input \subseteq CallArgs
    /\ Allowance \in Int
    /\ MaxInt64 \in Nat
    /\ Allowance <= MaxInt64
    /\ \A in \in Input : in.recipient <= MaxInt64 /\ in.fee <= MaxInt64
    /\ MaxSigns \in Nat
    /\ NULL \notin VaultPSBT \cup SignedPSBT \cup Caller

\* Ledger.Issue binds "legacy-external-signer:<digest>" as the request, which
\* is no PSBT text, so no request is used both with and without resumption.
ASSUME LegacyRequestAssumption ==
    \A a, b \in Input : a.request = b.request => a.resumeReserved = b.resumeReserved

Row == [state: {"reserved", "vault_signed", "completed"}, period: Period,
        recipient: Int, fee: Int, request: Request,
        vault_psbt: VaultPSBT \cup {NULL},
        signed_psbt: VaultPSBT \cup SignedPSBT \cup {NULL}]

\* The table's CHECK constraint, which is also validateIssuanceStage.
ValidStage(row) ==
    \/ row.state = "reserved" /\ row.vault_psbt = NULL /\ row.signed_psbt = NULL
    \/ row.state = "vault_signed" /\ row.vault_psbt # NULL /\ row.signed_psbt = NULL
    \/ row.state = "completed" /\ row.vault_psbt # NULL /\ row.signed_psbt # NULL

\* Two's complement addition of int64 values.
Wrap64(n) == ((n + MaxInt64 + 1) % (2 * (MaxInt64 + 1))) - MaxInt64 - 1

\* SELECT SUM(recipient_amount + fee) over one vault and one period.
Outflow == [k \in DOMAIN issuance |-> issuance[k].recipient + issuance[k].fee]
RowsIn(v, p) == {k \in DOMAIN issuance : VaultOf[k] = v /\ issuance[k].period = p}
SpentInPeriod(v, p) == SumOver(Outflow, RowsIn(v, p))

-----------------------------------------------------------------------------
\* A caller is idle or in an issueSequential call: the stage it is at, the
\* process it runs in, its arguments and the PSBT it carries.
Idle == [pc |-> "idle"]
ActiveCall == [pc: {"wait", "reserve", "vaultSign", "vaultCommit", "arkadeSign", "complete"},
               proc: Process, in: Input,
               psbt: Request \cup VaultPSBT \cup SignedPSBT \cup {NULL}]

Init ==
    /\ issuance = [k \in {} |-> NULL]
    /\ clock \in Period
    /\ mu = [p \in Process |-> NULL]
    /\ call = [c \in Caller |-> Idle]
    /\ keyUse = {}
    /\ dispatched = {}
    /\ answers = {}

\* issueSequential's argument checks; the others (empty vault id, digest of
\* the wrong length, empty request) have no counterpart in CallArgs.
ValidArgs(in) == in.recipient > 0 /\ in.fee >= 0 /\ Allowance >= 0

\* A call arrives.  Arguments that fail the checks return at once.
Call(c, p, in) ==
    /\ call[c].pc = "idle"
    /\ ValidArgs(in)
    /\ call' = [call EXCEPT ![c] = [pc |-> "wait", proc |-> p, in |-> in, psbt |-> NULL]]
    /\ UNCHANGED <<issuance, clock, mu, keyUse, dispatched, answers>>

\* l.mu.Lock()
Lock(c) ==
    /\ call[c].pc = "wait"
    /\ mu[call[c].proc] = NULL
    /\ mu' = [mu EXCEPT ![call[c].proc] = c]
    /\ call' = [call EXCEPT ![c].pc = "reserve"]
    /\ UNCHANGED <<issuance, clock, keyUse, dispatched, answers>>

\* Mutant: an error path that returns without l.mu.Unlock().
ReturnLocked(c) ==
    /\ call' = [call EXCEPT ![c] = Idle]
    /\ UNCHANGED mu

\* Return, with the deferred l.mu.Unlock().
Return(c) ==
    /\ call' = [call EXCEPT ![c] = Idle]
    /\ mu' = [mu EXCEPT ![call[c].proc] = NULL]

\* Go on to stage pc with the PSBT that stage transforms or stores.
Goto(c, pc, psbt) ==
    /\ call' = [call EXCEPT ![c] = [pc |-> pc, proc |-> @.proc, in |-> @.in, psbt |-> psbt]]
    /\ UNCHANGED mu

-----------------------------------------------------------------------------
(***************************************************************************)
(* commitReservation.                                                      *)
(***************************************************************************)
Insert(k, row) ==
    issuance' = [x \in DOMAIN issuance \cup {k} |-> IF x = k THEN row ELSE issuance[x]]

\* Mutant: recipient + fee added without addOutflow's check.
AddOutflowUnchecked(in) == FALSE

\* addOutflow and the two comparisons against what the period has left.
AddOutflowOverflows(in) == in.fee > 0 /\ in.recipient > MaxInt64 - in.fee

\* Mutant: each spend compared with the whole allowance.
FitsAllowanceAlone(in) == ~AddOutflowOverflows(in) /\ in.recipient + in.fee <= Allowance

FitsAllowance(in) ==
    LET used == SpentInPeriod(VaultOf[in.key], clock) IN
    /\ ~AddOutflowOverflows(in)
    /\ used <= Allowance
    /\ Wrap64(in.recipient + in.fee) <= Allowance - used

NewRow(in) == [state |-> "reserved", period |-> clock, recipient |-> in.recipient,
               fee |-> in.fee, request |-> in.request,
               vault_psbt |-> NULL, signed_psbt |-> NULL]

\* Mutant: the error of the reservation's COMMIT is ignored.
ReserveFreshUnsaved(c) ==
    LET in == call[c].in IN
    /\ call[c].pc = "reserve"
    /\ in.key \notin DOMAIN issuance
    /\ FitsAllowance(in)
    /\ Insert(in.key, NewRow(in)) \/ UNCHANGED issuance
    /\ Goto(c, "vaultSign", in.request)
    /\ UNCHANGED <<clock, keyUse, dispatched, answers>>

\* No row yet: the reservation is inserted, or the commit is ambiguous and the
\* call returns an error over a durable reservation.
ReserveFresh(c) ==
    LET in == call[c].in IN
    /\ call[c].pc = "reserve"
    /\ in.key \notin DOMAIN issuance
    /\ FitsAllowance(in)
    /\ Insert(in.key, NewRow(in))
    /\ Goto(c, "vaultSign", in.request) \/ Return(c)
    /\ UNCHANGED <<clock, keyUse, dispatched, answers>>

\* Overflow or an exhausted allowance.
ReserveRefused(c) ==
    LET in == call[c].in IN
    /\ call[c].pc = "reserve"
    /\ in.key \notin DOMAIN issuance
    /\ ~FitsAllowance(in)
    /\ Return(c)
    /\ UNCHANGED <<issuance, clock, keyUse, dispatched, answers>>

SameBinding(in, row) ==
    row.request = in.request /\ row.recipient = in.recipient /\ row.fee = in.fee

\* Mutant: a one-stage call signs again after an ambiguous attempt.
MayResumeAlways(in) == TRUE

\* A one-stage call never signs over a reservation it did not just create.
MayResume(in) == in.resumeReserved

\* Mutant: a retry starts over although the private stage is durable.
ResumeResigns(c, row) == Goto(c, "vaultSign", row.request)

\* The stage a stored row continues at, and the PSBT it continues with.
ResumeAt(c, row) ==
    \/ row.state = "reserved" /\ Goto(c, "vaultSign", row.request)
    \/ row.state = "vault_signed" /\ Goto(c, "arkadeSign", row.vault_psbt)

\* A row exists: the exact same request resumes at the stored stage, or gets
\* the stored answer.
ReserveExisting(c) ==
    LET in == call[c].in
        row == issuance[in.key] IN
    /\ call[c].pc = "reserve"
    /\ in.key \in DOMAIN issuance
    /\ SameBinding(in, row) /\ ValidStage(row)
    /\ \/ /\ row.state = "completed"
          /\ answers' = answers \cup {[key |-> in.key, psbt |-> row.signed_psbt]}
          /\ Return(c)
       \/ /\ row.state = "reserved" /\ ~MayResume(in)
          /\ Return(c)
          /\ UNCHANGED answers
       \/ /\ row.state = "reserved" => MayResume(in)
          /\ row.state # "completed"
          /\ ResumeAt(c, row)
          /\ UNCHANGED answers
    /\ UNCHANGED <<issuance, clock, keyUse, dispatched>>

\* The key is bound to a different exact request.
ReserveMismatch(c) ==
    LET in == call[c].in IN
    /\ call[c].pc = "reserve"
    /\ in.key \in DOMAIN issuance
    /\ ~(SameBinding(in, issuance[in.key]) /\ ValidStage(issuance[in.key]))
    /\ Return(c)
    /\ UNCHANGED <<issuance, clock, keyUse, dispatched, answers>>

-----------------------------------------------------------------------------
(***************************************************************************)
(* The signing stages.                                                     *)
(***************************************************************************)
Attempts(k) == {u \in keyUse : u.key = k}

\* The VaultCosigner signs the stored request; signExactStage keeps its one
\* signature and nothing else.
VaultSign(c) ==
    LET k == call[c].in.key
        n == Cardinality(Attempts(k)) + 1
        psbt == [request |-> call[c].psbt, attempt |-> n] IN
    /\ call[c].pc = "vaultSign"
    /\ n <= MaxSigns
    /\ keyUse' = keyUse \cup {[key |-> k, psbt |-> psbt]}
    /\ Goto(c, "vaultCommit", psbt) \/ Return(c)
    /\ UNCHANGED <<issuance, clock, dispatched, answers>>

\* Mutant: the UPDATE without its "AND state = ?".
CommitAnyStage(k, wantState, row) ==
    k \in DOMAIN issuance /\ issuance' = [issuance EXCEPT ![k] = row]

\* UPDATE issuance SET state = nextState, column = value WHERE state =
\* wantState: exactly one row changes, else the transaction is rolled back.
CommitSigningStage(k, wantState, row) ==
    /\ k \in DOMAIN issuance /\ issuance[k].state = wantState
    /\ issuance' = [issuance EXCEPT ![k] = row]

VaultSignedRow(row, psbt) == [row EXCEPT !.state = "vault_signed", !.vault_psbt = psbt]
CompletedRow(row, psbt) == [row EXCEPT !.state = "completed", !.signed_psbt = psbt]

CommitVaultSigned(c) ==
    LET k == call[c].in.key IN
    /\ call[c].pc = "vaultCommit"
    /\ CommitSigningStage(k, "reserved", VaultSignedRow(issuance[k], call[c].psbt))
    /\ Goto(c, "arkadeSign", call[c].psbt) \/ Return(c)
    /\ UNCHANGED <<clock, keyUse, dispatched, answers>>

\* The public stage gets the stored private stage.  It answers with its one
\* signature, or the answer is lost, late or rejected and the call fails.
ArkadeSign(c) ==
    LET in == call[c].in
        sent == call[c].psbt IN
    /\ call[c].pc = "arkadeSign"
    /\ in.resumeReserved
    /\ dispatched' = dispatched \cup {[key |-> in.key, psbt |-> sent]}
    /\ \/ \E s \in CoSig :
            Goto(c, "complete", [request |-> sent.request, attempt |-> sent.attempt, cosig |-> s])
       \/ Return(c)
    /\ UNCHANGED <<issuance, clock, keyUse, answers>>

\* Ledger.Issue has one signer: its public stage is the identity.
LegacyArkadeStage(c) ==
    /\ call[c].pc = "arkadeSign"
    /\ ~call[c].in.resumeReserved
    /\ Goto(c, "complete", call[c].psbt)
    /\ UNCHANGED <<issuance, clock, keyUse, dispatched, answers>>

\* commitCompletion; the signed PSBT is returned without an error unless the
\* commit was ambiguous or the caller's context ended.
CommitCompletion(c) ==
    LET k == call[c].in.key IN
    /\ call[c].pc = "complete"
    /\ CommitSigningStage(k, "vault_signed", CompletedRow(issuance[k], call[c].psbt))
    /\ answers' \in {answers, answers \cup {[key |-> k, psbt |-> call[c].psbt]}}
    /\ Return(c)
    /\ UNCHANGED <<clock, keyUse, dispatched>>

\* Every step a call takes under the mutex may fail with nothing written: a
\* cancelled context, SQLITE_BUSY, an I/O error, a signer that answers with an
\* error, or a row that is no longer in the state the UPDATE requires.
Fail(c) ==
    /\ call[c].pc \notin {"idle", "wait"}
    /\ Return(c)
    /\ UNCHANGED <<issuance, clock, keyUse, dispatched, answers>>

-----------------------------------------------------------------------------
\* A process stops and restarts: its calls vanish, its mutex is new.
Crash(p) ==
    /\ call' = [c \in Caller |->
                  IF call[c].pc # "idle" /\ call[c].proc = p THEN Idle ELSE call[c]]
    /\ mu' = [mu EXCEPT ![p] = NULL]
    /\ UNCHANGED <<issuance, clock, keyUse, dispatched, answers>>

\* The clock shows another day (midnight, or a clock correction).
Tick ==
    /\ clock' \in Period \ {clock}
    /\ UNCHANGED <<issuance, mu, call, keyUse, dispatched, answers>>

Step(c) ==
    \/ ReserveFresh(c) \/ ReserveRefused(c) \/ ReserveExisting(c) \/ ReserveMismatch(c)
    \/ VaultSign(c) \/ CommitVaultSigned(c)
    \/ ArkadeSign(c) \/ LegacyArkadeStage(c) \/ CommitCompletion(c)
    \/ Fail(c)

Next ==
    \/ \E c \in Caller, p \in Process, in \in Input : Call(c, p, in)
    \/ \E c \in Caller : Lock(c) \/ Step(c)
    \/ \E p \in Process : Crash(p)
    \/ Tick

Spec == Init /\ [][Next]_vars

\* A goroutine that can run is eventually run, signer calls end by their
\* timeout, and Go's mutex serves every waiter (starvation mode).
FairSpec == Spec /\ \A c \in Caller : WF_vars(Step(c)) /\ SF_vars(Lock(c))

-----------------------------------------------------------------------------
TypeOK ==
    /\ DOMAIN issuance \subseteq Key
    /\ \A k \in DOMAIN issuance : issuance[k] \in Row
    /\ clock \in Period
    /\ mu \in [Process -> Caller \cup {NULL}]
    /\ DOMAIN call = Caller
    /\ \A c \in Caller :
         call[c] = Idle \/ call[c] \in ActiveCall
    /\ keyUse \subseteq [key: Key, psbt: VaultPSBT]
    /\ dispatched \subseteq [key: Key, psbt: VaultPSBT]
    /\ answers \subseteq [key: Key, psbt: VaultPSBT \cup SignedPSBT]

\* No vault's reservations of one UTC day, finished or not, exceed the
\* period allowance (commitReservation), whatever crashes, ambiguous commits,
\* concurrent callers, processes and clock corrections do.
PeriodBudget == \A v \in Vault, p \in Period :
    Allowance >= 0 => SpentInPeriod(v, p) <= Allowance

\* The VaultCosigner key is only ever used on the exact request a durable row
\* has reserved allowance for (reserve before key use, IssueSequential).
KeyUseIsReserved ==
    \A u \in keyUse : u.key \in DOMAIN issuance /\ issuance[u.key].request = u.psbt.request

\* The public ArkadeCosigner is only ever sent the private stage the ledger
\* has made durable first (commitVaultSigned before arkadeSign).
DispatchIsDurable ==
    \A d \in dispatched : d.key \in DOMAIN issuance /\ issuance[d.key].vault_psbt = d.psbt

\* Every signed PSBT handed out for a digest is the one completed row's:
\* retries, replays and lost answers never yield two different spends.
AnswersAgree ==
    \A a \in answers : /\ a.key \in DOMAIN issuance
                       /\ issuance[a.key].state = "completed"
                       /\ issuance[a.key].signed_psbt = a.psbt

\* Each stored stage extends the one before it: the private stage signs the
\* bound request with a signature the key really made, the completed stage
\* adds the public signature to exactly that private stage (signExactStage).
StagesExtend ==
    \A k \in DOMAIN issuance :
        LET row == issuance[k] IN
        /\ ValidStage(row)
        /\ row.state # "reserved" =>
             /\ [key |-> k, psbt |-> row.vault_psbt] \in keyUse
             /\ row.vault_psbt.request = row.request
        /\ row.state = "completed" =>
             /\ row.signed_psbt.request = row.request
             /\ row.signed_psbt.attempt = row.vault_psbt.attempt

\* A one-stage issuance asks its signer at most once, ever: after an
\* ambiguous failure the reservation is never signed again (Ledger.Issue).
LegacySignsOnce ==
    \A u, w \in keyUse :
        (u.key = w.key /\ \E in \in Input : in.request = u.psbt.request /\ ~in.resumeReserved)
            => u = w

\* A stored row is never deleted or released, what it binds never changes, and
\* its stage only moves forward, one stage at a time.
StageOrder == <<"reserved", "vault_signed", "completed">>
RowsAdvance ==
    \A k \in DOMAIN issuance :
        /\ k \in DOMAIN issuance'
        /\ \A f \in {"period", "recipient", "fee", "request"} :
             issuance'[k][f] = issuance[k][f]
        /\ issuance'[k].vault_psbt # issuance[k].vault_psbt => issuance[k].state = "reserved"
        /\ \/ issuance'[k].state = issuance[k].state
           \/ \E i \in 1..2 : /\ issuance[k].state = StageOrder[i]
                              /\ issuance'[k].state = StageOrder[i + 1]
RowsOnlyAdvance == [][RowsAdvance]_vars

\* Once the private stage is durable the VaultCosigner key is not used again
\* for that issuance, however often the public stage times out and is retried.
\* This one rests on Ledger.mu, so it holds for a single process.
NoKeyReuseAfterPersist ==
    [][\A k \in DOMAIN issuance :
         issuance[k].state # "reserved" =>
            {u \in keyUse' : u.key = k} = {u \in keyUse : u.key = k}]_vars

\* Every call ends: no error path keeps Ledger.mu.
EveryCallReturns == \A c \in Caller : call[c].pc # "idle" ~> call[c].pc = "idle"

(***************************************************************************)
(* The ledger implements SpendAuthority: a grant is a row, a decision is a *)
(* completed row.  The stages, mutexes, failures and retries are stutters. *)
(***************************************************************************)
Grants == [k \in DOMAIN issuance |->
             [period |-> issuance[k].period, request |-> issuance[k].request,
              sats |-> issuance[k].recipient + issuance[k].fee]]
Decisions == [k \in {x \in DOMAIN issuance : issuance[x].state = "completed"} |->
                issuance[k].signed_psbt]

Authority == INSTANCE SpendAuthority
    WITH Signed <- VaultPSBT \cup SignedPSBT,
         grant <- Grants, decision <- Decisions, answered <- answers

\* Whatever crashes, retries, races and ambiguous commits do, callers see a
\* ledger that grants a digest once, within the allowance, and decides it once.
ImplementsAuthority == Authority!Spec
=============================================================================
