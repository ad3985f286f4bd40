----------------------------- MODULE Enrollment -----------------------------
(***************************************************************************)
(* Startup of the authorizer (openWithDialers: pre-v4 backup, migration,   *)
(* arming of the claim window, LoadVaults) and enrollment in the running   *)
(* process: RegisterWithBootstrap for the first vault, CreateTenantVault,  *)
(* PutInvite and ReservePendingEnrollment for tenants.                     *)
(*                                                                         *)
(* The database and the backup file are shared by every process; a SQL     *)
(* transaction is one step.  Service.mu admits one enrollment call per     *)
(* process at a time, and a call of another process may come between any   *)
(* two of its steps.  A COMMIT may report an error over durable rows.      *)
(***************************************************************************)
EXTENDS Naturals, FiniteSets

CONSTANTS
    Process,         \* authorizer processes that use the database
    Tuple,           \* enrollment tuples: credential, user keys, both roles
    CredID,          \* WebAuthn credential ids
    CredOf,          \* [Tuple -> CredID]
    Tenant,          \* opaque vault ids of tenants
    LegacyFirstVaultID,
    Invite,          \* token hashes of invitations
    Bootstrap,       \* values of the X-Vault-Enrollment-Token header
    EnrollmentToken, \* the one the operator configured
    OpenEnrollment,  \* cfg.OpenEnrollment
    MayLoseDatabase, \* whether the operator may lose the database file
    NULL             \* SQL NULL, an absent row or file, an absent header

VaultID == Tenant \cup {LegacyFirstVaultID}

ASSUME EnrollmentAssumption ==
    /\ CredOf \in [Tuple -> CredID]
    /\ LegacyFirstVaultID \notin Tenant
    /\ NULL \notin Tuple \cup VaultID \cup Process \cup {EnrollmentToken, "unused", "expired"}
    /\ {"unused", "expired"} \cap VaultID = {}
    /\ Process \cap Tuple = {}
    /\ {OpenEnrollment, MayLoseDatabase} \subseteq BOOLEAN

VARIABLES
    credential,  \* the v3 credential row
    v4,          \* whether the multi-tenant tables exist
    vault,       \* vault and vault_credential rows by vault id
    invite,      \* invite rows: absent, unused, expired, or consumed_vault_id
    pending,     \* pending_enrollment.vault_id by invite
    backup,      \* the .pre-v4 file: absent, being written by a process, or complete
    proc,        \* each process: startup position, armed token hash, open window
    published,   \* each process: Service.published
    op,          \* each process: the enrollment call that holds Service.mu
    claimed,     \* history: the credential row is there with the operator's token
    accepted,    \* history: Register calls that returned no error
    rollback     \* history: the v3 credential the first migration found

disk == <<credential, claimed, v4, vault, invite, pending>>
vars == <<credential, claimed, v4, vault, invite, pending, backup, proc, published, op, accepted, rollback>>

ProcState ==
    [pc: {"down", "opened", "vacuum", "writing", "backedUp", "migrated", "armed", "up"},
     token: BOOLEAN, window: BOOLEAN]
ActiveOp == [pc: {"enroll", "reload"}, tuple: Tuple, bootstrap: Bootstrap]

NoVaults == [v \in VaultID |-> NULL]
Down == [pc |-> "down", token |-> FALSE, window |-> FALSE]
At(pc) == [pc |-> pc, token |-> FALSE, window |-> FALSE]
Idle == [pc |-> "idle"]

\* A new deployment, or one that an older binary has enrolled; that claim is
\* taken as made.
Init ==
    /\ credential \in Tuple \cup {NULL}
    /\ claimed = (credential # NULL)
    /\ v4 = FALSE
    /\ vault = NoVaults
    /\ invite = [i \in Invite |-> NULL]
    /\ pending = [i \in Invite |-> NULL]
    /\ backup = NULL
    /\ proc = [p \in Process |-> Down]
    /\ published = [p \in Process |-> NoVaults]
    /\ op = [p \in Process |-> Idle]
    /\ accepted = {}
    /\ rollback = NULL

-----------------------------------------------------------------------------
(***************************************************************************)
(* Startup.                                                                *)
(***************************************************************************)
Stop(p) ==
    /\ proc' = [proc EXCEPT ![p] = Down]
    /\ published' = [published EXCEPT ![p] = NoVaults]
    /\ op' = [op EXCEPT ![p] = Idle]

Advance(p, pc) ==
    /\ proc' = [proc EXCEPT ![p] = At(pc)]
    /\ UNCHANGED <<published, op>>

\* OpenLedger
Open(p) ==
    /\ proc[p].pc = "down"
    /\ Advance(p, "opened")
    /\ UNCHANGED <<disk, backup, accepted, rollback>>

\* Mutant: a backup is not compared with an empty live database.
AcceptExistingBackupLenient(file, live) == live = NULL \/ file = live

\* acceptExistingBackup: a complete v3 file whose credential is the live one.
AcceptExistingBackup(file, live) == file \in Tuple /\ file = live

\* Mutant: the migration does not wait for a backup of an enrolled database.
CheckBackupSkipped(p) ==
    /\ proc[p].pc = "opened"
    /\ Advance(p, "backedUp")
    /\ UNCHANGED <<disk, backup, accepted, rollback>>

\* BackupSQLiteIfAbsent up to VACUUM INTO: read the live credential, stat dest.
CheckBackup(p) ==
    /\ proc[p].pc = "opened"
    /\ \/ backup # NULL /\ AcceptExistingBackup(backup, credential) /\ Advance(p, "backedUp")
       \/ backup # NULL /\ ~AcceptExistingBackup(backup, credential) /\ Stop(p)
       \/ backup = NULL /\ credential = NULL /\ Advance(p, "backedUp")
       \/ backup = NULL /\ credential # NULL /\ Advance(p, "vacuum")
    /\ UNCHANGED <<disk, backup, accepted, rollback>>

\* VACUUM INTO dest.  It refuses a file that has appeared since the stat, and
\* the error path removes whatever is at dest.
VacuumInto(p) ==
    /\ proc[p].pc = "vacuum"
    /\ \/ backup = NULL /\ backup' = p /\ Advance(p, "writing")
       \/ backup' = NULL /\ Stop(p)
    /\ UNCHANGED <<disk, accepted, rollback>>

\* The copy is complete and accepted; if dest is no longer this copy it is
\* rejected and removed.
FinishBackup(p) ==
    /\ proc[p].pc = "writing"
    /\ \/ backup = p /\ backup' = credential /\ Advance(p, "backedUp")
       \/ backup' = NULL /\ Stop(p)
    /\ UNCHANGED <<disk, accepted, rollback>>

CredentialTaken(cred) == \E v \in VaultID : vault[v] # NULL /\ CredOf[vault[v]] = cred

\* Mutant: the migration creates the tables and copies nothing.
UpsertNothing == vault

\* upsertMigratedLegacyVault
UpsertMigratedLegacyVault ==
    IF credential = NULL THEN vault ELSE [vault EXCEPT ![LegacyFirstVaultID] = credential]

\* MigrateLegacySingleton: one transaction; an existing v4 row must be equal.
\* An error after the COMMIT (foreign_key_check) stops the process.
Migrate(p) ==
    /\ proc[p].pc = "backedUp"
    /\ vault[LegacyFirstVaultID] \in {NULL, credential}
    /\ (vault[LegacyFirstVaultID] = NULL /\ credential # NULL) => ~CredentialTaken(CredOf[credential])
    /\ vault' = UpsertMigratedLegacyVault
    /\ v4' = TRUE
    /\ rollback' = IF v4 THEN rollback ELSE credential
    /\ Advance(p, "migrated") \/ Stop(p)
    /\ UNCHANGED <<credential, claimed, invite, pending, backup, accepted>>

\* GetCredential, the comparison with the migrated vault, and the arming of
\* the claim window when nothing is persisted.
Arm(p) ==
    /\ proc[p].pc = "migrated"
    /\ credential # NULL => vault[LegacyFirstVaultID] = credential
    /\ proc' = [proc EXCEPT ![p] =
                  [pc |-> "armed", token |-> credential = NULL /\ ~OpenEnrollment,
                   window |-> credential = NULL]]
    /\ UNCHANGED <<disk, backup, published, op, accepted, rollback>>

\* The cosigner and publisher answer and LoadVaults publishes every vault.
LoadVaults(p) ==
    /\ proc[p].pc = "armed"
    /\ proc' = [proc EXCEPT ![p].pc = "up"]
    /\ published' = [published EXCEPT ![p] = vault]
    /\ UNCHANGED <<disk, backup, op, accepted, rollback>>

\* Any startup step may fail, and a process may stop at any time.
Crash(p) ==
    /\ proc[p].pc # "down"
    /\ Stop(p)
    /\ UNCHANGED <<disk, backup, accepted, rollback>>

\* The database file is lost while no process runs; the backup file is not.
LoseDatabase ==
    /\ MayLoseDatabase
    /\ \A p \in Process : proc[p].pc = "down"
    /\ credential' = NULL
    /\ claimed' = FALSE
    /\ v4' = FALSE
    /\ vault' = NoVaults
    /\ invite' = [i \in Invite |-> NULL]
    /\ pending' = [i \in Invite |-> NULL]
    /\ UNCHANGED <<backup, proc, published, op, accepted, rollback>>

-----------------------------------------------------------------------------
(***************************************************************************)
(* RegisterWithBootstrap.                                                  *)
(***************************************************************************)
Ready(p) == proc[p].pc = "up" /\ op[p].pc = "idle"

\* Mutant: any well-formed token passes.
ValidateAnyToken(p, b) == proc[p].window /\ (OpenEnrollment <=> b = NULL)

\* validateEnrollmentBootstrap outside regtest
ValidateEnrollmentBootstrap(p, b) ==
    /\ proc[p].window
    /\ \/ OpenEnrollment /\ b = NULL
       \/ ~OpenEnrollment /\ proc[p].token /\ b = EnrollmentToken

\* Publication, the cleared token hash and the answer of a successful call;
\* claim tells how the row it answers for came to be stored.
Succeed(p, t, claim) ==
    /\ published' = [published EXCEPT ![p][LegacyFirstVaultID] = t]
    /\ proc' = [proc EXCEPT ![p].token = FALSE]
    /\ op' = [op EXCEPT ![p] = Idle]
    /\ accepted' = accepted \cup {[tuple |-> t, claim |-> claim]}

\* An error is returned and nothing changes.
Refuse(p) ==
    /\ op' = [op EXCEPT ![p] = Idle]
    /\ UNCHANGED <<published, proc, accepted>>

\* Mutant: any tuple is answered like the enrolled one.
AcceptAnyTuple(p, t) == credential # NULL /\ Succeed(p, t, claimed)

\* acceptPersistedEnrollment: only the exact stored tuple.
AcceptPersistedEnrollment(p, t) == credential = t /\ Succeed(p, t, claimed)

\* The call takes Service.mu and reads the credential.
Register(p, t, b) ==
    /\ Ready(p)
    /\ \/ credential # NULL /\ (AcceptPersistedEnrollment(p, t) \/ Refuse(p))
       \/ /\ credential = NULL /\ ValidateEnrollmentBootstrap(p, b)
          /\ op' = [op EXCEPT ![p] = [pc |-> "enroll", tuple |-> t, bootstrap |-> b]]
          /\ UNCHANGED <<published, proc, accepted>>
    /\ UNCHANGED <<disk, backup, rollback>>

\* dualWriteLegacyVaultTx writes the v4 copy unless there is one.
DualWrites == v4 /\ vault[LegacyFirstVaultID] = NULL

\* EnrollWithEnvelope: the id = 1 row and its v4 copy in one transaction.
Enroll(t) ==
    /\ credential = NULL
    /\ DualWrites => ~CredentialTaken(CredOf[t])
    /\ credential' = t
    /\ vault' = IF DualWrites THEN [vault EXCEPT ![LegacyFirstVaultID] = t] ELSE vault

\* The transaction succeeds, or succeeds and reports an error, or fails.
RegisterEnroll(p) ==
    LET t == op[p].tuple
        token == op[p].bootstrap = EnrollmentToken
        reload == op' = [op EXCEPT ![p].pc = "reload"] /\ UNCHANGED <<published, proc, accepted>> IN
    /\ op[p].pc = "enroll"
    /\ \/ Enroll(t) /\ claimed' = token /\ (Succeed(p, t, token) \/ reload)
       \/ reload /\ UNCHANGED <<credential, claimed, vault>>
    /\ UNCHANGED <<v4, invite, pending, backup, rollback>>

\* After an error the stored enrollment decides.
RegisterReload(p) ==
    /\ op[p].pc = "reload"
    /\ AcceptPersistedEnrollment(p, op[p].tuple) \/ Refuse(p)
    /\ UNCHANGED <<disk, backup, rollback>>

\* EnrollmentDeadline passes.
WindowCloses(p) ==
    /\ proc[p].window
    /\ proc' = [proc EXCEPT ![p].window = FALSE]
    /\ UNCHANGED <<disk, backup, published, op, accepted, rollback>>

-----------------------------------------------------------------------------
(***************************************************************************)
(* Tenants.                                                                *)
(***************************************************************************)
PutInvite(p, i) ==
    /\ proc[p].pc = "up"
    /\ invite[i] = NULL
    /\ invite' = [invite EXCEPT ![i] = "unused"]
    /\ UNCHANGED <<credential, claimed, v4, vault, pending, backup, proc, published, op, accepted, rollback>>

InviteExpires(i) ==
    /\ invite[i] = "unused"
    /\ invite' = [invite EXCEPT ![i] = "expired"]
    /\ UNCHANGED <<credential, claimed, v4, vault, pending, backup, proc, published, op, accepted, rollback>>

\* SELECT, then UPDATE ... WHERE consumed_vault_id IS NULL
ConsumeInvite(i, v) == invite[i] = "unused" /\ invite' = [invite EXCEPT ![i] = v]

\* CreateTenantVault under Service.mu: the rows and the invite in one
\* transaction, then publication.  An error after the COMMIT leaves the vault
\* durable and unpublished.
CreateTenantVault(p, v, i, t) ==
    /\ Ready(p)
    /\ vault[v] = NULL /\ ~CredentialTaken(CredOf[t])
    /\ ConsumeInvite(i, v)
    /\ vault' = [vault EXCEPT ![v] = t]
    /\ published' \in {published, [published EXCEPT ![p][v] = t]}
    /\ UNCHANGED <<credential, claimed, v4, pending, backup, proc, op, accepted, rollback>>

\* ReservePendingEnrollment: the invite exists (foreign key), one row per
\* invite and per vault id; a replay returns the existing row.
ReservePendingEnrollment(p, i, v) ==
    /\ proc[p].pc = "up"
    /\ invite[i] # NULL
    /\ pending[i] = NULL
    /\ \A j \in Invite : pending[j] # v
    /\ pending' = [pending EXCEPT ![i] = v]
    /\ UNCHANGED <<credential, claimed, v4, vault, invite, backup, proc, published, op, accepted, rollback>>

-----------------------------------------------------------------------------
Startup(p) ==
    \/ Open(p) \/ CheckBackup(p) \/ VacuumInto(p) \/ FinishBackup(p)
    \/ Migrate(p) \/ Arm(p) \/ LoadVaults(p)

Next ==
    \/ \E p \in Process :
         \/ Startup(p) \/ Crash(p) \/ WindowCloses(p)
         \/ \E t \in Tuple, b \in Bootstrap : Register(p, t, b)
         \/ RegisterEnroll(p) \/ RegisterReload(p)
         \/ \E i \in Invite : PutInvite(p, i)
         \/ \E v \in Tenant, i \in Invite, t \in Tuple : CreateTenantVault(p, v, i, t)
         \/ \E v \in Tenant, i \in Invite : ReservePendingEnrollment(p, i, v)
    \/ \E i \in Invite : InviteExpires(i)
    \/ LoseDatabase

Spec == Init /\ [][Next]_vars

-----------------------------------------------------------------------------
TypeOK ==
    /\ credential \in Tuple \cup {NULL}
    /\ claimed \in BOOLEAN
    /\ v4 \in BOOLEAN
    /\ vault \in [VaultID -> Tuple \cup {NULL}]
    /\ invite \in [Invite -> Tenant \cup {"unused", "expired", NULL}]
    /\ pending \in [Invite -> Tenant \cup {NULL}]
    /\ backup \in Tuple \cup Process \cup {NULL}
    /\ proc \in [Process -> ProcState]
    /\ published \in [Process -> [VaultID -> Tuple \cup {NULL}]]
    /\ op \in [Process -> {Idle} \cup ActiveOp]
    /\ accepted \subseteq [tuple: Tuple, claim: BOOLEAN]
    /\ rollback \in Tuple \cup {NULL}

\* Once the v4 tables exist, the first vault's row is the v3 credential:
\* migration, enrollment and their partial failures never let the two drift.
DualWriteAgrees == v4 => vault[LegacyFirstVaultID] = credential

\* A process only serves vaults, and for each the tuple, that the database
\* holds (publishEnrollmentAt runs after the commit).
PublishedIsDurable ==
    \A p \in Process, v \in VaultID : published[p][v] # NULL => vault[v] = published[p][v]

\* Register reports success only for the one stored tuple, whatever the other
\* process, an ambiguous commit or a restart does.
RegisteredIsStored ==
    ~MayLoseDatabase => \A a \in accepted : credential = a.tuple

\* Tenant vaults and consumed invites correspond one to one (CreateVault).
InvitesOnce ==
    \A v \in Tenant :
        Cardinality({i \in Invite : invite[i] = v}) = IF vault[v] = NULL THEN 0 ELSE 1

\* No two vaults share a WebAuthn credential (vault_credential's key), which
\* the credential index of every process relies on.
CredentialsDistinct ==
    \A v, w \in VaultID :
        (vault[v] # NULL /\ vault[w] # NULL /\ CredOf[vault[v]] = CredOf[vault[w]]) => v = w

\* A process that came up serves the identity of the backup file: after the
\* database was lost the authorizer does not open the vault for a new claim.
BackupGuardsIdentity ==
    (backup \in Tuple /\ \E p \in Process : proc[p].pc \in {"armed", "up"})
        => credential = backup

\* The file an operator needs to roll the v4 migration back stays in place
\* from the migration on (BackupSQLiteIfAbsent before MigrateLegacySingleton).
\* It holds while processes start one at a time.
RollbackFileKept == rollback # NULL => backup = rollback

\* Unless enrollment is open, the stored credential was written by a call that
\* carried the operator's token, and so was the one every successful answer
\* stood for: the answer of the transaction, of the reload after an ambiguous
\* commit or after another process won, and of a replay by a call without any
\* token after a restart (validateEnrollmentBootstrap, whose check of an armed
\* token hash comes a step before the write).
FirstClaimCarriesToken ==
    ~OpenEnrollment =>
        /\ credential # NULL => claimed
        /\ \A a \in accepted : a.claim
=============================================================================
