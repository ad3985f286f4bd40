-------------------------- MODULE EnrollmentProofs --------------------------
(***************************************************************************)
(* Theorems about Enrollment for any number of processes, tuples, tenants  *)
(* and invitations.  What a process relies on between two steps is that    *)
(* the tables it migrated stay (Migrated), that a stopped process serves   *)
(* nothing (Quiet), and that a stored identity is never replaced.          *)
(***************************************************************************)
EXTENDS Enrollment, FiniteSetTheorems, TLAPS

\* A process past its migration finds the v4 tables.
Migrated == \A p \in Process : proc[p].pc \in {"migrated", "armed", "up"} => v4

\* A process that is not up serves no vault and holds no enrollment call.
Quiet == \A p \in Process : proc[p].pc # "up" => published[p] = NoVaults /\ op[p] = Idle

\* Without the v4 tables there is no row in them.
TablesFirst == ~v4 => vault = NoVaults

StoreInv ==
    /\ TypeOK
    /\ Migrated
    /\ Quiet
    /\ TablesFirst
    /\ DualWriteAgrees
    /\ PublishedIsDurable
    /\ CredentialsDistinct

-----------------------------------------------------------------------------


LEMMA NoVaultsTyped == NoVaults \in [VaultID -> Tuple \cup {NULL}]
BY DEF NoVaults

LEMMA PositionsTyped ==
    /\ Down \in ProcState
    /\ \A pc \in {"opened", "vacuum", "writing", "backedUp", "migrated"} : At(pc) \in ProcState
<1>1. Down \in ProcState
  BY DEF Down, ProcState
<1>2. ASSUME NEW pc \in {"opened", "vacuum", "writing", "backedUp", "migrated"}
      PROVE  At(pc) \in ProcState
  BY DEF At, ProcState
<1> QED
  BY <1>1, <1>2

LEMMA InitTypeOK == Init => TypeOK
BY NoVaultsTyped, PositionsTyped DEF Init, TypeOK

\* The bookkeeping of a process that stops or moves on keeps its type.
LEMMA ProcessTyped ==
    ASSUME TypeOK, NEW p \in Process,
           Stop(p) \/ \E pc \in {"opened", "vacuum", "writing", "backedUp", "migrated"} : Advance(p, pc)
    PROVE  /\ proc' \in [Process -> ProcState]
           /\ published' \in [Process -> [VaultID -> Tuple \cup {NULL}]]
           /\ op' \in [Process -> {Idle} \cup ActiveOp]
<1>1. CASE Stop(p)
  <2>1. Down \in ProcState /\ NoVaults \in [VaultID -> Tuple \cup {NULL}]
    BY NoVaultsTyped, PositionsTyped
  <2>2. proc' \in [Process -> ProcState]
    BY <1>1, <2>1 DEF TypeOK, Stop
  <2>3. published' \in [Process -> [VaultID -> Tuple \cup {NULL}]]
    BY <1>1, <2>1 DEF TypeOK, Stop
  <2>4. op' \in [Process -> {Idle} \cup ActiveOp]
    BY <1>1 DEF TypeOK, Stop
  <2> QED BY <2>2, <2>3, <2>4
<1>2. ASSUME NEW pc \in {"opened", "vacuum", "writing", "backedUp", "migrated"}, Advance(p, pc)
      PROVE  /\ proc' \in [Process -> ProcState]
             /\ published' \in [Process -> [VaultID -> Tuple \cup {NULL}]]
             /\ op' \in [Process -> {Idle} \cup ActiveOp]
  <2>1. At(pc) \in ProcState
    BY PositionsTyped
  <2> QED BY <1>2, <2>1 DEF TypeOK, Advance
<1> QED BY <1>1, <1>2

\* A call that ends leaves the types of the process and of the answers alone.
LEMMA AnswerTyped ==
    ASSUME TypeOK, NEW p \in Process, NEW t \in Tuple,
           Refuse(p) \/ \E claim \in BOOLEAN : Succeed(p, t, claim)
    PROVE  /\ proc' \in [Process -> ProcState]
           /\ published' \in [Process -> [VaultID -> Tuple \cup {NULL}]]
           /\ op' \in [Process -> {Idle} \cup ActiveOp]
           /\ accepted' \subseteq [tuple: Tuple, claim: BOOLEAN]
<1>1. CASE Refuse(p)
  BY <1>1 DEF TypeOK, Refuse
<1>2. ASSUME NEW claim \in BOOLEAN, Succeed(p, t, claim)
      PROVE  /\ proc' \in [Process -> ProcState]
             /\ published' \in [Process -> [VaultID -> Tuple \cup {NULL}]]
             /\ op' \in [Process -> {Idle} \cup ActiveOp]
             /\ accepted' \subseteq [tuple: Tuple, claim: BOOLEAN]
  <2>1. proc' \in [Process -> ProcState]
    <3> DEFINE served == [proc[p] EXCEPT !.token = FALSE]
    <3>1. proc[p] \in ProcState /\ proc' = [proc EXCEPT ![p] = served]
      BY <1>2 DEF TypeOK, Succeed
    <3>2. served \in ProcState
      BY <3>1 DEF ProcState
    <3> HIDE DEF served
    <3> QED BY <3>1, <3>2 DEF TypeOK
  <2>2. published' \in [Process -> [VaultID -> Tuple \cup {NULL}]]
    <3> DEFINE snapshot == [published[p] EXCEPT ![LegacyFirstVaultID] = t]
    <3>1. published \in [Process -> [VaultID -> Tuple \cup {NULL}]] /\ LegacyFirstVaultID \in VaultID
      BY DEF TypeOK, VaultID
    <3>2. snapshot \in [VaultID -> Tuple \cup {NULL}]
      BY <3>1
    <3>3. published' = [published EXCEPT ![p] = snapshot]
      BY <1>2 DEF Succeed
    <3> HIDE DEF snapshot
    <3> QED BY <3>1, <3>2, <3>3
  <2>3. accepted' \subseteq [tuple: Tuple, claim: BOOLEAN]
    BY <1>2 DEF TypeOK, Succeed
  <2> QED
    BY <1>2, <2>1, <2>2, <2>3 DEF TypeOK, Succeed
<1> QED
  BY <1>1, <1>2

LEMMA StartupTypeOK ==
    ASSUME TypeOK, NEW p \in Process, Startup(p) PROVE TypeOK'
<1>1. CASE Open(p)
  BY <1>1, ProcessTyped DEF TypeOK, Open, disk
<1>2. CASE CheckBackup(p)
  <2>1. Stop(p) \/ \E pc \in {"opened", "vacuum", "writing", "backedUp", "migrated"} : Advance(p, pc)
    BY <1>2 DEF CheckBackup
  <2> QED
    BY <1>2, <2>1, ProcessTyped DEF TypeOK, CheckBackup, disk
<1>3. CASE VacuumInto(p)
  <2>1. Stop(p) \/ \E pc \in {"opened", "vacuum", "writing", "backedUp", "migrated"} : Advance(p, pc)
    BY <1>3 DEF VacuumInto
  <2> QED
    BY <1>3, <2>1, ProcessTyped DEF TypeOK, VacuumInto, disk
<1>4. CASE FinishBackup(p)
  <2>1. Stop(p) \/ \E pc \in {"opened", "vacuum", "writing", "backedUp", "migrated"} : Advance(p, pc)
    BY <1>4 DEF FinishBackup
  <2> QED
    BY <1>4, <2>1, ProcessTyped DEF TypeOK, FinishBackup, disk
<1>5. CASE Migrate(p)
  <2>1. Stop(p) \/ \E pc \in {"opened", "vacuum", "writing", "backedUp", "migrated"} : Advance(p, pc)
    BY <1>5 DEF Migrate
  <2> QED
    BY <1>5, <2>1, ProcessTyped DEF TypeOK, Migrate, UpsertMigratedLegacyVault, VaultID
<1>6. CASE Arm(p)
  BY <1>6 DEF TypeOK, Arm, disk, ProcState
<1>7. CASE LoadVaults(p)
  BY <1>7 DEF TypeOK, LoadVaults, disk, ProcState
<1> QED
  BY <1>1, <1>2, <1>3, <1>4, <1>5, <1>6, <1>7 DEF Startup

LEMMA NextTypeOK == TypeOK /\ [Next]_vars => TypeOK'
<1> SUFFICES ASSUME TypeOK, [Next]_vars PROVE TypeOK'
  OBVIOUS
<1>1. ASSUME NEW p \in Process, Startup(p) PROVE TypeOK'
  BY <1>1, StartupTypeOK
<1>2. ASSUME NEW p \in Process, Crash(p) PROVE TypeOK'
  BY <1>2, ProcessTyped DEF TypeOK, Crash, disk
<1>3. ASSUME NEW p \in Process, WindowCloses(p) PROVE TypeOK'
  <2> DEFINE closed == [proc[p] EXCEPT !.window = FALSE]
  <2>1. proc[p] \in ProcState /\ proc' = [proc EXCEPT ![p] = closed]
    BY <1>3 DEF TypeOK, WindowCloses
  <2>2. closed \in ProcState
    BY <2>1 DEF ProcState
  <2> HIDE DEF closed
  <2>3. proc' \in [Process -> ProcState]
    BY <2>1, <2>2 DEF TypeOK
  <2> QED BY <1>3, <2>3 DEF TypeOK, WindowCloses, disk
<1>4. ASSUME NEW p \in Process, NEW t \in Tuple, NEW b \in Bootstrap, Register(p, t, b) PROVE TypeOK'
  <2>1. CASE op' = [op EXCEPT ![p] = [pc |-> "enroll", tuple |-> t, bootstrap |-> b]]
             /\ UNCHANGED <<published, proc, accepted>>
    BY <1>4, <2>1 DEF TypeOK, Register, disk, ActiveOp
  <2>2. CASE Refuse(p) \/ Succeed(p, t, claimed)
    BY <1>4, <2>2, AnswerTyped DEF TypeOK, Register, disk
  <2> QED
    BY <1>4, <2>1, <2>2 DEF Register, AcceptPersistedEnrollment
<1>5. ASSUME NEW p \in Process, RegisterEnroll(p) PROVE TypeOK'
  <2> DEFINE t == op[p].tuple
             token == op[p].bootstrap = EnrollmentToken
  <2>1. t \in Tuple /\ op[p] \in ActiveOp
    BY <1>5 DEF RegisterEnroll, TypeOK, Idle, ActiveOp
  <2>2. credential' \in Tuple \cup {NULL} /\ claimed' \in BOOLEAN /\ vault' \in [VaultID -> Tuple \cup {NULL}]
    BY <1>5, <2>1 DEF RegisterEnroll, Enroll, TypeOK, VaultID
  <2>3. CASE Succeed(p, t, token)
    BY <1>5, <2>1, <2>2, <2>3, AnswerTyped DEF RegisterEnroll, TypeOK
  <2>4. CASE op' = [op EXCEPT ![p].pc = "reload"] /\ UNCHANGED <<published, proc, accepted>>
    BY <1>5, <2>1, <2>2, <2>4 DEF RegisterEnroll, TypeOK, ActiveOp
  <2> QED
    BY <1>5, <2>3, <2>4 DEF RegisterEnroll
<1>6. ASSUME NEW p \in Process, RegisterReload(p) PROVE TypeOK'
  <2> DEFINE t == op[p].tuple
  <2>1. t \in Tuple
    BY <1>6 DEF RegisterReload, TypeOK, Idle, ActiveOp
  <2>2. Refuse(p) \/ Succeed(p, t, claimed)
    BY <1>6 DEF RegisterReload, AcceptPersistedEnrollment
  <2> QED
    BY <1>6, <2>1, <2>2, AnswerTyped DEF RegisterReload, TypeOK, disk
<1>7. ASSUME NEW p \in Process, NEW i \in Invite, PutInvite(p, i) PROVE TypeOK'
  BY <1>7 DEF TypeOK, PutInvite
<1>8. ASSUME NEW p \in Process, NEW v \in Tenant, NEW i \in Invite, NEW t \in Tuple,
             CreateTenantVault(p, v, i, t)
      PROVE  TypeOK'
  <2>1. invite' \in [Invite -> Tenant \cup {"unused", "expired", NULL}]
    BY <1>8 DEF TypeOK, CreateTenantVault, ConsumeInvite
  <2>2. published' \in [Process -> [VaultID -> Tuple \cup {NULL}]]
    <3> DEFINE snapshot == [published[p] EXCEPT ![v] = t]
    <3>1. published \in [Process -> [VaultID -> Tuple \cup {NULL}]] /\ v \in VaultID
      BY DEF TypeOK, VaultID
    <3>2. snapshot \in [VaultID -> Tuple \cup {NULL}]
      BY <3>1
    <3>3. published' \in {published, [published EXCEPT ![p] = snapshot]}
      BY <1>8 DEF CreateTenantVault
    <3> HIDE DEF snapshot
    <3> QED BY <3>1, <3>2, <3>3
  <2>3. vault' \in [VaultID -> Tuple \cup {NULL}]
    BY <1>8 DEF TypeOK, CreateTenantVault, VaultID
  <2> QED
    BY <1>8, <2>1, <2>2, <2>3 DEF TypeOK, CreateTenantVault
<1>9. ASSUME NEW p \in Process, NEW v \in Tenant, NEW i \in Invite, ReservePendingEnrollment(p, i, v)
      PROVE  TypeOK'
  BY <1>9 DEF TypeOK, ReservePendingEnrollment
<1>10. ASSUME NEW i \in Invite, InviteExpires(i) PROVE TypeOK'
  BY <1>10 DEF TypeOK, InviteExpires
<1>11. CASE LoseDatabase
  BY <1>11, NoVaultsTyped DEF TypeOK, LoseDatabase
<1>12. CASE UNCHANGED vars
  BY <1>12 DEF TypeOK, vars
<1> QED
  BY <1>1, <1>2, <1>3, <1>4, <1>5, <1>6, <1>7, <1>8, <1>9, <1>10, <1>11, <1>12 DEF Next

\* Rows, files, positions and calls keep their types.
THEOREM TypeCorrect == Spec => []TypeOK
BY InitTypeOK, NextTypeOK, PTL DEF Spec

-----------------------------------------------------------------------------
LEMMA InitStoreInv == Init => StoreInv
<1> SUFFICES ASSUME Init PROVE StoreInv
  OBVIOUS
<1>1. TypeOK
  BY InitTypeOK
<1>2. Migrated /\ Quiet /\ TablesFirst /\ DualWriteAgrees
  BY DEF Init, Down, Migrated, Quiet, TablesFirst, DualWriteAgrees
<1>3. \A v \in VaultID : vault[v] = NULL /\ \A p \in Process : published[p][v] = NULL
  BY DEF Init, NoVaults
<1>4. PublishedIsDurable /\ CredentialsDistinct
  BY <1>3 DEF PublishedIsDurable, CredentialsDistinct
<1> QED
  BY <1>1, <1>2, <1>4 DEF StoreInv

\* A process that stops, or moves on before its migration, serves nothing, and
\* the others are not disturbed.
LEMMA ProcessQuiet ==
    ASSUME StoreInv, NEW p \in Process,
           \/ Stop(p)
           \/ /\ proc[p].pc # "up"
              /\ \E pc \in {"opened", "vacuum", "writing", "backedUp"} : Advance(p, pc)
    PROVE  /\ Quiet'
           /\ v4' = v4 => Migrated'
           /\ vault' = vault => PublishedIsDurable'
<1>1. proc \in [Process -> ProcState] /\ published \in [Process -> [VaultID -> Tuple \cup {NULL}]]
      /\ op \in [Process -> {Idle} \cup ActiveOp]
  BY DEF StoreInv, TypeOK
<1>2. proc'[p].pc \notin {"migrated", "armed", "up"} /\ published'[p] = NoVaults /\ op'[p] = Idle
  BY <1>1 DEF Stop, Advance, StoreInv, Quiet, At, Down
<1>3. \A q \in Process : q # p => proc'[q] = proc[q] /\ published'[q] = published[q] /\ op'[q] = op[q]
  BY <1>1 DEF Stop, Advance
<1>4. Quiet'
  BY <1>2, <1>3 DEF StoreInv, Quiet, NoVaults, Idle
<1>5. ASSUME v4' = v4 PROVE Migrated'
  BY <1>2, <1>3, <1>5 DEF StoreInv, Migrated
<1>6. ASSUME vault' = vault PROVE PublishedIsDurable'
  BY <1>2, <1>3, <1>6 DEF StoreInv, PublishedIsDurable, NoVaults
<1> QED
  BY <1>4, <1>5, <1>6

\* The facts about the tables alone hold while the tables do not change.
LEMMA TablesUnchanged ==
    ASSUME StoreInv, UNCHANGED <<credential, v4, vault>>
    PROVE  TablesFirst' /\ DualWriteAgrees' /\ CredentialsDistinct'
BY DEF StoreInv, TablesFirst, DualWriteAgrees, CredentialsDistinct, NoVaults

\* A step that changes neither the tables nor a position or a served vault.
LEMMA StoreStutter ==
    ASSUME StoreInv, UNCHANGED <<credential, v4, vault, proc, published, op>>
    PROVE  /\ Migrated' /\ Quiet' /\ PublishedIsDurable'
           /\ TablesFirst' /\ DualWriteAgrees' /\ CredentialsDistinct'
<1>1. Migrated' /\ Quiet' /\ PublishedIsDurable'
  BY DEF StoreInv, Migrated, Quiet, PublishedIsDurable, NoVaults, Idle
<1> QED
  BY <1>1, TablesUnchanged

\* A new row with a credential id nobody has keeps credentials distinct.
LEMMA InsertDistinct ==
    ASSUME StoreInv, NEW w \in VaultID, NEW t \in Tuple,
           vault[w] = NULL, ~CredentialTaken(CredOf[t]),
           vault' = [vault EXCEPT ![w] = t]
    PROVE  CredentialsDistinct'
<1>1. vault \in [VaultID -> Tuple \cup {NULL}]
  BY DEF StoreInv, TypeOK
<1>2. \A v \in VaultID : vault'[v] = IF v = w THEN t ELSE vault[v]
  BY <1>1
<1>3. \A v \in VaultID : vault[v] # NULL => CredOf[vault[v]] # CredOf[t]
  BY DEF CredentialTaken
<1> QED
  BY <1>2, <1>3 DEF StoreInv, CredentialsDistinct

LEMMA MigrateStore ==
    ASSUME StoreInv, NEW p \in Process, Migrate(p)
    PROVE  /\ Migrated' /\ Quiet' /\ PublishedIsDurable'
           /\ TablesFirst' /\ DualWriteAgrees' /\ CredentialsDistinct'
<1> DEFINE first == LegacyFirstVaultID
<1>1. vault \in [VaultID -> Tuple \cup {NULL}] /\ first \in VaultID /\ credential \in Tuple \cup {NULL}
  BY DEF StoreInv, TypeOK, VaultID
<1>2. proc \in [Process -> ProcState] /\ published \in [Process -> [VaultID -> Tuple \cup {NULL}]]
      /\ op \in [Process -> {Idle} \cup ActiveOp]
  BY DEF StoreInv, TypeOK
<1>3. proc[p].pc # "up" /\ v4' = TRUE /\ credential' = credential
      /\ vault' = UpsertMigratedLegacyVault /\ vault[first] \in {NULL, credential}
      /\ (vault[first] = NULL /\ credential # NULL => ~CredentialTaken(CredOf[credential]))
      /\ (Advance(p, "migrated") \/ Stop(p))
  BY DEF Migrate
<1>4. vault'[first] = credential /\ \A v \in VaultID \ {first} : vault'[v] = vault[v]
  BY <1>1, <1>3 DEF UpsertMigratedLegacyVault
<1>5. published'[p] = NoVaults /\ op'[p] = Idle
      /\ \A q \in Process : q # p => proc'[q] = proc[q] /\ published'[q] = published[q] /\ op'[q] = op[q]
  BY <1>2, <1>3 DEF Stop, Advance, StoreInv, Quiet
<1>6. Migrated'
  BY <1>3 DEF Migrated
<1>7. Quiet'
  <2>1. proc'[p].pc # "up"
    BY <1>2, <1>3 DEF Stop, Advance, At, Down
  <2> QED
    BY <2>1, <1>5 DEF StoreInv, Quiet, NoVaults, Idle
<1>8. PublishedIsDurable'
  <2>1. \A v \in VaultID : vault[v] # NULL => vault'[v] = vault[v]
    BY <1>3, <1>4
  <2>2. ASSUME NEW q \in Process, NEW v \in VaultID, published'[q][v] # NULL
        PROVE  vault'[v] = published'[q][v]
    <3>1. q # p /\ published'[q] = published[q]
      BY <1>5, <2>2 DEF NoVaults
    <3>2. vault[v] = published[q][v] /\ vault[v] # NULL
      BY <2>2, <3>1 DEF StoreInv, PublishedIsDurable
    <3> QED
      BY <2>1, <3>1, <3>2
  <2> QED
    BY <2>2 DEF PublishedIsDurable
<1>9. TablesFirst' /\ DualWriteAgrees'
  BY <1>3, <1>4 DEF TablesFirst, DualWriteAgrees
<1>10. CredentialsDistinct'
  <2>1. CASE vault[first] = credential
    <3>1. \A v \in VaultID : vault'[v] = vault[v]
      BY <1>4, <2>1
    <3> QED
      BY <3>1 DEF StoreInv, CredentialsDistinct
  <2>2. CASE vault[first] = NULL /\ credential # NULL
    BY <1>1, <1>3, <2>2, InsertDistinct DEF UpsertMigratedLegacyVault
  <2> QED
    BY <1>3, <2>1, <2>2
<1> QED
  BY <1>6, <1>7, <1>8, <1>9, <1>10

LEMMA StartupStore ==
    ASSUME StoreInv, NEW p \in Process, Startup(p)
    PROVE  /\ Migrated' /\ Quiet' /\ PublishedIsDurable'
           /\ TablesFirst' /\ DualWriteAgrees' /\ CredentialsDistinct'
<1> DEFINE early == {"opened", "vacuum", "writing", "backedUp"}
<1>1. CASE Open(p) \/ CheckBackup(p) \/ VacuumInto(p) \/ FinishBackup(p)
  <2>1. UNCHANGED <<credential, v4, vault>> /\ proc[p].pc # "up"
    BY <1>1 DEF Open, CheckBackup, VacuumInto, FinishBackup, disk
  <2>2. Stop(p) \/ \E pc \in early : Advance(p, pc)
    BY <1>1 DEF Open, CheckBackup, VacuumInto, FinishBackup
  <2> QED
    BY <2>1, <2>2, ProcessQuiet, TablesUnchanged
<1>2. CASE Migrate(p)
  BY <1>2, MigrateStore
<1>3. CASE Arm(p)
  <2>1. UNCHANGED <<credential, v4, vault, published, op>> /\ v4
    BY <1>3 DEF Arm, disk, StoreInv, Migrated
  <2>2. \A q \in Process : proc[q].pc # "up" <=> proc'[q].pc # "up"
    BY <1>3 DEF Arm, StoreInv, TypeOK
  <2>3. Migrated' /\ Quiet'
    BY <2>1, <2>2 DEF StoreInv, Migrated, Quiet, NoVaults, Idle
  <2>4. PublishedIsDurable'
    BY <2>1 DEF StoreInv, PublishedIsDurable
  <2> QED
    BY <2>1, <2>3, <2>4, TablesUnchanged
<1>4. CASE LoadVaults(p)
  <2>1. UNCHANGED <<credential, v4, vault, op>> /\ v4
    BY <1>4 DEF LoadVaults, disk, StoreInv, Migrated
  <2>2. \A q \in Process : q # p => proc'[q] = proc[q] /\ published'[q] = published[q]
    BY <1>4 DEF LoadVaults, StoreInv, TypeOK
  <2>3. proc'[p].pc = "up" /\ published'[p] = vault
    BY <1>4 DEF LoadVaults, StoreInv, TypeOK, ProcState
  <2>4. Migrated' /\ Quiet'
    BY <2>1, <2>2, <2>3 DEF StoreInv, Migrated, Quiet, NoVaults, Idle
  <2>5. PublishedIsDurable'
    BY <2>1, <2>2, <2>3 DEF StoreInv, PublishedIsDurable
  <2> QED
    BY <2>1, <2>4, <2>5, TablesUnchanged
<1> QED
  BY <1>1, <1>2, <1>3, <1>4 DEF Startup

\* A successful answer publishes the first vault as the tables hold it.
LEMMA SucceedQuiet ==
    ASSUME StoreInv, NEW p \in Process, NEW t \in Tuple, NEW claim,
           Succeed(p, t, claim), proc[p].pc = "up", v4' = v4,
           vault'[LegacyFirstVaultID] = t,
           \A v \in VaultID : vault[v] # NULL => vault'[v] = vault[v]
    PROVE  Migrated' /\ Quiet' /\ PublishedIsDurable'
<1> DEFINE first == LegacyFirstVaultID
<1>1. proc \in [Process -> ProcState] /\ published \in [Process -> [VaultID -> Tuple \cup {NULL}]]
      /\ op \in [Process -> {Idle} \cup ActiveOp] /\ first \in VaultID
  BY DEF StoreInv, TypeOK, VaultID
<1>2. \A q \in Process : proc'[q].pc = proc[q].pc
  BY <1>1 DEF Succeed, ProcState
<1>3. \A q \in Process : q # p => published'[q] = published[q] /\ op'[q] = op[q]
  BY <1>1 DEF Succeed
<1>4. published'[p] = [published[p] EXCEPT ![first] = t]
  BY <1>1 DEF Succeed
<1>5. Migrated' /\ Quiet'
  BY <1>2, <1>3 DEF StoreInv, Migrated, Quiet, NoVaults, Idle
<1>6. ASSUME NEW q \in Process, NEW v \in VaultID, published'[q][v] # NULL
      PROVE  vault'[v] = published'[q][v]
  <2>1. CASE q = p /\ v = first
    BY <1>1, <1>4, <2>1
  <2>2. CASE q # p \/ v # first
    <3>1. published'[q][v] = published[q][v]
      BY <1>1, <1>3, <1>4, <2>2
    <3> QED
      BY <1>6, <3>1 DEF StoreInv, PublishedIsDurable
  <2> QED
    BY <2>1, <2>2
<1>7. PublishedIsDurable'
  BY <1>6 DEF PublishedIsDurable
<1> QED
  BY <1>5, <1>7

\* A call that begins, changes its position or is refused moves no process and
\* publishes nothing.
LEMMA CallQuiet ==
    ASSUME StoreInv, NEW p \in Process, proc[p].pc = "up",
           UNCHANGED <<v4, proc, published>>,
           \E o : op' = [op EXCEPT ![p] = o],
           \A v \in VaultID : vault[v] # NULL => vault'[v] = vault[v]
    PROVE  Migrated' /\ Quiet' /\ PublishedIsDurable'
<1>1. \A q \in Process : q # p => op'[q] = op[q]
  BY DEF StoreInv, TypeOK
<1>2. Migrated' /\ Quiet'
  BY <1>1 DEF StoreInv, Migrated, Quiet, NoVaults, Idle
<1>3. PublishedIsDurable'
  BY DEF StoreInv, PublishedIsDurable
<1> QED
  BY <1>2, <1>3

\* Only a process that is up holds a call.
LEMMA CallerIsUp ==
    ASSUME StoreInv, NEW p \in Process, op[p].pc \in {"enroll", "reload"}
    PROVE  proc[p].pc = "up" /\ v4 /\ op[p] \in ActiveOp /\ op[p].tuple \in Tuple
<1>1. op[p] # Idle
  BY DEF Idle
<1>2. op[p] \in ActiveOp
  BY <1>1 DEF StoreInv, TypeOK
<1> QED
  BY <1>1, <1>2 DEF StoreInv, Quiet, Migrated, ActiveOp

LEMMA AcceptStore ==
    ASSUME StoreInv, NEW p \in Process, NEW t \in Tuple, proc[p].pc = "up",
           UNCHANGED <<credential, v4, vault>>,
           AcceptPersistedEnrollment(p, t) \/ Refuse(p)
    PROVE  /\ Migrated' /\ Quiet' /\ PublishedIsDurable'
           /\ TablesFirst' /\ DualWriteAgrees' /\ CredentialsDistinct'
<1>1. CASE AcceptPersistedEnrollment(p, t)
  <2>1. v4 /\ vault'[LegacyFirstVaultID] = t /\ Succeed(p, t, claimed)
    BY <1>1 DEF AcceptPersistedEnrollment, StoreInv, DualWriteAgrees, Migrated
  <2> QED
    BY <2>1, SucceedQuiet, TablesUnchanged
<1>2. CASE Refuse(p)
  BY <1>2, CallQuiet, TablesUnchanged DEF Refuse
<1> QED
  BY <1>1, <1>2

\* The enrolling transaction writes both rows or neither.
LEMMA EnrollStore ==
    ASSUME StoreInv, NEW p \in Process, RegisterEnroll(p)
    PROVE  /\ Migrated' /\ Quiet' /\ PublishedIsDurable'
           /\ TablesFirst' /\ DualWriteAgrees' /\ CredentialsDistinct'
<1> DEFINE t == op[p].tuple
           token == op[p].bootstrap = EnrollmentToken
           first == LegacyFirstVaultID
           reload == op' = [op EXCEPT ![p].pc = "reload"] /\ UNCHANGED <<published, proc, accepted>>
<1>1. proc[p].pc = "up" /\ v4 /\ t \in Tuple /\ v4' = v4
  BY CallerIsUp DEF RegisterEnroll
<1>2. vault \in [VaultID -> Tuple \cup {NULL}] /\ first \in VaultID /\ NULL \notin Tuple
  BY EnrollmentAssumption DEF StoreInv, TypeOK, VaultID
<1>3. ASSUME reload PROVE \E o : op' = [op EXCEPT ![p] = o]
  BY <1>3
<1>4. CASE Enroll(t) /\ (Succeed(p, t, token) \/ reload)
  <2>1. vault[first] = NULL /\ credential' = t /\ vault' = [vault EXCEPT ![first] = t]
        /\ ~CredentialTaken(CredOf[t])
    BY <1>1, <1>4 DEF Enroll, DualWrites, StoreInv, DualWriteAgrees
  <2>2. vault'[first] = t /\ \A v \in VaultID : vault[v] # NULL => vault'[v] = vault[v]
    BY <1>2, <2>1
  <2>3. TablesFirst' /\ DualWriteAgrees'
    BY <1>1, <2>1, <2>2 DEF TablesFirst, DualWriteAgrees
  <2>4. CredentialsDistinct'
    BY <1>1, <1>2, <2>1, InsertDistinct
  <2>5. Migrated' /\ Quiet' /\ PublishedIsDurable'
    <3>1. CASE Succeed(p, t, token)
      BY <1>1, <2>2, <3>1, SucceedQuiet
    <3>2. CASE reload
      BY <1>1, <1>3, <2>2, <3>2, CallQuiet
    <3> QED
      BY <1>4, <3>1, <3>2
  <2> QED
    BY <2>3, <2>4, <2>5
<1>5. CASE reload /\ UNCHANGED <<credential, vault>>
  BY <1>1, <1>3, <1>5, CallQuiet, TablesUnchanged
<1> QED
  BY <1>4, <1>5 DEF RegisterEnroll

LEMMA CreateStore ==
    ASSUME StoreInv, NEW p \in Process, NEW w \in Tenant, NEW i \in Invite, NEW t \in Tuple,
           CreateTenantVault(p, w, i, t)
    PROVE  /\ Migrated' /\ Quiet' /\ PublishedIsDurable'
           /\ TablesFirst' /\ DualWriteAgrees' /\ CredentialsDistinct'
<1>1. proc[p].pc = "up" /\ v4 /\ w \in VaultID /\ w # LegacyFirstVaultID /\ LegacyFirstVaultID \in VaultID
  BY EnrollmentAssumption DEF CreateTenantVault, Ready, StoreInv, Migrated, VaultID
<1>2. vault \in [VaultID -> Tuple \cup {NULL}] /\ published \in [Process -> [VaultID -> Tuple \cup {NULL}]]
  BY DEF StoreInv, TypeOK
<1>3. vault[w] = NULL /\ ~CredentialTaken(CredOf[t]) /\ vault' = [vault EXCEPT ![w] = t]
      /\ UNCHANGED <<credential, v4, proc, op>>
  BY DEF CreateTenantVault
<1>4. \A v \in VaultID : vault'[v] = IF v = w THEN t ELSE vault[v]
  BY <1>2, <1>3
<1>5. TablesFirst' /\ DualWriteAgrees'
  BY <1>1, <1>3, <1>4 DEF TablesFirst, DualWriteAgrees, StoreInv
<1>6. CredentialsDistinct'
  BY <1>1, <1>3, InsertDistinct
<1>7. ASSUME NEW q \in Process, NEW v \in VaultID
      PROVE  published'[q][v] = published[q][v] \/ (v = w /\ published'[q][v] = t)
  BY <1>1, <1>2 DEF CreateTenantVault
<1>8. PublishedIsDurable'
  BY <1>3, <1>4, <1>7 DEF StoreInv, PublishedIsDurable
<1>9. \A q \in Process : q # p => published'[q] = published[q]
  BY <1>2 DEF CreateTenantVault
<1>10. Migrated' /\ Quiet'
  BY <1>1, <1>3, <1>9 DEF StoreInv, Migrated, Quiet, NoVaults, Idle
<1> QED
  BY <1>5, <1>6, <1>8, <1>10

LEMMA NextStoreInv == StoreInv /\ [Next]_vars => StoreInv'
<1> SUFFICES ASSUME StoreInv, [Next]_vars PROVE StoreInv'
  OBVIOUS
<1> DEFINE Goal == /\ Migrated' /\ Quiet' /\ PublishedIsDurable'
                   /\ TablesFirst' /\ DualWriteAgrees' /\ CredentialsDistinct'
<1>1. ASSUME NEW p \in Process, Startup(p) PROVE Goal
  BY <1>1, StartupStore
<1>2. ASSUME NEW p \in Process, Crash(p) PROVE Goal
  BY <1>2, ProcessQuiet, TablesUnchanged DEF Crash, disk
<1>3. ASSUME NEW p \in Process, WindowCloses(p) PROVE Goal
  <2>1. UNCHANGED <<credential, v4, vault, published, op>> /\ \A q \in Process : proc'[q].pc = proc[q].pc
    BY <1>3 DEF WindowCloses, disk, StoreInv, TypeOK, ProcState
  <2>2. Migrated' /\ Quiet' /\ PublishedIsDurable'
    BY <2>1 DEF StoreInv, Migrated, Quiet, PublishedIsDurable, NoVaults, Idle
  <2> QED
    BY <2>1, <2>2, TablesUnchanged
<1>4. ASSUME NEW p \in Process, NEW t \in Tuple, NEW b \in Bootstrap, Register(p, t, b) PROVE Goal
  <2>1. proc[p].pc = "up" /\ UNCHANGED <<credential, v4, vault>>
    BY <1>4 DEF Register, Ready, disk
  <2>2. CASE AcceptPersistedEnrollment(p, t) \/ Refuse(p)
    BY <2>1, <2>2, AcceptStore
  <2>3. CASE op' = [op EXCEPT ![p] = [pc |-> "enroll", tuple |-> t, bootstrap |-> b]]
             /\ UNCHANGED <<published, proc>>
    BY <2>1, <2>3, CallQuiet, TablesUnchanged
  <2> QED
    BY <1>4, <2>2, <2>3 DEF Register
<1>5. ASSUME NEW p \in Process, RegisterEnroll(p) PROVE Goal
  BY <1>5, EnrollStore
<1>6. ASSUME NEW p \in Process, RegisterReload(p) PROVE Goal
  <2>1. proc[p].pc = "up" /\ op[p].tuple \in Tuple /\ UNCHANGED <<credential, v4, vault>>
    BY <1>6, CallerIsUp DEF RegisterReload, disk
  <2> QED
    BY <1>6, <2>1, AcceptStore DEF RegisterReload
<1>7. ASSUME NEW p \in Process, NEW w \in Tenant, NEW i \in Invite, NEW t \in Tuple,
             CreateTenantVault(p, w, i, t)
      PROVE  Goal
  BY <1>7, CreateStore
<1>8. ASSUME \/ \E p \in Process, i \in Invite : PutInvite(p, i)
             \/ \E p \in Process, i \in Invite, v \in Tenant : ReservePendingEnrollment(p, i, v)
             \/ \E i \in Invite : InviteExpires(i)
             \/ UNCHANGED vars
      PROVE  Goal
  BY <1>8, StoreStutter DEF PutInvite, ReservePendingEnrollment, InviteExpires, vars
<1>9. ASSUME LoseDatabase PROVE Goal
  <2>1. v4' = FALSE /\ vault' = NoVaults /\ UNCHANGED <<proc, published, op>>
        /\ \A p \in Process : proc[p].pc = "down" /\ published[p] = NoVaults /\ op[p] = Idle
    BY <1>9 DEF LoseDatabase, StoreInv, Quiet
  <2>2. \A v \in VaultID : vault'[v] = NULL /\ \A p \in Process : published'[p][v] = NULL
    BY <2>1 DEF NoVaults
  <2>3. Migrated' /\ Quiet' /\ TablesFirst' /\ DualWriteAgrees'
    BY <2>1 DEF Migrated, Quiet, TablesFirst, DualWriteAgrees, NoVaults, Idle
  <2>4. PublishedIsDurable'
    BY <2>2 DEF PublishedIsDurable
  <2>5. CredentialsDistinct'
    BY <2>2 DEF CredentialsDistinct
  <2> QED
    BY <2>3, <2>4, <2>5
<1> HIDE DEF Goal
<1>10. Goal
  BY <1>1, <1>2, <1>3, <1>4, <1>5, <1>6, <1>7, <1>8, <1>9 DEF Next
<1> QED
  BY <1>10, NextTypeOK DEF Goal, StoreInv

LEMMA StoreInvariance == Spec => []StoreInv
BY InitStoreInv, NextStoreInv, PTL DEF Spec

\* The v3 row and its v4 copy never drift, whichever path wrote them.
THEOREM RowsAgree == Spec => []DualWriteAgrees
BY StoreInvariance, PTL DEF StoreInv

\* Every process serves only vaults the database holds, as it holds them.
THEOREM PublishedDurable == Spec => []PublishedIsDurable
BY StoreInvariance, PTL DEF StoreInv

\* No two vaults share a WebAuthn credential.
THEOREM CredentialsUnique == Spec => []CredentialsDistinct
BY StoreInvariance, PTL DEF StoreInv

-----------------------------------------------------------------------------
(***************************************************************************)
(* The identity.  Which steps may write the credential row and answer.     *)
(***************************************************************************)

\* Every step but an enrollment and the loss of the file keeps the identity.
LEMMA IdentityKept ==
    ASSUME [Next]_vars
    PROVE  \/ credential' = credential
           \/ \E p \in Process : RegisterEnroll(p) /\ Enroll(op[p].tuple)
           \/ LoseDatabase
<1>1. ASSUME NEW p \in Process, Startup(p) PROVE credential' = credential
  BY <1>1 DEF Startup, Open, CheckBackup, VacuumInto, FinishBackup, Migrate, Arm, LoadVaults, disk
<1>2. ASSUME NEW p \in Process, RegisterEnroll(p)
      PROVE  credential' = credential \/ Enroll(op[p].tuple)
  BY <1>2 DEF RegisterEnroll
<1> QED
  BY <1>1, <1>2 DEF Next, vars, Crash, WindowCloses, Register, RegisterReload, PutInvite,
     CreateTenantVault, ReservePendingEnrollment, InviteExpires, disk

\* A step answers nobody, or one call, and then for the stored tuple.
LEMMA AnswersStored ==
    ASSUME [Next]_vars
    PROVE  accepted' = accepted \/ \E claim :
             accepted' = accepted \cup {[tuple |-> credential', claim |-> claim]}
<1> DEFINE Goal == accepted' = accepted \/ \E claim :
             accepted' = accepted \cup {[tuple |-> credential', claim |-> claim]}
<1>1. ASSUME NEW p \in Process, Startup(p) PROVE accepted' = accepted
  BY <1>1 DEF Startup, Open, CheckBackup, VacuumInto, FinishBackup, Migrate, Arm, LoadVaults
<1>2. ASSUME NEW p \in Process, NEW t, credential' = credential,
             AcceptPersistedEnrollment(p, t) \/ Refuse(p)
      PROVE  Goal
  BY <1>2 DEF AcceptPersistedEnrollment, Refuse, Succeed
<1>3. ASSUME NEW p \in Process, NEW t \in Tuple, NEW b \in Bootstrap, Register(p, t, b) PROVE Goal
  <2>1. credential' = credential
    BY <1>3 DEF Register, disk
  <2> QED
    BY <1>2, <1>3, <2>1 DEF Register
<1>4. ASSUME NEW p \in Process, RegisterReload(p) PROVE Goal
  <2>1. credential' = credential
    BY <1>4 DEF RegisterReload, disk
  <2> QED
    BY <1>2, <1>4, <2>1 DEF RegisterReload
<1>5. ASSUME NEW p \in Process, RegisterEnroll(p) PROVE Goal
  <2>1. CASE Enroll(op[p].tuple) /\ Succeed(p, op[p].tuple, op[p].bootstrap = EnrollmentToken)
    BY <2>1 DEF Enroll, Succeed
  <2>2. CASE accepted' = accepted
    BY <2>2
  <2> QED
    BY <1>5, <2>1, <2>2 DEF RegisterEnroll
<1>6. ASSUME \/ \E p \in Process : Crash(p) \/ WindowCloses(p)
             \/ \E p \in Process, i \in Invite : PutInvite(p, i)
             \/ \E p \in Process, i \in Invite, v \in Tenant :
                  ReservePendingEnrollment(p, i, v) \/ \E t \in Tuple : CreateTenantVault(p, v, i, t)
             \/ \E i \in Invite : InviteExpires(i)
             \/ LoseDatabase \/ UNCHANGED vars
      PROVE  accepted' = accepted
  BY <1>6 DEF Crash, WindowCloses, PutInvite, ReservePendingEnrollment, CreateTenantVault,
     InviteExpires, LoseDatabase, vars
<1> HIDE DEF Goal
<1>7. ASSUME accepted' = accepted PROVE Goal
  BY <1>7 DEF Goal
<1>8. Goal
  BY <1>1, <1>3, <1>4, <1>5, <1>6, <1>7 DEF Next
<1> QED
  BY <1>8 DEF Goal

\* Whoever was told that registration succeeded enrolled the stored tuple: no
\* race, ambiguous commit or restart replaces an identity or answers for
\* another one.
THEOREM RegisteredStored == Spec => []RegisteredIsStored
<1>1. Init => RegisteredIsStored
  BY DEF Init, RegisteredIsStored
<1>2. TypeOK /\ RegisteredIsStored /\ [Next]_vars => RegisteredIsStored'
  <2> SUFFICES ASSUME TypeOK, RegisteredIsStored, [Next]_vars, ~MayLoseDatabase,
                      NEW a \in accepted'
               PROVE  credential' = a.tuple
    BY DEF RegisteredIsStored
  <2>1. CASE a \in accepted
    <3>1. credential = a.tuple /\ a.tuple \in Tuple
      BY <2>1 DEF RegisteredIsStored, TypeOK
    <3>2. credential # NULL
      BY <3>1, EnrollmentAssumption
    <3>3. credential' = credential
      BY <3>2, IdentityKept DEF Enroll, LoseDatabase
    <3> QED
      BY <3>1, <3>3
  <2>2. CASE a \notin accepted
    BY <2>2, AnswersStored
  <2> QED
    BY <2>1, <2>2
<1> QED
  BY <1>1, <1>2, TypeCorrect, PTL DEF Spec

-----------------------------------------------------------------------------
(***************************************************************************)
(* The backup.  A process past CheckBackup has seen that the file, if      *)
(* there is one, holds the live identity, and nothing may change either    *)
(* while it runs.                                                          *)
(***************************************************************************)
Started(p) == proc[p].pc \notin {"down", "opened"}

BackupInv ==
    /\ \A p \in Process : proc[p].pc \in {"vacuum", "writing"} => credential # NULL
    /\ backup \in Tuple /\ (\E p \in Process : Started(p)) => credential = backup

LEMMA InitBackupInv == Init => BackupInv
BY DEF Init, Down, BackupInv, Started

\* Any step that keeps the identity, the file and every position keeps the
\* backup invariant; so does one that only stops a process.
LEMMA BackupStutter ==
    ASSUME BackupInv, credential' = credential, backup' = backup \/ backup' \notin Tuple,
           \A q \in Process :
              \/ proc'[q].pc = proc[q].pc
              \/ proc'[q].pc \in {"down", "opened"}
              \/ Started(q) /\ proc'[q].pc \notin {"vacuum", "writing"}
    PROVE  BackupInv'
BY DEF BackupInv, Started

LEMMA PositionAfter ==
    ASSUME TypeOK, NEW p \in Process
    PROVE  /\ Stop(p) => proc'[p].pc = "down"
           /\ \A pc : Advance(p, pc) => proc'[p].pc = pc
           /\ (Stop(p) \/ \E pc : Advance(p, pc)) => \A q \in Process : q # p => proc'[q] = proc[q]
BY DEF TypeOK, Stop, Advance, At, Down

LEMMA StartupBackup ==
    ASSUME TypeOK, BackupInv, NEW p \in Process, Startup(p) PROVE BackupInv'
<1>1. CASE Open(p)
  BY <1>1, PositionAfter, BackupStutter DEF Open, disk
<1>2. CASE CheckBackup(p)
  <2>1. credential' = credential /\ backup' = backup
    BY <1>2 DEF CheckBackup, disk
  <2>2. CASE Stop(p)
    BY <2>1, <2>2, PositionAfter, BackupStutter
  <2>3. CASE backup # NULL /\ AcceptExistingBackup(backup, credential) /\ Advance(p, "backedUp")
    BY <2>1, <2>3, PositionAfter DEF BackupInv, AcceptExistingBackup
  <2>4. CASE backup = NULL /\ credential = NULL /\ Advance(p, "backedUp")
    BY <2>1, <2>4, PositionAfter, EnrollmentAssumption DEF BackupInv
  <2>5. CASE backup = NULL /\ credential # NULL /\ Advance(p, "vacuum")
    BY <2>1, <2>5, PositionAfter, EnrollmentAssumption DEF BackupInv
  <2> QED
    BY <1>2, <2>2, <2>3, <2>4, <2>5 DEF CheckBackup
<1>3. CASE VacuumInto(p)
  <2>1. credential' = credential /\ proc[p].pc = "vacuum" /\ credential # NULL
    BY <1>3 DEF VacuumInto, disk, BackupInv
  <2>2. backup' \notin Tuple
    BY <1>3, EnrollmentAssumption DEF VacuumInto
  <2>3. proc'[p].pc \in {"down", "writing"} /\ \A q \in Process : q # p => proc'[q] = proc[q]
    BY <1>3, PositionAfter DEF VacuumInto
  <2> QED
    BY <2>1, <2>2, <2>3 DEF BackupInv
<1>4. CASE FinishBackup(p)
  <2>1. credential' = credential /\ proc[p].pc = "writing" /\ credential # NULL
    BY <1>4 DEF FinishBackup, disk, BackupInv
  <2>2. backup' \in {credential, NULL}
    BY <1>4 DEF FinishBackup
  <2>3. proc'[p].pc \in {"down", "backedUp"} /\ \A q \in Process : q # p => proc'[q] = proc[q]
    BY <1>4, PositionAfter DEF FinishBackup
  <2> QED
    BY <2>1, <2>2, <2>3, EnrollmentAssumption DEF BackupInv
<1>5. CASE Migrate(p)
  <2>1. Started(p) /\ credential' = credential /\ backup' = backup
    BY <1>5 DEF Migrate, Started
  <2>2. proc'[p].pc \in {"down", "migrated"} /\ \A q \in Process : q # p => proc'[q] = proc[q]
    BY <1>5, PositionAfter DEF Migrate
  <2> QED
    BY <2>1, <2>2, BackupStutter
<1>6. CASE Arm(p) \/ LoadVaults(p)
  <2>1. Started(p) /\ credential' = credential /\ backup' = backup
    BY <1>6 DEF Arm, LoadVaults, Started, disk
  <2>2. proc'[p].pc \in {"armed", "up"} /\ \A q \in Process : q # p => proc'[q] = proc[q]
    BY <1>6 DEF Arm, LoadVaults, TypeOK, ProcState
  <2> QED
    BY <2>1, <2>2, BackupStutter
<1> QED
  BY <1>1, <1>2, <1>3, <1>4, <1>5, <1>6 DEF Startup

\* Answers and the deadline move no process.
LEMMA PositionsKept ==
    ASSUME TypeOK, NEW p \in Process,
           WindowCloses(p) \/ Refuse(p) \/ \E t, claim : Succeed(p, t, claim)
    PROVE  \A q \in Process : proc'[q].pc = proc[q].pc
BY DEF TypeOK, ProcState, WindowCloses, Refuse, Succeed

LEMMA NextBackupInv == StoreInv /\ BackupInv /\ [Next]_vars => BackupInv'
<1> SUFFICES ASSUME StoreInv, BackupInv, [Next]_vars PROVE BackupInv'
  OBVIOUS
<1>0. TypeOK
  BY DEF StoreInv
<1>1. ASSUME NEW p \in Process, Startup(p) PROVE BackupInv'
  BY <1>0, <1>1, StartupBackup
<1>2. ASSUME NEW p \in Process, Crash(p) PROVE BackupInv'
  BY <1>0, <1>2, PositionAfter, BackupStutter DEF Crash, disk
<1>3. ASSUME NEW p \in Process, WindowCloses(p) PROVE BackupInv'
  BY <1>0, <1>3, PositionsKept, BackupStutter DEF WindowCloses, disk
<1>4. ASSUME NEW p \in Process, NEW t \in Tuple, NEW b \in Bootstrap, Register(p, t, b) PROVE BackupInv'
  <2>1. credential' = credential /\ backup' = backup
    BY <1>4 DEF Register, disk
  <2>2. proc' = proc \/ Refuse(p) \/ Succeed(p, t, claimed)
    BY <1>4 DEF Register, AcceptPersistedEnrollment
  <2>3. \A q \in Process : proc'[q].pc = proc[q].pc
    BY <1>0, <2>2, PositionsKept
  <2> QED
    BY <2>1, <2>3, BackupStutter
<1>5. ASSUME NEW p \in Process, RegisterEnroll(p) PROVE BackupInv'
  <2>1. proc[p].pc = "up" /\ backup' = backup
    BY <1>5, CallerIsUp DEF RegisterEnroll
  <2>2. proc' = proc \/ Succeed(p, op[p].tuple, op[p].bootstrap = EnrollmentToken)
    BY <1>5 DEF RegisterEnroll
  <2>3. \A q \in Process : proc'[q].pc = proc[q].pc
    BY <1>0, <2>2, PositionsKept
  <2>4. CASE credential' = credential
    BY <2>1, <2>3, <2>4, BackupStutter
  <2>5. CASE Enroll(op[p].tuple)
    <3>1. credential = NULL /\ credential' \in Tuple
      BY <1>5, <2>5, CallerIsUp DEF Enroll, RegisterEnroll
    <3>2. backup \notin Tuple
      BY <2>1, <3>1, EnrollmentAssumption DEF BackupInv, Started
    <3> QED
      BY <2>1, <2>3, <3>1, <3>2, EnrollmentAssumption DEF BackupInv
  <2> QED
    BY <1>5, <2>4, <2>5 DEF RegisterEnroll
<1>6. ASSUME NEW p \in Process, RegisterReload(p) PROVE BackupInv'
  <2>1. credential' = credential /\ backup' = backup
    BY <1>6 DEF RegisterReload, disk
  <2>2. Refuse(p) \/ \E t, claim : Succeed(p, t, claim)
    BY <1>6 DEF RegisterReload, AcceptPersistedEnrollment
  <2> QED
    BY <1>0, <2>1, <2>2, PositionsKept, BackupStutter
<1>7. ASSUME \/ \E p \in Process, i \in Invite : PutInvite(p, i)
             \/ \E p \in Process, i \in Invite, v \in Tenant :
                  ReservePendingEnrollment(p, i, v) \/ \E t \in Tuple : CreateTenantVault(p, v, i, t)
             \/ \E i \in Invite : InviteExpires(i)
             \/ UNCHANGED vars
      PROVE  BackupInv'
  <2>1. UNCHANGED <<credential, backup, proc>>
    BY <1>7 DEF PutInvite, ReservePendingEnrollment, CreateTenantVault, InviteExpires, vars
  <2> QED
    BY <2>1, BackupStutter
<1>8. CASE LoseDatabase
  BY <1>8 DEF LoseDatabase, BackupInv, Started
<1> QED
  BY <1>1, <1>2, <1>3, <1>4, <1>5, <1>6, <1>7, <1>8 DEF Next

\* A running process serves the identity of the backup file, so a database
\* that was lost and recreated is not opened for a new first claim.
THEOREM BackupGuards == Spec => []BackupGuardsIdentity
<1>1. BackupInv => BackupGuardsIdentity
  BY DEF BackupInv, BackupGuardsIdentity, Started
<1> QED
  BY <1>1, InitBackupInv, NextBackupInv, StoreInvariance, PTL DEF Spec

-----------------------------------------------------------------------------
(***************************************************************************)
(* Invitations.  InvitesOnce counts; InviteInv says the same with          *)
(* quantifiers: a consumed invitation names a vault no other one names,    *)
(* and the tenants' vaults are those named.                                *)
(***************************************************************************)
InviteInv ==
    /\ \A i, j \in Invite : invite[i] \in Tenant /\ invite[i] = invite[j] => i = j
    /\ \A v \in Tenant : vault[v] # NULL <=> \E i \in Invite : invite[i] = v

LEMMA InitInviteInv == Init => InviteInv
<1> SUFFICES ASSUME Init PROVE InviteInv
  OBVIOUS
<1>1. \A i \in Invite : invite[i] = NULL
  BY DEF Init
<1>2. \A v \in Tenant : vault[v] = NULL
  BY DEF Init, NoVaults, VaultID
<1>3. NULL \notin Tenant
  BY EnrollmentAssumption DEF VaultID
<1> QED
  BY <1>1, <1>2, <1>3 DEF InviteInv

\* Migration and enrollment write no tenant's row.
LEMMA TenantsKept ==
    ASSUME TypeOK, NEW p \in Process, Startup(p) \/ RegisterEnroll(p)
    PROVE  invite' = invite /\ \A v \in Tenant : vault'[v] = vault[v]
<1>1. vault \in [VaultID -> Tuple \cup {NULL}] /\ LegacyFirstVaultID \notin Tenant
      /\ Tenant \subseteq VaultID
  BY EnrollmentAssumption DEF TypeOK, VaultID
<1>2. CASE Startup(p)
  <2>1. invite' = invite /\ (vault' = vault \/ vault' = UpsertMigratedLegacyVault)
    BY <1>2 DEF Startup, Open, CheckBackup, VacuumInto, FinishBackup, Migrate, Arm, LoadVaults, disk
  <2> QED
    BY <1>1, <2>1 DEF UpsertMigratedLegacyVault
<1>3. CASE RegisterEnroll(p)
  BY <1>1, <1>3 DEF RegisterEnroll, Enroll
<1> QED
  BY <1>2, <1>3

LEMMA NextInviteInv == TypeOK /\ InviteInv /\ [Next]_vars => InviteInv'
<1> SUFFICES ASSUME TypeOK, InviteInv, [Next]_vars PROVE InviteInv'
  OBVIOUS
<1>1. invite \in [Invite -> Tenant \cup {"unused", "expired", NULL}]
      /\ vault \in [VaultID -> Tuple \cup {NULL}] /\ Tenant \subseteq VaultID
  BY DEF TypeOK, VaultID
<1>2. NULL \notin Tenant \cup Tuple /\ "unused" \notin Tenant /\ "expired" \notin Tenant
  BY EnrollmentAssumption DEF VaultID
<1>3. ASSUME invite' = invite, \A v \in Tenant : vault'[v] = vault[v] PROVE InviteInv'
  BY <1>3 DEF InviteInv
<1>4. ASSUME NEW i \in Invite, invite[i] \notin Tenant, vault' = vault,
             \E s \in {"unused", "expired"} : invite' = [invite EXCEPT ![i] = s]
      PROVE  InviteInv'
  <2>1. \A j \in Invite : invite'[j] = invite[j] \/ (j = i /\ invite'[j] \notin Tenant)
    BY <1>1, <1>2, <1>4
  <2>2. \A j \in Invite, v \in Tenant : invite'[j] = v <=> invite[j] = v
    BY <1>1, <1>2, <1>4, <2>1
  <2> QED
    BY <1>4, <2>1, <2>2 DEF InviteInv
<1>5. ASSUME NEW p \in Process, NEW w \in Tenant, NEW i \in Invite, NEW t \in Tuple,
             CreateTenantVault(p, w, i, t)
      PROVE  InviteInv'
  <2>1. vault[w] = NULL /\ invite[i] = "unused"
        /\ invite' = [invite EXCEPT ![i] = w] /\ vault' = [vault EXCEPT ![w] = t]
    BY <1>5 DEF CreateTenantVault, ConsumeInvite
  <2>2. \A j \in Invite : invite[j] # w
    BY <2>1 DEF InviteInv
  <2>3. \A j \in Invite : invite'[j] = IF j = i THEN w ELSE invite[j]
    BY <1>1, <2>1
  <2>4. \A v \in Tenant : vault'[v] = IF v = w THEN t ELSE vault[v]
    BY <1>1, <2>1
  <2>5. \A j, k \in Invite : invite'[j] \in Tenant /\ invite'[j] = invite'[k] => j = k
    BY <2>2, <2>3 DEF InviteInv
  <2>6. \A v \in Tenant : vault'[v] # NULL <=> \E j \in Invite : invite'[j] = v
    BY <1>2, <2>1, <2>3, <2>4 DEF InviteInv
  <2> QED
    BY <2>5, <2>6 DEF InviteInv
<1>6. CASE LoseDatabase
  <2>1. (\A i \in Invite : invite'[i] = NULL) /\ (\A v \in Tenant : vault'[v] = NULL)
    BY <1>1, <1>6 DEF LoseDatabase, NoVaults
  <2> QED
    BY <1>2, <2>1 DEF InviteInv
<1>7. ASSUME NEW p \in Process, Startup(p) \/ RegisterEnroll(p) PROVE InviteInv'
  BY <1>3, <1>7, TenantsKept
<1>8. ASSUME NEW i \in Invite, InviteExpires(i) \/ \E p \in Process : PutInvite(p, i) PROVE InviteInv'
  BY <1>2, <1>4, <1>8 DEF InviteExpires, PutInvite
<1>9. ASSUME \/ \E p \in Process : Crash(p) \/ WindowCloses(p) \/ RegisterReload(p)
             \/ \E p \in Process, t \in Tuple, b \in Bootstrap : Register(p, t, b)
             \/ \E p \in Process, i \in Invite, v \in Tenant : ReservePendingEnrollment(p, i, v)
             \/ UNCHANGED vars
      PROVE  InviteInv'
  <2>1. UNCHANGED <<invite, vault>>
    BY <1>9 DEF Crash, WindowCloses, RegisterReload, Register, ReservePendingEnrollment, vars, disk
  <2> QED
    BY <1>3, <2>1
<1> QED
  BY <1>5, <1>6, <1>7, <1>8, <1>9 DEF Next

\* An invitation makes one vault and a tenant's vault consumed one invitation.
THEOREM InvitesUsedOnce == Spec => []InvitesOnce
<1>1. InviteInv => InvitesOnce
  <2> SUFFICES ASSUME InviteInv, NEW v \in Tenant
               PROVE  Cardinality({i \in Invite : invite[i] = v}) = IF vault[v] = NULL THEN 0 ELSE 1
    BY DEF InvitesOnce
  <2>1. CASE vault[v] = NULL
    <3>1. {i \in Invite : invite[i] = v} = {}
      BY <2>1 DEF InviteInv
    <3> QED
      BY <2>1, <3>1, FS_EmptySet
  <2>2. CASE vault[v] # NULL
    <3>1. PICK i \in Invite : invite[i] = v
      BY <2>2 DEF InviteInv
    <3>2. {j \in Invite : invite[j] = v} = {i}
      BY <3>1 DEF InviteInv
    <3> QED
      BY <2>2, <3>2, FS_Singleton
  <2> QED
    BY <2>1, <2>2
<1> QED
  BY <1>1, InitInviteInv, NextInviteInv, TypeCorrect, PTL DEF Spec

-----------------------------------------------------------------------------
(***************************************************************************)
(* The first claim.  The token is checked when the call starts and the row *)
(* written later: what the call carries in between is what was checked.    *)
(* An answer that is given from the stored row stands for the call that    *)
(* wrote it, whichever process or restart that was.                        *)
(***************************************************************************)
CallsCarryToken ==
    ~OpenEnrollment => \A p \in Process : op[p].pc # "idle" => op[p].bootstrap = EnrollmentToken

ClaimInv == CallsCarryToken /\ FirstClaimCarriesToken

\* A call that goes on carries what it carried.
LEMMA CallsKept ==
    ASSUME TypeOK, CallsCarryToken, NEW p \in Process,
           op' \in {op, [op EXCEPT ![p] = Idle], [op EXCEPT ![p].pc = "reload"]},
           op'[p].pc # "idle" => op[p].pc # "idle"
    PROVE  CallsCarryToken'
<1>1. op \in [Process -> {Idle} \cup ActiveOp]
  BY DEF TypeOK
<1>2. ASSUME ~OpenEnrollment, NEW q \in Process, op'[q].pc # "idle"
      PROVE  op'[q].bootstrap = EnrollmentToken
  <2>1. op[q].pc # "idle"
    BY <1>1, <1>2 DEF Idle
  <2>2. op[q] \in ActiveOp
    BY <1>1, <2>1 DEF Idle
  <2>3. op'[q].bootstrap = op[q].bootstrap
    BY <1>1, <1>2, <2>2 DEF Idle, ActiveOp
  <2> QED
    BY <1>2, <2>1, <2>3 DEF CallsCarryToken
<1> QED
  BY <1>2 DEF CallsCarryToken

\* The row and its claim stay, or the row goes, and nobody is answered.
LEMMA ClaimKept ==
    ASSUME FirstClaimCarriesToken, accepted' = accepted,
           UNCHANGED <<credential, claimed>> \/ credential' = NULL
    PROVE  FirstClaimCarriesToken'
BY DEF FirstClaimCarriesToken

\* An answer from the stored row stands for that row's claim.
LEMMA ClaimAnswered ==
    ASSUME FirstClaimCarriesToken, UNCHANGED <<credential, claimed>>,
           NEW p \in Process, NEW t \in Tuple, AcceptPersistedEnrollment(p, t) \/ Refuse(p)
    PROVE  FirstClaimCarriesToken'
<1>1. CASE Refuse(p)
  BY <1>1, ClaimKept DEF Refuse
<1>2. CASE AcceptPersistedEnrollment(p, t)
  <2>1. credential # NULL /\ accepted' = accepted \cup {[tuple |-> t, claim |-> claimed]}
    BY <1>2, EnrollmentAssumption DEF AcceptPersistedEnrollment, Succeed
  <2>2. ASSUME ~OpenEnrollment PROVE claimed /\ \A a \in accepted : a.claim
    BY <2>1, <2>2 DEF FirstClaimCarriesToken
  <2>3. ASSUME ~OpenEnrollment, NEW a \in accepted' PROVE a.claim
    <3>1. CASE a \in accepted
      BY <2>2, <2>3, <3>1
    <3>2. CASE a = [tuple |-> t, claim |-> claimed]
      BY <2>2, <2>3, <3>2
    <3> QED
      BY <2>1, <2>3, <3>1, <3>2
  <2>4. ~OpenEnrollment => claimed'
    BY <2>2
  <2> QED
    BY <2>3, <2>4 DEF FirstClaimCarriesToken
<1> QED
  BY <1>1, <1>2

\* The enrolling transaction writes the row for a call that carries the token,
\* whether or not its COMMIT is reported.
LEMMA ClaimWritten ==
    ASSUME TypeOK, ClaimInv, NEW p \in Process, RegisterEnroll(p)
    PROVE  FirstClaimCarriesToken'
<1> DEFINE t == op[p].tuple
           token == op[p].bootstrap = EnrollmentToken
<1>1. ~OpenEnrollment => token
  BY DEF RegisterEnroll, ClaimInv, CallsCarryToken
<1> HIDE DEF token
<1>2. CASE UNCHANGED <<credential, claimed, accepted>>
  BY <1>2, ClaimKept DEF ClaimInv
<1>3. CASE claimed' = token /\ accepted' = accepted
  BY <1>1, <1>3 DEF ClaimInv, FirstClaimCarriesToken
<1>4. CASE claimed' = token /\ Succeed(p, t, token)
  <2>1. accepted' = accepted \cup {[tuple |-> t, claim |-> token]}
    BY <1>4 DEF Succeed
  <2>2. ASSUME ~OpenEnrollment, NEW a \in accepted' PROVE a.claim
    <3>1. CASE a \in accepted
      BY <2>2, <3>1 DEF ClaimInv, FirstClaimCarriesToken
    <3>2. CASE a = [tuple |-> t, claim |-> token]
      BY <1>1, <2>2, <3>2
    <3> QED
      BY <2>1, <2>2, <3>1, <3>2
  <2>3. ~OpenEnrollment => claimed'
    BY <1>1, <1>4
  <2> QED
    BY <2>2, <2>3 DEF FirstClaimCarriesToken
<1> QED
  BY <1>2, <1>3, <1>4 DEF RegisterEnroll, token

LEMMA NextClaimInv == TypeOK /\ ClaimInv /\ [Next]_vars => ClaimInv'
<1> SUFFICES ASSUME TypeOK, ClaimInv, [Next]_vars PROVE ClaimInv'
  OBVIOUS
<1>1. op \in [Process -> {Idle} \cup ActiveOp] /\ CallsCarryToken /\ FirstClaimCarriesToken
  BY DEF TypeOK, ClaimInv
<1>2. ASSUME UNCHANGED <<op, accepted>>, UNCHANGED <<credential, claimed>> \/ credential' = NULL
      PROVE  ClaimInv'
  BY <1>1, <1>2, ClaimKept DEF ClaimInv, CallsCarryToken
<1>3. ASSUME NEW p \in Process, Startup(p) \/ Crash(p) \/ WindowCloses(p) PROVE ClaimInv'
  <2>1. /\ UNCHANGED <<credential, claimed, accepted>>
        /\ op' = op \/ op' = [op EXCEPT ![p] = Idle]
    BY <1>3 DEF Startup, Open, CheckBackup, VacuumInto, FinishBackup, Migrate, Arm, LoadVaults,
                Crash, WindowCloses, Advance, Stop, disk
  <2>2. op'[p].pc # "idle" => op[p].pc # "idle"
    BY <1>1, <2>1 DEF Idle
  <2> QED
    BY <1>1, <2>1, <2>2, CallsKept, ClaimKept DEF ClaimInv
<1>4. ASSUME NEW p \in Process, NEW t \in Tuple, NEW b \in Bootstrap, Register(p, t, b)
      PROVE  ClaimInv'
  <2>1. UNCHANGED <<credential, claimed>>
    BY <1>4 DEF Register, disk
  <2>2. CASE credential # NULL
    <3>1. AcceptPersistedEnrollment(p, t) \/ Refuse(p)
      BY <1>4, <2>2 DEF Register
    <3>2. op' = [op EXCEPT ![p] = Idle] /\ op'[p].pc = "idle"
      BY <1>1, <3>1 DEF AcceptPersistedEnrollment, Succeed, Refuse, Idle
    <3> QED
      BY <1>1, <2>1, <3>1, <3>2, CallsKept, ClaimAnswered DEF ClaimInv
  <2>3. CASE credential = NULL
    <3>1. /\ ValidateEnrollmentBootstrap(p, b)
          /\ op' = [op EXCEPT ![p] = [pc |-> "enroll", tuple |-> t, bootstrap |-> b]]
          /\ accepted' = accepted
      BY <1>4, <2>3 DEF Register
    <3>2. ~OpenEnrollment => b = EnrollmentToken
      BY <3>1 DEF ValidateEnrollmentBootstrap
    <3>3. CallsCarryToken'
      BY <1>1, <3>1, <3>2 DEF CallsCarryToken
    <3> QED
      BY <1>1, <2>1, <3>1, <3>3, ClaimKept DEF ClaimInv
  <2> QED
    BY <2>2, <2>3
<1>5. ASSUME NEW p \in Process, RegisterEnroll(p) \/ RegisterReload(p) PROVE ClaimInv'
  <2>1. op[p].pc # "idle"
    BY <1>5 DEF RegisterEnroll, RegisterReload
  <2>2. op' \in {[op EXCEPT ![p] = Idle], [op EXCEPT ![p].pc = "reload"]}
    BY <1>5 DEF RegisterEnroll, RegisterReload, AcceptPersistedEnrollment, Succeed, Refuse
  <2>3. CallsCarryToken'
    BY <1>1, <2>1, <2>2, CallsKept
  <2>4. FirstClaimCarriesToken'
    <3>1. CASE RegisterEnroll(p)
      BY <3>1, ClaimWritten
    <3>2. CASE RegisterReload(p)
      <4>1. op[p].tuple \in Tuple /\ UNCHANGED <<credential, claimed>>
        BY <1>1, <2>1, <3>2 DEF RegisterReload, disk, Idle, ActiveOp
      <4> QED
        BY <1>1, <3>2, <4>1, ClaimAnswered DEF RegisterReload
    <3> QED
      BY <1>5, <3>1, <3>2
  <2> QED
    BY <2>3, <2>4 DEF ClaimInv
<1>6. ASSUME \/ \E i \in Invite : InviteExpires(i) \/ \E p \in Process : PutInvite(p, i)
             \/ \E p \in Process, v \in Tenant, i \in Invite, t \in Tuple : CreateTenantVault(p, v, i, t)
             \/ \E p \in Process, i \in Invite, v \in Tenant : ReservePendingEnrollment(p, i, v)
             \/ LoseDatabase
      PROVE  ClaimInv'
  BY <1>2, <1>6 DEF InviteExpires, PutInvite, CreateTenantVault, ReservePendingEnrollment, LoseDatabase
<1> QED
  BY <1>2, <1>3, <1>4, <1>5, <1>6 DEF Next, vars

\* Unless enrollment is open, the stored credential was written by a call with
\* the operator's token (validateEnrollmentBootstrap), and every successful
\* answer was given for such a row: by the transaction, by the reload after an
\* ambiguous commit or another process's win, or to a replay after a restart,
\* with any number of processes.
THEOREM FirstClaimHasToken == Spec => []FirstClaimCarriesToken
<1>1. Init => ClaimInv
  <2>1. Init => CallsCarryToken
    BY DEF Init, CallsCarryToken, Idle
  <2>2. Init => (credential # NULL => claimed) /\ accepted = {}
    BY Zenon DEF Init
  <2> QED
    BY <2>1, <2>2 DEF ClaimInv, FirstClaimCarriesToken
<1>2. ClaimInv => FirstClaimCarriesToken
  BY DEF ClaimInv
<1> QED
  BY <1>1, <1>2, NextClaimInv, TypeCorrect, PTL DEF Spec

-----------------------------------------------------------------------------
(***************************************************************************)
(* The rollback file, while processes start one at a time.  Where a start  *)
(* is tells what is at the backup's path, so that none of its error paths  *)
(* can remove the file the first migration relied on.                      *)
(***************************************************************************)
OneProcess == \A p, q \in Process : p = q

RollbackInv ==
    /\ rollback # NULL => backup = rollback
    /\ \A p \in Process :
        /\ proc[p].pc = "vacuum" => backup = NULL
        /\ proc[p].pc = "writing" => backup = p
        /\ proc[p].pc = "backedUp" => backup = credential

\* A step of the only process that leaves the file, the record of the first
\* migration and the credential alone.
LEMMA RollbackStutter ==
    ASSUME OneProcess, RollbackInv, TypeOK, UNCHANGED <<backup, rollback>>,
           NEW p \in Process,
           \/ proc'[p].pc \notin {"vacuum", "writing", "backedUp"}
           \/ proc'[p].pc = proc[p].pc /\ credential' = credential
    PROVE  RollbackInv'
BY DEF OneProcess, RollbackInv

LEMMA NextRollbackInv ==
    ASSUME OneProcess
    PROVE  StoreInv /\ RollbackInv /\ [Next]_vars => RollbackInv'
<1> SUFFICES ASSUME StoreInv, RollbackInv, [Next]_vars PROVE RollbackInv'
  OBVIOUS
<1>1. TypeOK /\ proc \in [Process -> ProcState] /\ rollback \in Tuple \cup {NULL}
      /\ NULL \notin Tuple \cup Process /\ Process \cap Tuple = {}
  BY EnrollmentAssumption DEF StoreInv, TypeOK
<1>2. CASE UNCHANGED <<proc, credential, backup, rollback>>
  BY <1>2 DEF RollbackInv
<1>3. ASSUME NEW p \in Process, Startup(p) PROVE RollbackInv'
  <2>1. CASE Open(p) \/ Arm(p) \/ LoadVaults(p)
    <3>1. UNCHANGED <<backup, rollback>>
      BY <2>1 DEF Open, Arm, LoadVaults
    <3>2. proc'[p].pc \in {"opened", "armed", "up"}
      BY <1>1, <2>1 DEF Open, Arm, LoadVaults, Advance, At, ProcState
    <3> QED
      BY <1>1, <3>1, <3>2, RollbackStutter
  <2>2. CASE CheckBackup(p)
    <3>1. UNCHANGED <<backup, rollback, credential>>
      BY <2>2 DEF CheckBackup, disk
    <3>2. \/ proc'[p].pc = "down"
          \/ proc'[p].pc = "vacuum" /\ backup = NULL
          \/ proc'[p].pc = "backedUp" /\ backup = credential
      BY <1>1, <2>2 DEF CheckBackup, AcceptExistingBackup, Advance, Stop, At, Down
    <3> QED
      BY <3>1, <3>2 DEF OneProcess, RollbackInv
  <2>3. CASE VacuumInto(p) \/ FinishBackup(p)
    <3>1. rollback' = rollback /\ credential' = credential /\ rollback = NULL
      BY <1>1, <2>3 DEF VacuumInto, FinishBackup, disk, RollbackInv
    <3>2. \/ proc'[p].pc = "down"
          \/ proc'[p].pc = "writing" /\ backup' = p
          \/ proc'[p].pc = "backedUp" /\ backup' = credential
      BY <1>1, <2>3 DEF VacuumInto, FinishBackup, Advance, Stop, At, Down
    <3> QED
      BY <3>1, <3>2 DEF OneProcess, RollbackInv
  <2>4. CASE Migrate(p)
    <3>1. backup' = backup /\ backup = credential /\ proc'[p].pc \in {"migrated", "down"}
      BY <1>1, <2>4 DEF Migrate, RollbackInv, Advance, Stop, At, Down
    <3>2. rollback' \in {rollback, credential}
      BY <2>4 DEF Migrate
    <3> QED
      BY <3>1, <3>2 DEF OneProcess, RollbackInv
  <2> QED
    BY <1>3, <2>1, <2>2, <2>3, <2>4 DEF Startup
<1>4. ASSUME NEW p \in Process, Crash(p) PROVE RollbackInv'
  <2>1. proc'[p].pc = "down" /\ UNCHANGED <<backup, rollback>>
    BY <1>1, <1>4 DEF Crash, Stop, Down
  <2> QED
    BY <1>1, <2>1, RollbackStutter
<1>5. ASSUME NEW p \in Process,
             \/ RegisterEnroll(p) \/ RegisterReload(p) \/ WindowCloses(p)
             \/ \E t \in Tuple, b \in Bootstrap : Register(p, t, b)
      PROVE  RollbackInv'
  <2>1. UNCHANGED <<backup, rollback>> /\ proc'[p].pc = proc[p].pc
    BY <1>1, <1>5 DEF Register, RegisterEnroll, RegisterReload, WindowCloses,
                      AcceptPersistedEnrollment, Succeed, Refuse, ProcState
  <2>2. proc[p].pc = "up" \/ credential' = credential
    BY <1>5, CallerIsUp DEF Register, RegisterReload, WindowCloses, disk, RegisterEnroll
  <2> QED
    BY <1>1, <2>1, <2>2, RollbackStutter
<1>6. ASSUME \/ \E i \in Invite : InviteExpires(i) \/ \E p \in Process : PutInvite(p, i)
             \/ \E p \in Process, v \in Tenant, i \in Invite, t \in Tuple : CreateTenantVault(p, v, i, t)
             \/ \E p \in Process, i \in Invite, v \in Tenant : ReservePendingEnrollment(p, i, v)
      PROVE  RollbackInv'
  BY <1>2, <1>6 DEF InviteExpires, PutInvite, CreateTenantVault, ReservePendingEnrollment
<1>7. CASE LoseDatabase
  BY <1>7 DEF LoseDatabase, RollbackInv
<1> QED
  BY <1>2, <1>3, <1>4, <1>5, <1>6, <1>7 DEF Next, vars

\* While processes start one at a time, the file that rolls the v4 migration
\* back stays as the migration found the database, through crashes at every
\* step of a start, later starts and a lost database.
THEOREM RollbackKept ==
    ASSUME OneProcess
    PROVE  Spec => []RollbackFileKept
<1>1. Init => RollbackInv
  BY DEF Init, RollbackInv, Down
<1>2. RollbackInv => RollbackFileKept
  BY DEF RollbackInv, RollbackFileKept
<1>3. StoreInv /\ RollbackInv /\ [Next]_vars => RollbackInv'
  BY NextRollbackInv
<1> QED
  BY <1>1, <1>2, <1>3, StoreInvariance, PTL DEF Spec
=============================================================================
