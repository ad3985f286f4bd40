------------------------ MODULE IssuanceLedgerProofs ------------------------
(***************************************************************************)
(* Theorems about IssuanceLedger for every set of processes, callers, keys *)
(* and requests and every allowance.  The inductive invariant has two      *)
(* parts: TablesInv, what the durable table and the histories satisfy, and *)
(* CallersInv, what a call may rely on between two transactions, while it  *)
(* holds no database lock and another process may write.                   *)
(***************************************************************************)
EXTENDS IssuanceLedger, BasicLemmas

Stages == {"vaultSign", "vaultCommit", "arkadeSign", "complete"}

\* The key of a call past its reservation is reserved for its request, and
\* what the call carries extends the stored stage it started from.
CallBound(c) ==
    LET in == call[c].in
        row == issuance[in.key]
        psbt == call[c].psbt IN
    call[c].pc \in Stages =>
        /\ in.key \in DOMAIN issuance
        /\ row.request = in.request
        /\ call[c].pc = "vaultSign" => psbt = in.request
        /\ call[c].pc = "vaultCommit" =>
             /\ psbt \in VaultPSBT /\ psbt.request = in.request
             /\ [key |-> in.key, psbt |-> psbt] \in keyUse
        /\ call[c].pc = "arkadeSign" =>
             row.state # "reserved" /\ psbt \in VaultPSBT /\ psbt = row.vault_psbt
        /\ call[c].pc = "complete" =>
             /\ row.state # "reserved"
             /\ psbt \in VaultPSBT \cup SignedPSBT
             /\ psbt.request = in.request /\ psbt.attempt = row.vault_psbt.attempt

CallersTyped ==
    /\ DOMAIN call = Caller
    /\ \A c \in Caller : call[c] = Idle \/ call[c] \in ActiveCall

CallersInv ==
    /\ CallersTyped
    /\ mu \in [Process -> Caller \cup {NULL}]
    /\ \A c \in Caller : CallBound(c)

TablesTyped ==
    /\ DOMAIN issuance \subseteq Key
    /\ \A k \in DOMAIN issuance : issuance[k] \in Row
    /\ keyUse \subseteq [key: Key, psbt: VaultPSBT]
    /\ dispatched \subseteq [key: Key, psbt: VaultPSBT]
    /\ answers \subseteq [key: Key, psbt: VaultPSBT \cup SignedPSBT]

TablesInv ==
    /\ TablesTyped
    /\ IsFiniteSet(keyUse)
    /\ KeyUseIsReserved
    /\ DispatchIsDurable
    /\ AnswersAgree
    /\ StagesExtend

StageInv == TablesInv /\ CallersInv /\ clock \in Period

-----------------------------------------------------------------------------
\* NULL marks an absent stage and is no PSBT.
LEMMA NullIsNoPSBT ==
    NULL \notin VaultPSBT /\ NULL \notin SignedPSBT
BY ConstantsAssumption

\* An active call has arguments of the right kind.
LEMMA CallArgsOf ==
    ASSUME CallersInv, NEW c \in Caller, call[c].pc # "idle"
    PROVE  /\ call[c] \in ActiveCall
           /\ call[c].in \in Input
           /\ call[c].in.key \in Key
           /\ call[c].in.request \in Request
           /\ call[c].in.recipient \in Int
           /\ call[c].in.fee \in Int
BY ConstantsAssumption DEF CallersInv, CallersTyped, ActiveCall, Idle, CallArgs

\* The initial state satisfies the invariant.
LEMMA InitStageInv == Init => StageInv
<1> SUFFICES ASSUME Init PROVE StageInv
  OBVIOUS
<1>1. CallersInv
  BY DEF Init, CallersInv, CallersTyped, CallBound, Stages, Idle
<1>2. IsFiniteSet(keyUse)
  BY FS_EmptySet DEF Init
<1>3. TablesInv
  BY <1>2 DEF Init, TablesInv, TablesTyped, KeyUseIsReserved, DispatchIsDurable, AnswersAgree, StagesExtend
<1> QED
  BY <1>1, <1>3 DEF Init, StageInv

\* What every step of every caller leaves of the rows others rely on.
RowsKept ==
    \A k \in DOMAIN issuance :
        /\ k \in DOMAIN issuance'
        /\ issuance'[k].request = issuance[k].request
        /\ issuance[k].state # "reserved" =>
             issuance'[k].state # "reserved" /\ issuance'[k].vault_psbt = issuance[k].vault_psbt

\* Another caller's step does not disturb a call.
LEMMA CallBoundStable ==
    ASSUME NEW d \in Caller, CallBound(d), RowsKept,
           keyUse \subseteq keyUse', call'[d] = call[d]
    PROVE  CallBound(d)'
BY DEF CallBound, RowsKept, Stages

\* A step that leaves tables alone keeps their part of the invariant.
LEMMA TablesUnchanged ==
    ASSUME TablesInv, UNCHANGED <<issuance, keyUse, dispatched, answers>>
    PROVE  TablesInv'
BY DEF TablesInv, TablesTyped, KeyUseIsReserved, DispatchIsDurable, AnswersAgree, StagesExtend, ValidStage

\* Going on to another stage, given that stage's bound.
LEMMA GotoCallers ==
    ASSUME CallersInv, NEW c \in Caller, call[c].pc # "idle", NEW pc \in Stages,
           NEW psbt \in Request \cup VaultPSBT \cup SignedPSBT, Goto(c, pc, psbt)
    PROVE  /\ call'[c] = [pc |-> pc, proc |-> call[c].proc, in |-> call[c].in, psbt |-> psbt]
           /\ (RowsKept /\ keyUse \subseteq keyUse' /\ CallBound(c)') => CallersInv'
<1>1. call[c] \in ActiveCall
  BY CallArgsOf
<1>2. /\ call' = [call EXCEPT ![c] = [pc |-> pc, proc |-> call[c].proc, in |-> call[c].in, psbt |-> psbt]]
      /\ mu' = mu
  BY DEF Goto
<1>3. [pc |-> pc, proc |-> call[c].proc, in |-> call[c].in, psbt |-> psbt] \in ActiveCall
  BY <1>1 DEF ActiveCall, Stages
<1>4. CallersTyped'
  BY <1>2, <1>3 DEF CallersInv, CallersTyped
<1>5. ASSUME RowsKept, keyUse \subseteq keyUse', CallBound(c)', NEW d \in Caller
      PROVE  CallBound(d)'
  <2>1. CASE d = c
    BY <1>5, <2>1
  <2>2. CASE d # c
    <3>1. call'[d] = call[d]
      BY <1>2, <2>2 DEF CallersInv, CallersTyped
    <3> QED
      BY <1>5, <3>1, CallBoundStable DEF CallersInv
  <2> QED
    BY <2>1, <2>2
<1>6. call'[c] = [pc |-> pc, proc |-> call[c].proc, in |-> call[c].in, psbt |-> psbt]
  BY <1>2 DEF CallersInv, CallersTyped
<1> QED
  BY <1>2, <1>4, <1>5, <1>6 DEF CallersInv

\* Returning ends the call and frees the mutex.
LEMMA ReturnCallers ==
    ASSUME CallersInv, NEW c \in Caller, call[c].pc # "idle", Return(c),
           RowsKept, keyUse \subseteq keyUse'
    PROVE  CallersInv'
<1>1. call[c].proc \in Process
  BY CallArgsOf DEF ActiveCall
<1>2. /\ call' = [call EXCEPT ![c] = Idle]
      /\ mu' = [mu EXCEPT ![call[c].proc] = NULL]
  BY DEF Return
<1>3. CallersTyped' /\ mu' \in [Process -> Caller \cup {NULL}]
  BY <1>1, <1>2 DEF CallersInv, CallersTyped
<1>4. ASSUME NEW d \in Caller PROVE CallBound(d)'
  <2>1. CASE d = c
    BY <1>2, <2>1 DEF CallersInv, CallersTyped, CallBound, Idle, Stages
  <2>2. CASE d # c
    <3>1. call'[d] = call[d]
      BY <1>2, <2>2 DEF CallersInv, CallersTyped
    <3> QED
      BY <3>1, CallBoundStable DEF CallersInv
  <2> QED
    BY <2>1, <2>2
<1> QED
  BY <1>3, <1>4 DEF CallersInv

-----------------------------------------------------------------------------
\* A reservation keeps the table's part of the invariant.
LEMMA InsertTables ==
    ASSUME TablesInv, NEW k \in Key, k \notin DOMAIN issuance, NEW row \in Row,
           row.state = "reserved", row.vault_psbt = NULL, row.signed_psbt = NULL,
           Insert(k, row), UNCHANGED <<keyUse, dispatched, answers>>
    PROVE  /\ TablesInv' /\ RowsKept
           /\ k \in DOMAIN issuance' /\ issuance'[k] = row
<1>1. /\ DOMAIN issuance' = DOMAIN issuance \cup {k}
      /\ issuance'[k] = row
      /\ \A x \in DOMAIN issuance : issuance'[x] = issuance[x]
  BY DEF Insert
<1>2. TablesTyped'
  BY <1>1 DEF TablesInv, TablesTyped
<1>3. KeyUseIsReserved' /\ DispatchIsDurable' /\ AnswersAgree'
  BY <1>1 DEF TablesInv, KeyUseIsReserved, DispatchIsDurable, AnswersAgree
<1>4. StagesExtend'
  BY <1>1 DEF TablesInv, StagesExtend, ValidStage
<1>5. RowsKept
  BY <1>1 DEF RowsKept
<1> QED
  BY <1>1, <1>2, <1>3, <1>4, <1>5 DEF TablesInv

\* So does making the private stage durable.
LEMMA VaultSignedTables ==
    ASSUME TablesInv, NEW k \in Key, NEW psbt \in VaultPSBT,
           [key |-> k, psbt |-> psbt] \in keyUse,
           CommitSigningStage(k, "reserved", VaultSignedRow(issuance[k], psbt)),
           UNCHANGED <<keyUse, dispatched, answers>>
    PROVE  /\ TablesInv' /\ RowsKept
           /\ issuance'[k].state = "vault_signed" /\ issuance'[k].vault_psbt = psbt
<1> DEFINE row == VaultSignedRow(issuance[k], psbt)
<1>1. k \in DOMAIN issuance /\ issuance[k] \in Row /\ issuance[k].state = "reserved"
  BY DEF TablesInv, TablesTyped, CommitSigningStage
<1>2. /\ row \in Row /\ row.state = "vault_signed" /\ row.vault_psbt = psbt
      /\ \A f \in {"period", "recipient", "fee", "request", "signed_psbt"} : row[f] = issuance[k][f]
  BY <1>1 DEF VaultSignedRow, Row
<1> HIDE DEF row
<1>3. /\ DOMAIN issuance' = DOMAIN issuance
      /\ issuance'[k] = row
      /\ \A x \in DOMAIN issuance \ {k} : issuance'[x] = issuance[x]
  BY <1>1 DEF CommitSigningStage, row
<1>4. TablesTyped'
  BY <1>2, <1>3 DEF TablesInv, TablesTyped
<1>5. KeyUseIsReserved'
  BY <1>1, <1>2, <1>3 DEF TablesInv, KeyUseIsReserved
<1>6. DispatchIsDurable'
  \* Nothing has been dispatched for a row that is only reserved.
  <2>1. \A d \in dispatched : d.key # k
    BY <1>1, NullIsNoPSBT DEF TablesInv, TablesTyped, DispatchIsDurable, StagesExtend, ValidStage
  <2> QED
    BY <1>3, <2>1 DEF TablesInv, DispatchIsDurable
<1>7. AnswersAgree'
  <2>1. \A a \in answers : a.key # k
    BY <1>1 DEF TablesInv, AnswersAgree
  <2> QED
    BY <1>3, <2>1 DEF TablesInv, AnswersAgree
<1>8. StagesExtend'
  <2>1. psbt.request = issuance[k].request
    BY DEF TablesInv, KeyUseIsReserved
  <2>2. row.signed_psbt = NULL /\ psbt # NULL
    BY <1>1, <1>2, NullIsNoPSBT DEF TablesInv, StagesExtend, ValidStage
  <2> QED
    BY <1>2, <1>3, <2>1, <2>2 DEF TablesInv, StagesExtend, ValidStage
<1>9. RowsKept
  BY <1>1, <1>2, <1>3 DEF RowsKept
<1> QED
  BY <1>2, <1>3, <1>4, <1>5, <1>6, <1>7, <1>8, <1>9 DEF TablesInv

\* So does completing the row, answered or not.
LEMMA CompletedTables ==
    ASSUME TablesInv, NEW k \in Key, NEW psbt \in VaultPSBT \cup SignedPSBT,
           k \in DOMAIN issuance, psbt.request = issuance[k].request,
           psbt.attempt = issuance[k].vault_psbt.attempt,
           CommitSigningStage(k, "vault_signed", CompletedRow(issuance[k], psbt)),
           answers' \in {answers, answers \cup {[key |-> k, psbt |-> psbt]}},
           UNCHANGED <<keyUse, dispatched>>
    PROVE  TablesInv' /\ RowsKept
<1> DEFINE row == CompletedRow(issuance[k], psbt)
<1>1. issuance[k] \in Row /\ issuance[k].state = "vault_signed"
  BY DEF TablesInv, TablesTyped, CommitSigningStage
<1>2. /\ row \in Row /\ row.state = "completed" /\ row.signed_psbt = psbt
      /\ \A f \in {"period", "recipient", "fee", "request", "vault_psbt"} : row[f] = issuance[k][f]
  BY <1>1 DEF CompletedRow, Row
<1> HIDE DEF row
<1>3. /\ DOMAIN issuance' = DOMAIN issuance
      /\ issuance'[k] = row
      /\ \A x \in DOMAIN issuance \ {k} : issuance'[x] = issuance[x]
  BY <1>1 DEF CommitSigningStage, row
<1>4. TablesTyped'
  BY <1>2, <1>3 DEF TablesInv, TablesTyped
<1>5. KeyUseIsReserved' /\ DispatchIsDurable'
  BY <1>1, <1>2, <1>3 DEF TablesInv, KeyUseIsReserved, DispatchIsDurable
<1>6. AnswersAgree'
  <2>1. \A a \in answers : a.key # k
    BY <1>1 DEF TablesInv, AnswersAgree
  <2> QED
    BY <1>2, <1>3, <2>1 DEF TablesInv, AnswersAgree
<1>7. StagesExtend'
  <2>1. row.vault_psbt # NULL /\ psbt # NULL
    BY <1>1, <1>2, NullIsNoPSBT DEF TablesInv, StagesExtend, ValidStage
  <2> QED
    BY <1>1, <1>2, <1>3, <2>1 DEF TablesInv, StagesExtend, ValidStage
<1>8. RowsKept
  BY <1>1, <1>2, <1>3 DEF RowsKept
<1> QED
  BY <1>4, <1>5, <1>6, <1>7, <1>8 DEF TablesInv

-----------------------------------------------------------------------------
\* RowsKept and the histories' growth hold trivially when nothing is written.
LEMMA QuietStep ==
    ASSUME StageInv, NEW c \in Caller, call[c].pc # "idle",
           UNCHANGED <<issuance, clock, keyUse>>, TablesInv',
           \/ Return(c)
           \/ \E pc \in Stages, psbt \in Request \cup VaultPSBT \cup SignedPSBT :
                Goto(c, pc, psbt) /\ CallBound(c)'
    PROVE  StageInv'
<1>1. RowsKept
  BY DEF RowsKept
<1>2. CASE Return(c)
  BY <1>1, <1>2, ReturnCallers DEF StageInv
<1>3. CASE \E pc \in Stages, psbt \in Request \cup VaultPSBT \cup SignedPSBT :
              Goto(c, pc, psbt) /\ CallBound(c)'
  <2>1. PICK pc \in Stages, psbt \in Request \cup VaultPSBT \cup SignedPSBT :
              Goto(c, pc, psbt) /\ CallBound(c)'
    BY <1>3
  <2>2. CallersInv'
    BY <1>1, <2>1, GotoCallers DEF StageInv
  <2> QED
    BY <2>2 DEF StageInv
<1> QED
  BY <1>2, <1>3

LEMMA CallStageInv ==
    ASSUME StageInv, NEW c \in Caller, NEW p \in Process, NEW in \in Input, Call(c, p, in)
    PROVE  StageInv'
<1>1. TablesInv'
  BY TablesUnchanged DEF StageInv, Call
<1>2. CallersTyped'
  BY DEF StageInv, CallersInv, CallersTyped, ActiveCall, Call
<1>3. \A d \in Caller : CallBound(d)'
  BY DEF StageInv, CallersInv, CallersTyped, Call, CallBound, Stages
<1> QED
  BY <1>1, <1>2, <1>3 DEF StageInv, CallersInv, Call

LEMMA LockStageInv ==
    ASSUME StageInv, NEW c \in Caller, Lock(c)
    PROVE  StageInv'
<1>1. TablesInv'
  BY TablesUnchanged DEF StageInv, Lock
<1>2. CallersTyped'
  BY DEF StageInv, CallersInv, CallersTyped, ActiveCall, Lock, Idle
<1>3. \A d \in Caller : CallBound(d)'
  BY DEF StageInv, CallersInv, CallersTyped, Lock, CallBound, Stages
<1>4. mu' \in [Process -> Caller \cup {NULL}]
  BY CallArgsOf DEF StageInv, CallersInv, ActiveCall, Lock
<1> QED
  BY <1>1, <1>2, <1>3, <1>4 DEF StageInv, CallersInv, Lock

LEMMA ReserveFreshStageInv ==
    ASSUME StageInv, NEW c \in Caller, ReserveFresh(c)
    PROVE  StageInv'
<1> DEFINE in == call[c].in
<1>1. call[c].pc = "reserve" /\ in.key \notin DOMAIN issuance
  BY DEF ReserveFresh
<1>2. in.key \in Key /\ in.request \in Request /\ in.recipient \in Int /\ in.fee \in Int
  BY <1>1, CallArgsOf DEF StageInv
<1>3. NewRow(in) \in Row
  BY <1>2 DEF NewRow, Row, StageInv
<1>4. /\ NewRow(in).state = "reserved" /\ NewRow(in).vault_psbt = NULL
      /\ NewRow(in).signed_psbt = NULL /\ NewRow(in).request = in.request
  BY DEF NewRow
<1>5. /\ Insert(in.key, NewRow(in)) /\ clock' = clock
      /\ UNCHANGED <<keyUse, dispatched, answers>>
  BY DEF ReserveFresh
<1>6. /\ TablesInv' /\ RowsKept
      /\ in.key \in DOMAIN issuance' /\ issuance'[in.key] = NewRow(in)
  BY <1>1, <1>2, <1>3, <1>4, <1>5, InsertTables DEF StageInv
<1>7. CASE Return(c)
  BY <1>1, <1>5, <1>6, <1>7, ReturnCallers DEF StageInv
<1>8. CASE Goto(c, "vaultSign", in.request)
  <2>1. /\ call'[c] = [pc |-> "vaultSign", proc |-> call[c].proc, in |-> in, psbt |-> in.request]
        /\ CallBound(c)' => CallersInv'
    BY <1>1, <1>2, <1>5, <1>6, <1>8, GotoCallers DEF StageInv, Stages
  <2>2. CallBound(c)'
    BY <2>1, <1>4, <1>6 DEF CallBound
  <2> QED
    BY <2>1, <2>2, <1>5, <1>6 DEF StageInv
<1> QED
  BY <1>7, <1>8 DEF ReserveFresh

LEMMA ReserveExistingStageInv ==
    ASSUME StageInv, NEW c \in Caller, ReserveExisting(c)
    PROVE  StageInv'
<1> DEFINE in == call[c].in
           row == issuance[in.key]
<1>1. /\ call[c].pc = "reserve" /\ in.key \in DOMAIN issuance
      /\ row.request = in.request
      /\ UNCHANGED <<issuance, clock, keyUse, dispatched>>
  BY DEF ReserveExisting, SameBinding
<1>2. in.key \in Key /\ in.request \in Request
  BY <1>1, CallArgsOf DEF StageInv
<1>3. row \in Row
  BY <1>1 DEF StageInv, TablesInv, TablesTyped
<1>4. CASE /\ row.state = "reserved" /\ Goto(c, "vaultSign", row.request) /\ UNCHANGED answers
  <2>1. call'[c] = [pc |-> "vaultSign", proc |-> call[c].proc, in |-> in, psbt |-> row.request]
    BY <1>1, <1>2, <1>4, GotoCallers DEF StageInv, Stages
  <2>2. CallBound(c)'
    BY <1>1, <2>1 DEF CallBound
  <2>3. TablesInv'
    BY <1>1, <1>4, TablesUnchanged DEF StageInv
  <2> QED
    BY <1>1, <1>2, <1>4, <2>2, <2>3, QuietStep DEF Stages
<1>5. CASE /\ row.state = "vault_signed" /\ Goto(c, "arkadeSign", row.vault_psbt) /\ UNCHANGED answers
  <2>1. row.vault_psbt \in VaultPSBT
    BY <1>1, <1>3, <1>5 DEF StageInv, TablesInv, StagesExtend, ValidStage, Row
  <2>2. call'[c] = [pc |-> "arkadeSign", proc |-> call[c].proc, in |-> in, psbt |-> row.vault_psbt]
    BY <1>1, <1>5, <2>1, GotoCallers DEF StageInv, Stages
  <2>3. CallBound(c)'
    BY <1>1, <1>5, <2>1, <2>2 DEF CallBound
  <2>4. TablesInv'
    BY <1>1, <1>5, TablesUnchanged DEF StageInv
  <2> QED
    BY <1>1, <1>5, <2>1, <2>3, <2>4, QuietStep DEF Stages
<1>6. CASE Return(c) /\ UNCHANGED answers
  <2>1. TablesInv'
    BY <1>1, <1>6, TablesUnchanged DEF StageInv
  <2> QED
    BY <1>1, <1>6, <2>1, QuietStep
<1>7. CASE /\ row.state = "completed" /\ Return(c)
           /\ answers' = answers \cup {[key |-> in.key, psbt |-> row.signed_psbt]}
  <2>1. row.signed_psbt \in VaultPSBT \cup SignedPSBT
    BY <1>1, <1>3, <1>7 DEF StageInv, TablesInv, StagesExtend, ValidStage, Row
  <2>2. TablesTyped'
    BY <1>1, <1>2, <1>7, <2>1 DEF StageInv, TablesInv, TablesTyped
  <2>3. AnswersAgree'
    BY <1>1, <1>7 DEF StageInv, TablesInv, AnswersAgree
  <2>4. TablesInv'
    BY <1>1, <2>2, <2>3
       DEF StageInv, TablesInv, KeyUseIsReserved, DispatchIsDurable, StagesExtend, ValidStage
  <2> QED
    BY <1>1, <1>7, <2>4, QuietStep
<1> QED
  BY <1>4, <1>5, <1>6, <1>7 DEF ReserveExisting, ResumeAt

LEMMA VaultSignStageInv ==
    ASSUME StageInv, NEW c \in Caller, VaultSign(c)
    PROVE  StageInv'
<1> DEFINE in == call[c].in
           n == Cardinality(Attempts(in.key)) + 1
           psbt == [request |-> call[c].psbt, attempt |-> n]
<1>1. call[c].pc = "vaultSign" /\ UNCHANGED <<issuance, clock, dispatched, answers>>
  BY DEF VaultSign
<1>2. in.key \in Key /\ in.request \in Request
  BY <1>1, CallArgsOf DEF StageInv
<1>3. call[c].psbt = in.request /\ in.key \in DOMAIN issuance /\ issuance[in.key].request = in.request
  BY <1>1 DEF StageInv, CallersInv, CallBound, Stages
<1>4. n \in 1..MaxSigns
  <2>1. Cardinality(Attempts(in.key)) \in Nat
    <3>1. Attempts(in.key) \in SUBSET keyUse
      BY DEF Attempts
    <3> QED
      BY <3>1, FS_Subset, FS_CardinalityType DEF StageInv, TablesInv
  <2> QED
    BY <2>1, ConstantsAssumption DEF VaultSign
<1>5. psbt \in VaultPSBT
  BY <1>2, <1>3, <1>4 DEF VaultPSBT
<1>6. keyUse' = keyUse \cup {[key |-> in.key, psbt |-> psbt]}
  BY DEF VaultSign
<1>7. psbt.request = in.request
  BY <1>3
<1>8. Goto(c, "vaultCommit", psbt) \/ Return(c)
  BY DEF VaultSign
<1> HIDE DEF psbt, n
<1>9. TablesInv'
  <2>1. IsFiniteSet(keyUse')
    BY <1>6, FS_AddElement DEF StageInv, TablesInv
  <2>2. TablesTyped'
    BY <1>1, <1>2, <1>5, <1>6 DEF StageInv, TablesInv, TablesTyped
  <2>3. KeyUseIsReserved'
    BY <1>1, <1>3, <1>6, <1>7 DEF StageInv, TablesInv, KeyUseIsReserved
  <2>4. StagesExtend'
    BY <1>1, <1>6 DEF StageInv, TablesInv, StagesExtend, ValidStage
  <2> QED
    BY <1>1, <2>1, <2>2, <2>3, <2>4 DEF StageInv, TablesInv, DispatchIsDurable, AnswersAgree
<1>10. RowsKept /\ keyUse \subseteq keyUse'
  BY <1>1, <1>6 DEF RowsKept
<1>11. CASE Return(c)
  BY <1>1, <1>9, <1>10, <1>11, ReturnCallers DEF StageInv
<1>12. CASE Goto(c, "vaultCommit", psbt)
  <2>1. /\ call'[c] = [pc |-> "vaultCommit", proc |-> call[c].proc, in |-> in, psbt |-> psbt]
        /\ CallBound(c)' => CallersInv'
    BY <1>1, <1>5, <1>10, <1>12, GotoCallers DEF StageInv, Stages
  <2>2. CallBound(c)'
    BY <1>1, <1>3, <1>5, <1>6, <1>7, <2>1 DEF CallBound
  <2> QED
    BY <1>1, <1>9, <2>1, <2>2 DEF StageInv
<1> QED
  BY <1>8, <1>11, <1>12

LEMMA CommitVaultSignedStageInv ==
    ASSUME StageInv, NEW c \in Caller, CommitVaultSigned(c)
    PROVE  StageInv'
<1> DEFINE in == call[c].in
           psbt == call[c].psbt
<1>1. /\ call[c].pc = "vaultCommit"
      /\ CommitSigningStage(in.key, "reserved", VaultSignedRow(issuance[in.key], psbt))
      /\ UNCHANGED <<clock, keyUse, dispatched, answers>>
      /\ Goto(c, "arkadeSign", psbt) \/ Return(c)
  BY DEF CommitVaultSigned
<1>2. in.key \in Key
  BY <1>1, CallArgsOf DEF StageInv
<1>3. /\ psbt \in VaultPSBT /\ [key |-> in.key, psbt |-> psbt] \in keyUse
      /\ in.key \in DOMAIN issuance /\ issuance[in.key].request = in.request
  BY <1>1 DEF StageInv, CallersInv, CallBound, Stages
<1>4. /\ TablesInv' /\ RowsKept
      /\ issuance'[in.key].state = "vault_signed" /\ issuance'[in.key].vault_psbt = psbt
  BY <1>1, <1>2, <1>3, VaultSignedTables DEF StageInv
<1>5. CASE Return(c)
  BY <1>1, <1>4, <1>5, ReturnCallers DEF StageInv
<1>6. CASE Goto(c, "arkadeSign", psbt)
  <2>1. /\ call'[c] = [pc |-> "arkadeSign", proc |-> call[c].proc, in |-> in, psbt |-> psbt]
        /\ CallBound(c)' => CallersInv'
    BY <1>1, <1>3, <1>4, <1>6, GotoCallers DEF StageInv, Stages
  <2>2. in.key \in DOMAIN issuance' /\ issuance'[in.key].request = in.request
    BY <1>3, <1>4 DEF RowsKept
  <2>3. CallBound(c)'
    BY <1>3, <1>4, <2>1, <2>2 DEF CallBound
  <2> QED
    BY <1>1, <1>4, <2>1, <2>3 DEF StageInv
<1> QED
  BY <1>1, <1>5, <1>6

LEMMA ArkadeSignStageInv ==
    ASSUME StageInv, NEW c \in Caller, ArkadeSign(c)
    PROVE  StageInv'
<1> DEFINE in == call[c].in
           sent == call[c].psbt
           answer(s) == [request |-> sent.request, attempt |-> sent.attempt, cosig |-> s]
<1>1. /\ call[c].pc = "arkadeSign"
      /\ dispatched' = dispatched \cup {[key |-> in.key, psbt |-> sent]}
      /\ UNCHANGED <<issuance, clock, keyUse, answers>>
      /\ (\E s \in CoSig : Goto(c, "complete", answer(s))) \/ Return(c)
  BY DEF ArkadeSign
<1>2. in.key \in Key
  BY <1>1, CallArgsOf DEF StageInv
<1>3. /\ in.key \in DOMAIN issuance /\ issuance[in.key].request = in.request
      /\ issuance[in.key].state # "reserved"
      /\ sent \in VaultPSBT /\ sent = issuance[in.key].vault_psbt
  BY <1>1 DEF StageInv, CallersInv, CallBound, Stages
<1>4. TablesInv'
  <2>1. TablesTyped'
    BY <1>1, <1>2, <1>3 DEF StageInv, TablesInv, TablesTyped
  <2>2. DispatchIsDurable'
    BY <1>1, <1>3 DEF StageInv, TablesInv, DispatchIsDurable
  <2> QED
    BY <1>1, <2>1, <2>2
       DEF StageInv, TablesInv, KeyUseIsReserved, AnswersAgree, StagesExtend, ValidStage
<1>5. CASE Return(c)
  BY <1>1, <1>4, <1>5, QuietStep
<1>6. ASSUME NEW s \in CoSig, Goto(c, "complete", answer(s))
      PROVE  StageInv'
  <2>1. answer(s) \in SignedPSBT
    BY <1>3 DEF VaultPSBT, SignedPSBT
  <2>2. sent.request = in.request
    BY <1>3 DEF StageInv, TablesInv, StagesExtend
  <2>3. call'[c] = [pc |-> "complete", proc |-> call[c].proc, in |-> in, psbt |-> answer(s)]
    BY <1>1, <1>6, <2>1, GotoCallers DEF StageInv, Stages
  <2>4. CallBound(c)'
    BY <1>1, <1>3, <2>1, <2>2, <2>3 DEF CallBound
  <2> QED
    BY <1>1, <1>4, <1>6, <2>1, <2>4, QuietStep DEF Stages
<1> QED
  BY <1>1, <1>5, <1>6

LEMMA LegacyArkadeStageStageInv ==
    ASSUME StageInv, NEW c \in Caller, LegacyArkadeStage(c)
    PROVE  StageInv'
<1> DEFINE in == call[c].in
           psbt == call[c].psbt
<1>1. /\ call[c].pc = "arkadeSign" /\ Goto(c, "complete", psbt)
      /\ UNCHANGED <<issuance, clock, keyUse, dispatched, answers>>
  BY DEF LegacyArkadeStage
<1>2. /\ in.key \in DOMAIN issuance /\ issuance[in.key].request = in.request
      /\ issuance[in.key].state # "reserved"
      /\ psbt \in VaultPSBT /\ psbt = issuance[in.key].vault_psbt
  BY <1>1 DEF StageInv, CallersInv, CallBound, Stages
<1>3. psbt.request = in.request
  BY <1>2 DEF StageInv, TablesInv, StagesExtend
<1>4. call'[c] = [pc |-> "complete", proc |-> call[c].proc, in |-> in, psbt |-> psbt]
  BY <1>1, <1>2, GotoCallers DEF StageInv, Stages
<1>5. CallBound(c)'
  BY <1>1, <1>2, <1>3, <1>4 DEF CallBound
<1>6. TablesInv'
  BY <1>1, TablesUnchanged DEF StageInv
<1> QED
  BY <1>1, <1>2, <1>5, <1>6, QuietStep DEF Stages

LEMMA CommitCompletionStageInv ==
    ASSUME StageInv, NEW c \in Caller, CommitCompletion(c)
    PROVE  StageInv'
<1> DEFINE in == call[c].in
           psbt == call[c].psbt
<1>1. /\ call[c].pc = "complete" /\ Return(c)
      /\ CommitSigningStage(in.key, "vault_signed", CompletedRow(issuance[in.key], psbt))
      /\ answers' \in {answers, answers \cup {[key |-> in.key, psbt |-> psbt]}}
      /\ UNCHANGED <<clock, keyUse, dispatched>>
  BY DEF CommitCompletion
<1>2. in.key \in Key
  BY <1>1, CallArgsOf DEF StageInv
<1>3. /\ in.key \in DOMAIN issuance /\ psbt \in VaultPSBT \cup SignedPSBT
      /\ psbt.request = issuance[in.key].request
      /\ psbt.attempt = issuance[in.key].vault_psbt.attempt
  BY <1>1 DEF StageInv, CallersInv, CallBound, Stages
<1>4. TablesInv' /\ RowsKept
  BY <1>1, <1>2, <1>3, CompletedTables DEF StageInv
<1> QED
  BY <1>1, <1>4, ReturnCallers DEF StageInv

LEMMA CrashStageInv ==
    ASSUME StageInv, NEW p \in Process, Crash(p)
    PROVE  StageInv'
<1>1. TablesInv'
  BY TablesUnchanged DEF StageInv, Crash
<1>2. CallersTyped'
  BY DEF StageInv, CallersInv, CallersTyped, Crash
<1>3. \A d \in Caller : CallBound(d)'
  BY DEF StageInv, CallersInv, CallersTyped, Crash, CallBound, Stages, Idle
<1> QED
  BY <1>1, <1>2, <1>3 DEF StageInv, CallersInv, Crash

\* Every step keeps the invariant.
LEMMA NextStageInv == StageInv /\ [Next]_vars => StageInv'
<1> SUFFICES ASSUME StageInv, [Next]_vars PROVE StageInv'
  OBVIOUS
<1>1. ASSUME NEW c \in Caller, NEW p \in Process, NEW in \in Input, Call(c, p, in)
      PROVE  StageInv'
  BY <1>1, CallStageInv
<1>2. ASSUME NEW c \in Caller, Lock(c) PROVE StageInv'
  BY <1>2, LockStageInv
<1>3. ASSUME NEW c \in Caller, Step(c) PROVE StageInv'
  <2>1. CASE ReserveFresh(c)
    BY <2>1, ReserveFreshStageInv
  <2>2. CASE ReserveRefused(c) \/ ReserveMismatch(c) \/ Fail(c)
    <3>1. /\ call[c].pc # "idle" /\ Return(c)
          /\ UNCHANGED <<issuance, clock, keyUse, dispatched, answers>>
      BY <2>2 DEF ReserveRefused, ReserveMismatch, Fail
    <3>2. TablesInv'
      BY <3>1, TablesUnchanged DEF StageInv
    <3> QED
      BY <3>1, <3>2, QuietStep
  <2>3. CASE ReserveExisting(c)
    BY <2>3, ReserveExistingStageInv
  <2>4. CASE VaultSign(c)
    BY <2>4, VaultSignStageInv
  <2>5. CASE CommitVaultSigned(c)
    BY <2>5, CommitVaultSignedStageInv
  <2>6. CASE ArkadeSign(c)
    BY <2>6, ArkadeSignStageInv
  <2>7. CASE LegacyArkadeStage(c)
    BY <2>7, LegacyArkadeStageStageInv
  <2>8. CASE CommitCompletion(c)
    BY <2>8, CommitCompletionStageInv
  <2> QED
    BY <1>3, <2>1, <2>2, <2>3, <2>4, <2>5, <2>6, <2>7, <2>8 DEF Step
<1>4. ASSUME NEW p \in Process, Crash(p) PROVE StageInv'
  BY <1>4, CrashStageInv
<1>5. CASE Tick \/ UNCHANGED vars
  <2>1. /\ UNCHANGED <<issuance, mu, call, keyUse, dispatched, answers>>
        /\ clock' \in Period
    BY <1>5 DEF Tick, vars, StageInv
  <2>2. TablesInv'
    BY <2>1, TablesUnchanged DEF StageInv
  <2>3. CallersInv'
    BY <2>1 DEF StageInv, CallersInv, CallersTyped, CallBound
  <2> QED
    BY <2>1, <2>2, <2>3 DEF StageInv
<1> QED
  BY <1>1, <1>2, <1>3, <1>4, <1>5 DEF Next

\* The invariant implies the properties the runs check.
LEMMA StageInvImplies ==
    StageInv => TypeOK /\ KeyUseIsReserved /\ DispatchIsDurable /\ AnswersAgree /\ StagesExtend
BY DEF StageInv, TablesInv, TablesTyped, CallersInv, CallersTyped, TypeOK

LEMMA StageInvariance == Spec => []StageInv
BY InitStageInv, NextStageInv, PTL DEF Spec

\* Type correctness of the ledger and of every call.
THEOREM TypeCorrect == Spec => []TypeOK
BY StageInvariance, StageInvImplies, PTL

\* The VaultCosigner key is used only under a durable reservation of exactly
\* the request it signs, in any number of processes (IssueSequential).
THEOREM KeyUseReserved == Spec => []KeyUseIsReserved
BY StageInvariance, StageInvImplies, PTL

\* The public cosigner is sent only durable private stages.
THEOREM DispatchDurable == Spec => []DispatchIsDurable
BY StageInvariance, StageInvImplies, PTL

\* All answers for one digest are the same signed PSBT.
THEOREM OneAnswer == Spec => []AnswersAgree
BY StageInvariance, StageInvImplies, PTL

\* Stored stages extend one another.
THEOREM StagesConsistent == Spec => []StagesExtend
BY StageInvariance, StageInvImplies, PTL

-----------------------------------------------------------------------------
(***************************************************************************)
(* The daily allowance.  The budget alone is not inductive: a sum is only  *)
(* known to grow by the inserted outflow when the summed rows are finitely *)
(* many satoshis, and the comparison in commitReservation only bounds the  *)
(* outflow when the arguments are valid and their sum does not wrap.       *)
(***************************************************************************)
BudgetInv ==
    /\ \A c \in Caller : call[c].pc # "idle" => ValidArgs(call[c].in)
    /\ \A v \in Vault, p \in Period : IsFiniteSet(Sats(Outflow, RowsIn(v, p)))
    /\ PeriodBudget

\* Division leaves a small dividend as the remainder.
LEMMA SmallMod ==
    ASSUME NEW d \in Nat, NEW a \in Nat, a < d
    PROVE  a % d = a
OBVIOUS

\* An amount that fits int64 is not wrapped.
LEMMA WrapSmall ==
    ASSUME NEW n \in Nat, n <= MaxInt64
    PROVE  Wrap64(n) = n
<1>1. MaxInt64 \in Nat
  BY ConstantsAssumption
<1>2. (n + MaxInt64 + 1) % (2 * (MaxInt64 + 1)) = n + MaxInt64 + 1
  BY <1>1, SmallMod
<1> QED
  BY <1>1, <1>2 DEF Wrap64

\* A step that changes no key, day or amount of a row changes no spending.
RowsFixed ==
    /\ DOMAIN issuance' = DOMAIN issuance
    /\ \A k \in DOMAIN issuance :
         \A f \in {"period", "recipient", "fee"} : issuance'[k][f] = issuance[k][f]

LEMMA SpendingFixed ==
    ASSUME RowsFixed
    PROVE  Outflow' = Outflow /\ \A v, p : RowsIn(v, p)' = RowsIn(v, p)
<1>1. \A k \in DOMAIN issuance : /\ issuance'[k].period = issuance[k].period
                                 /\ issuance'[k].recipient = issuance[k].recipient
                                 /\ issuance'[k].fee = issuance[k].fee
  BY DEF RowsFixed
<1>2. DOMAIN issuance' = DOMAIN issuance
  BY DEF RowsFixed
<1> QED
  BY <1>1, <1>2 DEF Outflow, RowsIn

LEMMA BudgetFixed ==
    ASSUME BudgetInv, RowsFixed
    PROVE  PeriodBudget' /\ \A v \in Vault, p \in Period : IsFiniteSet(Sats(Outflow, RowsIn(v, p)))'
BY SpendingFixed DEF BudgetInv, PeriodBudget, SpentInPeriod

\* A commit of a signing stage touches no amount.
LEMMA CommitRowsFixed ==
    ASSUME TablesInv, NEW k \in Key, NEW want, NEW row, CommitSigningStage(k, want, row),
           \A f \in {"period", "recipient", "fee"} : row[f] = issuance[k][f]
    PROVE  RowsFixed
BY DEF CommitSigningStage, RowsFixed

\* A reservation that fits the allowance keeps every day's budget.
LEMMA ReserveFreshBudget ==
    ASSUME StageInv, BudgetInv, NEW c \in Caller, ReserveFresh(c)
    PROVE  PeriodBudget' /\ \A v \in Vault, p \in Period : IsFiniteSet(Sats(Outflow, RowsIn(v, p)))'
<1> DEFINE in == call[c].in
           k == in.key
           need == in.recipient + in.fee
<1>1. /\ call[c].pc = "reserve" /\ k \notin DOMAIN issuance /\ FitsAllowance(in)
      /\ Insert(k, NewRow(in))
  BY DEF ReserveFresh
<1>2. /\ k \in Key /\ in \in Input /\ in.recipient \in Int /\ in.fee \in Int
      /\ ValidArgs(in) /\ VaultOf[k] \in Vault /\ clock \in Period
  BY <1>1, CallArgsOf, ConstantsAssumption DEF StageInv, BudgetInv
<1>3. need \in Nat /\ need <= MaxInt64
  BY <1>1, <1>2, ConstantsAssumption DEF FitsAllowance, AddOutflowOverflows, ValidArgs
<1>4. need <= Allowance - SpentInPeriod(VaultOf[k], clock)
  BY <1>1, <1>3, WrapSmall DEF FitsAllowance
<1>5. /\ DOMAIN issuance' = DOMAIN issuance \cup {k}
      /\ issuance'[k] = NewRow(in)
      /\ \A x \in DOMAIN issuance : issuance'[x] = issuance[x]
  BY <1>1 DEF Insert
<1>6. /\ \A x \in DOMAIN issuance : Outflow'[x] = Outflow[x]
      /\ Outflow'[k] = need
  BY <1>5 DEF Outflow, NewRow
<1>7. ASSUME NEW v \in Vault, NEW p \in Period
      PROVE  /\ IsFiniteSet(Sats(Outflow, RowsIn(v, p)))'
             /\ Allowance >= 0 => SpentInPeriod(v, p)' <= Allowance
  <2>1. /\ RowsIn(v, p) \subseteq DOMAIN issuance
        /\ IsFiniteSet(Sats(Outflow, RowsIn(v, p)))
        /\ Allowance >= 0 => SpentInPeriod(v, p) <= Allowance
    BY DEF RowsIn, BudgetInv, PeriodBudget
  <2>2. CASE v = VaultOf[k] /\ p = clock
    <3>1. RowsIn(v, p)' = RowsIn(v, p) \cup {k}
      BY <1>5, <2>2 DEF RowsIn, NewRow
    <3>2. \A x \in RowsIn(v, p) : Outflow'[x] = Outflow[x]
      BY <1>6, <2>1
    <3>3. k \notin RowsIn(v, p)
      BY <1>1, <2>1
    <3>4. /\ IsFiniteSet(Sats(Outflow', RowsIn(v, p) \cup {k}))
          /\ SumOver(Outflow', RowsIn(v, p) \cup {k}) = SumOver(Outflow, RowsIn(v, p)) + Outflow'[k]
      <4>1. Outflow'[k] \in Nat
        BY <1>3, <1>6
      <4>2. \A f, g, K, x :
              /\ x \notin K
              /\ \A y \in K : g[y] = f[y]
              /\ g[x] \in Nat
              /\ IsFiniteSet(Sats(f, K))
              => /\ IsFiniteSet(Sats(g, K \cup {x}))
                 /\ SumOver(g, K \cup {x}) = SumOver(f, K) + g[x]
        BY SumInsert
      <4> HIDE DEF k
      <4> QED
        BY <2>1, <3>2, <3>3, <4>1, <4>2
    <3>5. SumOver(Outflow, RowsIn(v, p)) \in Nat
      BY <2>1, FS_CardinalityType DEF SumOver
    <3>6. SpentInPeriod(v, p)' = SpentInPeriod(v, p) + need
      BY <1>6, <3>1, <3>4 DEF SpentInPeriod
    <3>7. SpentInPeriod(v, p)' <= Allowance
      BY <1>3, <1>4, <2>2, <3>5, <3>6, ConstantsAssumption DEF SpentInPeriod
    <3> QED
      BY <3>1, <3>4, <3>7
  <2>3. CASE ~(v = VaultOf[k] /\ p = clock)
    <3>1. RowsIn(v, p)' = RowsIn(v, p)
      BY <1>5, <2>3 DEF RowsIn, NewRow
    <3>2. Sats(Outflow', RowsIn(v, p)) = Sats(Outflow, RowsIn(v, p))
      BY <1>6, <2>1, SatsExtensional
    <3> QED
      BY <2>1, <3>1, <3>2 DEF SpentInPeriod, SumOver
  <2> QED
    BY <2>2, <2>3
<1> QED
  BY <1>7 DEF PeriodBudget

\* No step replaces the arguments of a running call.
LEMMA ArgsKept ==
    ASSUME StageInv, [Next]_vars, \A c \in Caller : call[c].pc # "idle" => ValidArgs(call[c].in)
    PROVE  \A c \in Caller : call'[c].pc # "idle" => ValidArgs(call'[c].in)
<1>1. ASSUME NEW c \in Caller, Return(c), NEW d \in Caller, call'[d].pc # "idle"
      PROVE  call'[d] = call[d]
  BY <1>1 DEF Return, Idle, StageInv, CallersInv, CallersTyped
<1>2. ASSUME NEW c \in Caller, NEW pc, NEW psbt, call[c].pc # "idle", Goto(c, pc, psbt),
             NEW d \in Caller, call'[d].pc # "idle"
      PROVE  call[d].pc # "idle" /\ call'[d].in = call[d].in
  BY <1>2 DEF Goto, StageInv, CallersInv, CallersTyped
<1>3. ASSUME NEW c \in Caller, Step(c)
      PROVE  Return(c) \/ (call[c].pc # "idle" /\ \E pc, psbt : Goto(c, pc, psbt))
  BY <1>3 DEF Step, ReserveFresh, ReserveRefused, ReserveExisting, ResumeAt, ReserveMismatch, VaultSign,
              CommitVaultSigned, ArkadeSign, LegacyArkadeStage, CommitCompletion, Fail
<1>4. ASSUME NEW c \in Caller, Step(c), NEW d \in Caller, call'[d].pc # "idle"
      PROVE  ValidArgs(call'[d].in)
  BY <1>1, <1>2, <1>3, <1>4
<1>5. ASSUME NEW c \in Caller, NEW p \in Process, NEW in \in Input, Call(c, p, in),
             NEW d \in Caller, call'[d].pc # "idle"
      PROVE  ValidArgs(call'[d].in)
  BY <1>5 DEF Call, StageInv, CallersInv, CallersTyped
<1>6. ASSUME NEW c \in Caller, Lock(c), NEW d \in Caller, call'[d].pc # "idle"
      PROVE  ValidArgs(call'[d].in)
  BY <1>6 DEF Lock, StageInv, CallersInv, CallersTyped
<1>7. ASSUME NEW p \in Process, Crash(p), NEW d \in Caller, call'[d].pc # "idle"
      PROVE  ValidArgs(call'[d].in)
  BY <1>7 DEF Crash, Idle, StageInv, CallersInv, CallersTyped
<1>8. CASE Tick \/ UNCHANGED vars
  BY <1>8 DEF Tick, vars
<1> QED
  BY <1>4, <1>5, <1>6, <1>7, <1>8 DEF Next

\* What each step does to the table: it inserts one reservation, commits one
\* signing stage, or leaves the rows alone.
LEMMA TableSteps ==
    ASSUME StageInv, [Next]_vars
    PROVE  \/ \E c \in Caller : ReserveFresh(c)
           \/ \E c \in Caller : CommitVaultSigned(c)
           \/ \E c \in Caller : CommitCompletion(c)
           \/ issuance' = issuance
BY DEF Next, vars, Step, Call, Lock, ReserveRefused, ReserveExisting, ReserveMismatch, VaultSign,
       ArkadeSign, LegacyArkadeStage, Fail, Crash, Tick

\* A committed private stage: the row before and after.
LEMMA VaultSignedEffect ==
    ASSUME StageInv, NEW c \in Caller, CommitVaultSigned(c)
    PROVE  LET k == call[c].in.key IN
           /\ k \in DOMAIN issuance /\ issuance[k].state = "reserved"
           /\ DOMAIN issuance' = DOMAIN issuance
           /\ \A x \in DOMAIN issuance \ {k} : issuance'[x] = issuance[x]
           /\ issuance'[k].state = "vault_signed"
           /\ \A f \in {"period", "recipient", "fee", "request", "signed_psbt"} :
                issuance'[k][f] = issuance[k][f]
<1> DEFINE k == call[c].in.key
<1>1. /\ k \in DOMAIN issuance /\ issuance[k].state = "reserved"
      /\ issuance' = [issuance EXCEPT ![k] = VaultSignedRow(issuance[k], call[c].psbt)]
  BY DEF CommitVaultSigned, CommitSigningStage
<1>2. issuance[k] \in Row
  BY <1>1 DEF StageInv, TablesInv, TablesTyped
<1>3. LET row == VaultSignedRow(issuance[k], call[c].psbt) IN
      /\ row.state = "vault_signed"
      /\ \A f \in {"period", "recipient", "fee", "request", "signed_psbt"} : row[f] = issuance[k][f]
  BY <1>2 DEF VaultSignedRow, Row
<1> QED
  BY <1>1, <1>3

\* A completed row, before and after.
LEMMA CompletedEffect ==
    ASSUME StageInv, NEW c \in Caller, CommitCompletion(c)
    PROVE  LET k == call[c].in.key IN
           /\ k \in DOMAIN issuance /\ issuance[k].state = "vault_signed"
           /\ DOMAIN issuance' = DOMAIN issuance
           /\ \A x \in DOMAIN issuance \ {k} : issuance'[x] = issuance[x]
           /\ issuance'[k].state = "completed"
           /\ issuance'[k].signed_psbt = call[c].psbt
           /\ \A f \in {"period", "recipient", "fee", "request", "vault_psbt"} :
                issuance'[k][f] = issuance[k][f]
<1> DEFINE k == call[c].in.key
<1>1. /\ k \in DOMAIN issuance /\ issuance[k].state = "vault_signed"
      /\ issuance' = [issuance EXCEPT ![k] = CompletedRow(issuance[k], call[c].psbt)]
  BY DEF CommitCompletion, CommitSigningStage
<1>2. issuance[k] \in Row
  BY <1>1 DEF StageInv, TablesInv, TablesTyped
<1>3. LET row == CompletedRow(issuance[k], call[c].psbt) IN
      /\ row.state = "completed" /\ row.signed_psbt = call[c].psbt
      /\ \A f \in {"period", "recipient", "fee", "request", "vault_psbt"} : row[f] = issuance[k][f]
  BY <1>2 DEF CompletedRow, Row
<1> QED
  BY <1>1, <1>3

LEMMA InitBudgetInv == Init => BudgetInv
<1> SUFFICES ASSUME Init PROVE BudgetInv
  OBVIOUS
<1>1. \A c \in Caller : call[c].pc = "idle"
  BY DEF Init, Idle
<1>2. ASSUME NEW v, NEW p PROVE RowsIn(v, p) = {}
  BY DEF Init, RowsIn
<1> QED
  BY <1>1, <1>2, SumEmpty, ConstantsAssumption DEF BudgetInv, PeriodBudget, SpentInPeriod

LEMMA NextBudgetInv == StageInv /\ BudgetInv /\ [Next]_vars => BudgetInv'
<1> SUFFICES ASSUME StageInv, BudgetInv, [Next]_vars PROVE BudgetInv'
  OBVIOUS
<1>1. \A c \in Caller : call'[c].pc # "idle" => ValidArgs(call'[c].in)
  BY ArgsKept DEF BudgetInv
<1>2. ASSUME RowsFixed PROVE BudgetInv'
  BY <1>1, <1>2, BudgetFixed DEF BudgetInv, ValidArgs
<1>3. ASSUME NEW c \in Caller, ReserveFresh(c) PROVE BudgetInv'
  BY <1>1, <1>3, ReserveFreshBudget DEF BudgetInv, ValidArgs
<1>4. ASSUME NEW c \in Caller, CommitVaultSigned(c) PROVE RowsFixed
  BY <1>4, VaultSignedEffect DEF RowsFixed
<1>5. ASSUME NEW c \in Caller, CommitCompletion(c) PROVE RowsFixed
  BY <1>5, CompletedEffect DEF RowsFixed
<1>6. CASE issuance' = issuance
  BY <1>2, <1>6 DEF RowsFixed
<1> QED
  BY <1>2, <1>3, <1>4, <1>5, <1>6, TableSteps

\* No vault's reservations of a UTC day exceed the allowance, for any number
\* of processes, callers, vaults and days (commitReservation).
THEOREM BudgetHolds == Spec => []PeriodBudget
<1>1. StageInv /\ BudgetInv => PeriodBudget
  BY DEF BudgetInv
<1> QED
  BY <1>1, InitBudgetInv, NextBudgetInv, StageInvariance, PTL DEF Spec

\* A row is never deleted, re-bound or moved back (commitSigningStage).
THEOREM RowsNeverRegress == Spec => RowsOnlyAdvance
<1>1. StageInv /\ [Next]_vars => [RowsAdvance]_vars
  <2> SUFFICES ASSUME StageInv, [Next]_vars PROVE RowsAdvance
    OBVIOUS
  <2>1. CASE issuance' = issuance
    BY <2>1 DEF RowsAdvance
  <2>2. ASSUME NEW c \in Caller, ReserveFresh(c) PROVE RowsAdvance
    <3>1. \A x \in DOMAIN issuance : x \in DOMAIN issuance' /\ issuance'[x] = issuance[x]
      BY <2>2 DEF ReserveFresh, Insert
    <3> QED
      BY <3>1 DEF RowsAdvance
  <2>3. ASSUME NEW c \in Caller, CommitVaultSigned(c) PROVE RowsAdvance
    BY <2>3, VaultSignedEffect DEF RowsAdvance, StageOrder
  <2>4. ASSUME NEW c \in Caller, CommitCompletion(c) PROVE RowsAdvance
    BY <2>4, CompletedEffect DEF RowsAdvance, StageOrder
  <2> QED
    BY <2>1, <2>2, <2>3, <2>4, TableSteps
<1> QED
  BY <1>1, StageInvariance, PTL DEF Spec, RowsOnlyAdvance

-----------------------------------------------------------------------------
(***************************************************************************)
(* Key use.  Which calls are about to use the key, and how they got there, *)
(* decides how often it is used: a call signs over a reservation it has    *)
(* just made, or over one it may resume.                                   *)
(***************************************************************************)
Signing(c, k) == call[c].pc = "vaultSign" /\ call[c].in.key = k

\* How a step can end or move on a call.
LEMMA StepMoves ==
    ASSUME NEW c \in Caller, Step(c)
    PROVE  /\ call[c].pc \notin {"idle", "wait"}
           /\ Return(c) \/ \E pc \in Stages : \E psbt : Goto(c, pc, psbt)
BY DEF Step, ReserveFresh, ReserveRefused, ReserveExisting, ResumeAt, ReserveMismatch, VaultSign,
       CommitVaultSigned, ArkadeSign, LegacyArkadeStage, CommitCompletion, Fail, Stages

\* A step changes its own call only, and keeps the arguments of a live one.
LEMMA StepIsLocal ==
    ASSUME StageInv, NEW c \in Caller, Step(c)
    PROVE  /\ \A d \in Caller : d # c => call'[d] = call[d]
           /\ call'[c].pc # "idle" => call'[c].in = call[c].in /\ call'[c].proc = call[c].proc
<1>1. DOMAIN call = Caller
  BY DEF StageInv, CallersInv, CallersTyped
<1>2. CASE Return(c)
  BY <1>1, <1>2 DEF Return, Idle
<1>3. CASE \E pc \in Stages : \E psbt : Goto(c, pc, psbt)
  BY <1>1, <1>3 DEF Goto
<1> QED
  BY <1>2, <1>3, StepMoves

\* The reservation of in's key is in's own, and in may sign over it.
MayResumeAt(in) ==
    /\ in \in Input /\ in.resumeReserved
    /\ in.key \in DOMAIN issuance
    /\ issuance[in.key].state = "reserved" /\ issuance[in.key].request = in.request

\* A call comes to the key by a new reservation, or over one it may resume.
LEMMA SigningStarts ==
    ASSUME StageInv, [Next]_vars, NEW d \in Caller, call'[d].pc = "vaultSign"
    PROVE  \/ call'[d] = call[d]
           \/ ReserveFresh(d) /\ call'[d].in = call[d].in
           \/ call'[d].in = call[d].in /\ MayResumeAt(call[d].in) /\ issuance' = issuance
<1>1. DOMAIN call = Caller
  BY DEF StageInv, CallersInv, CallersTyped
<1>2. ASSUME NEW c \in Caller, NEW p \in Process, NEW in \in Input, Call(c, p, in)
      PROVE  call'[d] = call[d]
  BY <1>1, <1>2 DEF Call
<1>3. ASSUME NEW c \in Caller, Lock(c) PROVE call'[d] = call[d]
  <2>1. call[c] \in ActiveCall
    BY <1>3, CallArgsOf DEF Lock, StageInv
  <2> QED
    BY <1>1, <1>3, <2>1 DEF Lock, ActiveCall
<1>4. ASSUME NEW p \in Process, Crash(p) PROVE call'[d] = call[d]
  BY <1>1, <1>4 DEF Crash, Idle
<1>5. CASE Tick \/ UNCHANGED vars
  BY <1>5 DEF Tick, vars
<1>6. ASSUME NEW c \in Caller, Step(c), c # d PROVE call'[d] = call[d]
  BY <1>6, StepIsLocal
<1>7. ASSUME Step(d)
      PROVE  /\ call'[d].in = call[d].in
             /\ ReserveFresh(d) \/ (MayResumeAt(call[d].in) /\ issuance' = issuance)
  <2>1. call'[d].in = call[d].in /\ call[d].in \in Input
    BY <1>7, StepIsLocal, StepMoves, CallArgsOf DEF StageInv
  <2>2. ~Return(d)
    BY <1>1 DEF Return, Idle
  <2>3. ASSUME NEW pc, NEW psbt, Goto(d, pc, psbt) PROVE pc = "vaultSign"
    BY <1>1, <2>3 DEF Goto
  <2>4. ReserveFresh(d) \/ ReserveExisting(d)
    BY <1>7, <2>2, <2>3 DEF Step, ReserveRefused, ReserveMismatch, VaultSign, CommitVaultSigned,
                            ArkadeSign, LegacyArkadeStage, CommitCompletion, Fail
  <2>5. CASE ReserveExisting(d)
    BY <2>1, <2>2, <2>3, <2>5 DEF ReserveExisting, ResumeAt, SameBinding, MayResume, MayResumeAt
  <2> QED
    BY <2>1, <2>4, <2>5
<1> QED
  BY <1>2, <1>3, <1>4, <1>5, <1>6, <1>7 DEF Next

\* The key is used by VaultSign alone.
LEMMA KeyUseSteps ==
    ASSUME [Next]_vars
    PROVE  keyUse' = keyUse \/ \E c \in Caller : VaultSign(c)
BY DEF Next, vars, Step, Call, Lock, ReserveFresh, ReserveRefused, ReserveExisting, ReserveMismatch,
       CommitVaultSigned, ArkadeSign, LegacyArkadeStage, CommitCompletion, Fail, Crash, Tick

\* A use of the key: by the call that then leaves the stage.
LEMMA VaultSignEffect ==
    ASSUME StageInv, NEW c \in Caller, VaultSign(c)
    PROVE  /\ Signing(c, call[c].in.key)
           /\ call'[c].pc # "vaultSign"
           /\ issuance' = issuance
           /\ \E u : u.key = call[c].in.key /\ keyUse' = keyUse \cup {u}
<1>1. DOMAIN call = Caller
  BY DEF StageInv, CallersInv, CallersTyped
<1>2. Signing(c, call[c].in.key) /\ call'[c].pc # "vaultSign" /\ issuance' = issuance
  BY <1>1 DEF VaultSign, Signing, Goto, Return, Idle
<1>3. \E psbt : keyUse' = keyUse \cup {[key |-> call[c].in.key, psbt |-> psbt]}
  BY DEF VaultSign
<1> QED
  BY <1>2, <1>3

\* No row changes its request, and a fresh one was not there.
LEMMA RequestsFixed ==
    ASSUME StageInv, [Next]_vars, NEW k \in DOMAIN issuance'
    PROVE  \/ k \in DOMAIN issuance /\ issuance'[k].request = issuance[k].request
           \/ k \notin DOMAIN issuance
<1>1. ASSUME NEW c \in Caller, ReserveFresh(c), k \in DOMAIN issuance
      PROVE  issuance'[k] = issuance[k]
  BY <1>1 DEF ReserveFresh, Insert
<1>2. ASSUME NEW c \in Caller, CommitVaultSigned(c)
      PROVE  k \in DOMAIN issuance /\ issuance'[k].request = issuance[k].request
  BY <1>2, VaultSignedEffect
<1>3. ASSUME NEW c \in Caller, CommitCompletion(c)
      PROVE  k \in DOMAIN issuance /\ issuance'[k].request = issuance[k].request
  BY <1>3, CompletedEffect
<1> QED
  BY <1>1, <1>2, <1>3, TableSteps

\* The rows that Ledger.Issue made, and what holds of their calls: at most one
\* is at the key, none once the key was used, and it was used once at most.
LegacyKey(k) == \E in \in Input : in.request = issuance[k].request /\ ~in.resumeReserved

LegacyInv ==
    \A k \in DOMAIN issuance : LegacyKey(k) =>
        /\ \A c, d \in Caller : Signing(c, k) /\ Signing(d, k) => c = d
        /\ \A c \in Caller : Signing(c, k) => \A u \in keyUse : u.key # k
        /\ \A u, w \in keyUse : u.key = k /\ w.key = k => u = w

LEMMA NextLegacyInv == StageInv /\ LegacyInv /\ [Next]_vars => LegacyInv'
<1> SUFFICES ASSUME StageInv, LegacyInv, [Next]_vars,
                    NEW k \in DOMAIN issuance', LegacyKey(k)'
             PROVE  /\ \A c, d \in Caller : Signing(c, k)' /\ Signing(d, k)' => c = d
                    /\ \A c \in Caller : Signing(c, k)' => \A u \in keyUse' : u.key # k
                    /\ \A u, w \in keyUse' : u.key = k /\ w.key = k => u = w
  BY DEF LegacyInv
<1>1. CASE k \notin DOMAIN issuance
  \* The row is new: nobody but its maker can be at the key.
  <2>1. \A c \in Caller : ~Signing(c, k)
    BY <1>1 DEF StageInv, CallersInv, CallBound, Stages, Signing
  <2>2. \A u \in keyUse : u.key # k
    BY <1>1 DEF StageInv, TablesInv, KeyUseIsReserved
  <2>3. PICK c \in Caller : ReserveFresh(c)
    BY <1>1, TableSteps, VaultSignedEffect, CompletedEffect
  <2>4. keyUse' = keyUse /\ Step(c)
    BY <2>3 DEF ReserveFresh, Step
  <2>5. \A d \in Caller : Signing(d, k)' => d = c
    BY <2>1, <2>4, StepIsLocal DEF Signing
  <2> QED
    BY <2>2, <2>4, <2>5
<1>2. CASE k \in DOMAIN issuance
  <2>1. LegacyKey(k)
    BY <1>2, RequestsFixed DEF LegacyKey
  <2>2. \A d \in Caller : Signing(d, k)' => Signing(d, k)
    <3> SUFFICES ASSUME NEW d \in Caller, Signing(d, k)' PROVE Signing(d, k)
      OBVIOUS
    <3>1. ASSUME ReserveFresh(d), call[d].in.key = k PROVE FALSE
      BY <1>2, <3>1 DEF ReserveFresh
    <3>2. ASSUME MayResumeAt(call[d].in), call[d].in.key = k PROVE FALSE
      BY <2>1, <3>2, LegacyRequestAssumption DEF LegacyKey, MayResumeAt
    <3> QED
      BY <3>1, <3>2, SigningStarts DEF Signing
  <2>3. CASE keyUse' = keyUse
    BY <1>2, <2>1, <2>2, <2>3 DEF LegacyInv
  <2>4. ASSUME NEW c \in Caller, VaultSign(c), call[c].in.key # k
        PROVE  \A u \in keyUse' : u.key = k => u \in keyUse
    BY <2>4, VaultSignEffect
  <2>5. ASSUME NEW c \in Caller, VaultSign(c), call[c].in.key = k
        PROVE  /\ \A d \in Caller : ~Signing(d, k)'
               /\ \A u, w \in keyUse' : u.key = k /\ w.key = k => u = w
    <3>1. Signing(c, k) /\ call'[c].pc # "vaultSign"
      BY <2>5, VaultSignEffect
    <3>2. \A d \in Caller : Signing(d, k) => d = c
      BY <1>2, <2>1, <3>1 DEF LegacyInv
    <3>3. \A d \in Caller : ~Signing(d, k)'
      BY <2>2, <3>1, <3>2 DEF Signing
    <3>4. \A u \in keyUse : u.key # k
      BY <1>2, <2>1, <3>1 DEF LegacyInv
    <3> QED
      BY <2>5, <3>3, <3>4, VaultSignEffect
  <2> QED
    BY <1>2, <2>1, <2>2, <2>3, <2>4, <2>5, KeyUseSteps DEF LegacyInv
<1> QED
  BY <1>1, <1>2

\* A one-stage issuance uses its signer at most once, for any number of
\* processes and callers that race for the digest (Ledger.Issue).
THEOREM LegacyOneSignature == Spec => []LegacySignsOnce
<1>1. Init => LegacyInv
  BY DEF Init, LegacyInv
<1>2. StageInv /\ LegacyInv => LegacySignsOnce
  BY DEF StageInv, TablesInv, KeyUseIsReserved, LegacyInv, LegacyKey, LegacySignsOnce
<1> QED
  BY <1>1, <1>2, NextLegacyInv, StageInvariance, PTL DEF Spec

-----------------------------------------------------------------------------
(***************************************************************************)
(* One process.  Ledger.mu has one holder, so that nobody commits a stage  *)
(* between a call's look at the row and its use of the key.                *)
(***************************************************************************)
OneProcess == \A p, q \in Process : p = q

MutexInv == \A c \in Caller : call[c].pc \notin {"idle", "wait"} => mu[call[c].proc] = c

LEMMA NextMutexInv == StageInv /\ MutexInv /\ [Next]_vars => MutexInv'
<1> SUFFICES ASSUME StageInv, MutexInv, [Next]_vars PROVE MutexInv'
  OBVIOUS
<1>1. DOMAIN call = Caller /\ mu \in [Process -> Caller \cup {NULL}] /\ NULL \notin Caller
  BY ConstantsAssumption DEF StageInv, CallersInv, CallersTyped
<1>2. \A c \in Caller : call[c].pc # "idle" => call[c].proc \in Process /\ call[c] \in ActiveCall
  BY CallArgsOf DEF StageInv, ActiveCall
<1>3. ASSUME NEW c \in Caller, NEW p \in Process, NEW in \in Input, Call(c, p, in) PROVE MutexInv'
  BY <1>1, <1>3 DEF Call, MutexInv
<1>4. ASSUME NEW c \in Caller, Lock(c) PROVE MutexInv'
  <2>1. call[c].proc \in Process /\ mu[call[c].proc] = NULL
    BY <1>2, <1>4 DEF Lock
  <2>2. mu' = [mu EXCEPT ![call[c].proc] = c] /\ call'[c].proc = call[c].proc
        /\ \A d \in Caller : d # c => call'[d] = call[d]
    BY <1>1, <1>2, <1>4 DEF Lock, ActiveCall
  <2>3. ASSUME NEW d \in Caller, d # c, call[d].pc \notin {"idle", "wait"}
        PROVE  mu'[call[d].proc] = d
    BY <1>1, <1>2, <2>1, <2>2, <2>3 DEF MutexInv
  <2> QED
    BY <1>1, <2>1, <2>2, <2>3 DEF MutexInv
<1>5. ASSUME NEW c \in Caller, Step(c) PROVE MutexInv'
  <2>1. call[c].pc \notin {"idle", "wait"} /\ mu[call[c].proc] = c
    BY <1>5, StepMoves DEF MutexInv
  <2>2. CASE Return(c)
    <3>1. /\ mu' = [mu EXCEPT ![call[c].proc] = NULL] /\ call'[c].pc = "idle"
          /\ \A d \in Caller : d # c => call'[d] = call[d]
      BY <1>1, <2>2 DEF Return, Idle
    <3> QED
      BY <1>1, <1>2, <2>1, <3>1 DEF MutexInv
  <2>3. CASE \E pc \in Stages : \E psbt : Goto(c, pc, psbt)
    <3>1. /\ mu' = mu /\ call'[c].proc = call[c].proc
          /\ \A d \in Caller : d # c => call'[d] = call[d]
      BY <1>1, <2>3 DEF Goto
    <3> QED
      BY <2>1, <3>1 DEF MutexInv
  <2> QED
    BY <1>5, <2>2, <2>3, StepMoves
<1>6. ASSUME NEW p \in Process, Crash(p) PROVE MutexInv'
  BY <1>1, <1>2, <1>6 DEF Crash, MutexInv, Idle
<1>7. CASE Tick \/ UNCHANGED vars
  BY <1>7 DEF Tick, vars, MutexInv
<1> QED
  BY <1>3, <1>4, <1>5, <1>6, <1>7 DEF Next

\* A call that is about to use the key does so over a reservation.
SignsReserved ==
    \A c \in Caller : call[c].pc = "vaultSign" => issuance[call[c].in.key].state = "reserved"

LEMMA NextSignsReserved ==
    ASSUME OneProcess
    PROVE  StageInv /\ MutexInv /\ SignsReserved /\ [Next]_vars => SignsReserved'
<1> SUFFICES ASSUME StageInv, MutexInv, SignsReserved, [Next]_vars,
                    NEW d \in Caller, call'[d].pc = "vaultSign"
             PROVE  issuance'[call'[d].in.key].state = "reserved"
  BY DEF SignsReserved
<1> DEFINE k == call[d].in.key
<1>1. CASE call'[d] = call[d]
  <2>1. call[d].pc = "vaultSign" /\ issuance[k].state = "reserved" /\ k \in DOMAIN issuance
    BY <1>1 DEF SignsReserved, StageInv, CallersInv, CallBound, Stages
  <2>2. ASSUME NEW c \in Caller, Step(c) PROVE c = d
    <3>1. call[c].proc \in Process /\ call[d].proc \in Process
          /\ mu[call[c].proc] = c /\ mu[call[d].proc] = d
      BY <2>1, <2>2, StepMoves, CallArgsOf DEF MutexInv, StageInv, ActiveCall
    <3> QED
      BY <3>1 DEF OneProcess
  <2>3. ASSUME NEW c \in Caller, CommitVaultSigned(c) \/ CommitCompletion(c) PROVE FALSE
    BY <2>1, <2>2, <2>3 DEF Step, CommitVaultSigned, CommitCompletion
  <2>4. ASSUME NEW c \in Caller, ReserveFresh(c) PROVE issuance'[k] = issuance[k]
    BY <2>1, <2>4 DEF ReserveFresh, Insert
  <2> QED
    BY <1>1, <2>1, <2>3, <2>4, TableSteps
<1>2. CASE ReserveFresh(d) /\ call'[d].in = call[d].in
  BY <1>2 DEF ReserveFresh, Insert, NewRow
<1>3. CASE call'[d].in = call[d].in /\ MayResumeAt(call[d].in) /\ issuance' = issuance
  BY <1>3 DEF MayResumeAt
<1> QED
  BY <1>1, <1>2, <1>3, SigningStarts

\* In one process, once the private stage is durable the VaultCosigner key is
\* not used again for that issuance, however often the public stage is
\* retried: what the call read under Ledger.mu is still so when it signs.
THEOREM NoReuseInOneProcess ==
    ASSUME OneProcess
    PROVE  Spec => NoKeyReuseAfterPersist
<1> DEFINE Kept == \A k \in DOMAIN issuance :
              issuance[k].state # "reserved" =>
                  {u \in keyUse' : u.key = k} = {u \in keyUse : u.key = k}
<1>1. Init => MutexInv /\ SignsReserved
  BY DEF Init, MutexInv, SignsReserved, Idle
<1>2. StageInv /\ SignsReserved /\ [Next]_vars => [Kept]_vars
  <2> SUFFICES ASSUME StageInv, SignsReserved, [Next]_vars,
                      NEW k \in DOMAIN issuance, issuance[k].state # "reserved"
               PROVE  {u \in keyUse' : u.key = k} = {u \in keyUse : u.key = k}
    OBVIOUS
  <2>1. ASSUME NEW c \in Caller, VaultSign(c)
        PROVE  {u \in keyUse' : u.key = k} = {u \in keyUse : u.key = k}
    BY <2>1, VaultSignEffect DEF SignsReserved, Signing
  <2> QED
    BY <2>1, KeyUseSteps
<1>3. StageInv /\ MutexInv /\ SignsReserved /\ [Next]_vars => SignsReserved'
  BY NextSignsReserved
<1> QED
  BY <1>1, <1>2, <1>3, NextMutexInv, StageInvariance, PTL DEF Spec, NoKeyReuseAfterPersist

-----------------------------------------------------------------------------
(***************************************************************************)
(* The ledger implements SpendAuthority.                                   *)
(***************************************************************************)
\* The abstract spending of a day is the table's.
LEMMA AuthoritySpent ==
    \A v, p : Authority!Spent(v, p) = SpentInPeriod(v, p)
<1>1. /\ DOMAIN Grants = DOMAIN issuance
      /\ \A k \in DOMAIN issuance :
           /\ Grants[k].sats = issuance[k].recipient + issuance[k].fee
           /\ Grants[k].period = issuance[k].period
  BY DEF Grants
<1>2. Authority!GrantedSats = Outflow
  BY <1>1 DEF Authority!GrantedSats, Outflow
<1>3. \A v, p : Authority!GrantsOn(v, p) = RowsIn(v, p)
  BY <1>1 DEF Authority!GrantsOn, RowsIn
<1>4. \A S : Authority!Cardinality(S) = Cardinality(S)
  BY DEF Authority!Cardinality, Cardinality
<1> QED
  BY <1>2, <1>3, <1>4 DEF Authority!Spent, SpentInPeriod, SumOver, Sats, Authority!SumOver, Authority!Sats

LEMMA InitAuthority == Init => Authority!Init
BY DEF Init, Authority!Init, Grants, Decisions

\* A step that keeps bindings, amounts and signed PSBTs is invisible.
LEMMA AuthorityStutter ==
    ASSUME DOMAIN issuance' = DOMAIN issuance,
           \A k \in DOMAIN issuance :
               /\ issuance'[k].state = "completed" <=> issuance[k].state = "completed"
               /\ \A f \in {"period", "recipient", "fee", "request", "signed_psbt"} :
                    issuance'[k][f] = issuance[k][f]
    PROVE  Grants' = Grants /\ Decisions' = Decisions
<1>1. \A k \in DOMAIN issuance :
        /\ issuance'[k].period = issuance[k].period
        /\ issuance'[k].recipient = issuance[k].recipient
        /\ issuance'[k].fee = issuance[k].fee
        /\ issuance'[k].request = issuance[k].request
        /\ issuance'[k].signed_psbt = issuance[k].signed_psbt
  OBVIOUS
<1>2. Grants' = Grants
  BY <1>1 DEF Grants
<1>3. {x \in DOMAIN issuance : issuance[x].state = "completed"}'
        = {x \in DOMAIN issuance : issuance[x].state = "completed"}
  OBVIOUS
<1>4. Decisions' = Decisions
  BY <1>1, <1>3 DEF Decisions
<1> QED
  BY <1>2, <1>4

\* A reservation is a grant of exactly its outflow.
LEMMA ReserveFreshGrants ==
    ASSUME StageInv, BudgetInv, NEW c \in Caller, ReserveFresh(c)
    PROVE  Authority!Next
<1> DEFINE in == call[c].in
           k == in.key
           need == in.recipient + in.fee
<1>1. /\ call[c].pc = "reserve" /\ k \notin DOMAIN issuance /\ FitsAllowance(in)
      /\ Insert(k, NewRow(in)) /\ answers' = answers
  BY DEF ReserveFresh
<1>2. /\ k \in Key /\ in \in Input /\ in.recipient \in Int /\ in.fee \in Int
      /\ in.request \in Request /\ ValidArgs(in) /\ VaultOf[k] \in Vault /\ clock \in Period
  BY <1>1, CallArgsOf, ConstantsAssumption DEF StageInv, BudgetInv
<1>3. need \in Nat /\ need >= 1 /\ need <= MaxInt64
  BY <1>1, <1>2, ConstantsAssumption DEF FitsAllowance, AddOutflowOverflows, ValidArgs
<1>4. need <= Allowance - SpentInPeriod(VaultOf[k], clock)
  BY <1>1, <1>3, WrapSmall DEF FitsAllowance
<1>5. SpentInPeriod(VaultOf[k], clock) \in Nat
  BY <1>2, FS_CardinalityType DEF BudgetInv, SpentInPeriod, SumOver
<1>6. need \in 1..Allowance
  BY <1>3, <1>4, <1>5, ConstantsAssumption
<1>7. /\ DOMAIN issuance' = DOMAIN issuance \cup {k}
      /\ issuance'[k] = NewRow(in)
      /\ \A x \in DOMAIN issuance : issuance'[x] = issuance[x]
  BY <1>1 DEF Insert
<1>8. DOMAIN Grants = DOMAIN issuance
  BY DEF Grants
<1>9. Grants' = [x \in DOMAIN Grants \cup {k} |->
                   IF x = k THEN [period |-> clock, request |-> in.request, sats |-> need]
                   ELSE Grants[x]]
  BY <1>7 DEF Grants, NewRow
<1>10. Decisions' = Decisions
  <2>1. {x \in DOMAIN issuance : issuance[x].state = "completed"}'
          = {x \in DOMAIN issuance : issuance[x].state = "completed"}
    BY <1>7 DEF NewRow
  <2> QED
    BY <1>7, <2>1 DEF Decisions
<1>11. need <= Allowance - Authority!Spent(VaultOf[k], clock)
  BY <1>4, AuthoritySpent
<1>12. Authority!Grant(k, clock, in.request, need)
  BY <1>1, <1>8, <1>9, <1>10, <1>11 DEF Authority!Grant
<1> QED
  BY <1>2, <1>6, <1>12 DEF Authority!Next

\* Completing a row decides its digest.
LEMMA CompletionDecides ==
    ASSUME StageInv, NEW c \in Caller, CommitCompletion(c)
    PROVE  Authority!Next
<1> DEFINE k == call[c].in.key
           psbt == call[c].psbt
           Done == {x \in DOMAIN issuance : issuance[x].state = "completed"}
<1>1. /\ call[c].pc = "complete"
      /\ answers' \in {answers, answers \cup {[key |-> k, psbt |-> psbt]}}
  BY DEF CommitCompletion
<1>2. k \in Key
  BY <1>1, CallArgsOf DEF StageInv
<1>3. /\ psbt \in VaultPSBT \cup SignedPSBT
      /\ psbt.request = issuance[k].request
  BY <1>1 DEF StageInv, CallersInv, CallBound, Stages
<1>4. /\ k \in DOMAIN issuance /\ issuance[k].state = "vault_signed"
      /\ DOMAIN issuance' = DOMAIN issuance
      /\ \A x \in DOMAIN issuance \ {k} : issuance'[x] = issuance[x]
      /\ issuance'[k].state = "completed"
      /\ issuance'[k].signed_psbt = psbt
      /\ issuance'[k].period = issuance[k].period
      /\ issuance'[k].recipient = issuance[k].recipient
      /\ issuance'[k].fee = issuance[k].fee
      /\ issuance'[k].request = issuance[k].request
  BY CompletedEffect
<1>5. Grants' = Grants
  BY <1>4 DEF Grants
<1>6. Done' = Done \cup {k} /\ k \notin Done
  BY <1>4
<1>7. Decisions' = [x \in DOMAIN Decisions \cup {k} |-> IF x = k THEN psbt ELSE Decisions[x]]
  <2>1. DOMAIN Decisions = Done
    BY DEF Decisions
  <2> QED
    BY <1>4, <1>6, <2>1 DEF Decisions
<1>8. k \notin DOMAIN Decisions
  BY <1>6 DEF Decisions
<1>9. k \in DOMAIN Grants /\ psbt.request = Grants[k].request
  BY <1>3, <1>4 DEF Grants
<1>10. Authority!Decide(k, psbt)
  BY <1>1, <1>5, <1>7, <1>8, <1>9 DEF Authority!Decide
<1> QED
  BY <1>2, <1>3, <1>10 DEF Authority!Next

\* A replayed answer is the stored decision.
LEMMA ReplayAnswers ==
    ASSUME StageInv, NEW c \in Caller, ReserveExisting(c)
    PROVE  [Authority!Next]_(Authority!vars)
<1> DEFINE k == call[c].in.key
<1>1. call[c].pc = "reserve" /\ issuance' = issuance /\ k \in DOMAIN issuance
  BY DEF ReserveExisting
<1>2. Grants' = Grants /\ Decisions' = Decisions
  BY <1>1 DEF Grants, Decisions
<1>3. CASE answers' = answers
  BY <1>2, <1>3 DEF Authority!vars
<1>4. CASE /\ issuance[k].state = "completed"
           /\ answers' = answers \cup {[key |-> k, psbt |-> issuance[k].signed_psbt]}
  <2>1. k \in DOMAIN Decisions /\ Decisions[k] = issuance[k].signed_psbt
    BY <1>1, <1>4 DEF Decisions
  <2>2. Authority!Answer(k)
    BY <1>2, <1>4, <2>1 DEF Authority!Answer
  <2>3. k \in Key
    BY <1>1, CallArgsOf DEF StageInv
  <2> QED
    BY <2>2, <2>3 DEF Authority!Next
<1> QED
  BY <1>3, <1>4 DEF ReserveExisting

LEMMA NextAuthority ==
    StageInv /\ BudgetInv /\ [Next]_vars => [Authority!Next]_(Authority!vars)
<1> SUFFICES ASSUME StageInv, BudgetInv, [Next]_vars PROVE [Authority!Next]_(Authority!vars)
  OBVIOUS
<1>1. ASSUME issuance' = issuance, answers' = answers
      PROVE  [Authority!Next]_(Authority!vars)
  BY <1>1 DEF Authority!vars, Grants, Decisions
<1>2. ASSUME NEW c \in Caller, ReserveFresh(c) PROVE [Authority!Next]_(Authority!vars)
  BY <1>2, ReserveFreshGrants
<1>3. ASSUME NEW c \in Caller, CommitCompletion(c) PROVE [Authority!Next]_(Authority!vars)
  BY <1>3, CompletionDecides
<1>4. ASSUME NEW c \in Caller, ReserveExisting(c) PROVE [Authority!Next]_(Authority!vars)
  BY <1>4, ReplayAnswers
<1>5. ASSUME NEW c \in Caller, CommitVaultSigned(c) PROVE [Authority!Next]_(Authority!vars)
  <2>1. Grants' = Grants /\ Decisions' = Decisions
    BY <1>5, VaultSignedEffect, AuthorityStutter
  <2> QED
    BY <1>5, <2>1 DEF CommitVaultSigned, Authority!vars
<1>6. \/ \E c \in Caller : ReserveFresh(c) \/ CommitCompletion(c) \/ ReserveExisting(c) \/ CommitVaultSigned(c)
      \/ issuance' = issuance /\ answers' = answers
  BY DEF Next, vars, Step, Call, Lock, ReserveRefused, ReserveMismatch, VaultSign,
         ArkadeSign, LegacyArkadeStage, Fail, Crash, Tick
<1> QED
  BY <1>1, <1>2, <1>3, <1>4, <1>5, <1>6

\* Every behaviour of the ledger, with its processes, stages, crashes and
\* ambiguous commits, is a behaviour of SpendAuthority.
THEOREM ImplementsSpendAuthority == Spec => ImplementsAuthority
BY InitAuthority, NextAuthority, InitBudgetInv, NextBudgetInv, StageInvariance, PTL
   DEF Spec, ImplementsAuthority, Authority!Spec
=============================================================================
