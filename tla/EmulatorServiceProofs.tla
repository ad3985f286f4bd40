----------------------- MODULE EmulatorServiceProofs -----------------------
(***************************************************************************)
(* The emulator service keeps the promise of CovenantSigner for any set of *)
(* requests, any keys and any number of deprecated ones.                   *)
(***************************************************************************)
EXTENDS EmulatorService, TLAPS

LEMMA Boundaries ==
    /\ Deprecated \in Seq(Elements(Deprecated))
    /\ Cutoff \in Nat /\ MaxNow \in Nat /\ MaxNow >= 1 /\ MaxRequests \in Nat
    /\ MaxAttempts \in Nat /\ MaxAttempts >= 1
    /\ LookupAttempts \in Nat /\ LookupAttempts >= 1
BY ConfigAssumption, SMT

LEMMA TypeInit == Init => TypeOK
BY Boundaries, SMT DEF Init, TypeOK, Phases

LEMMA TypeReturn ==
    ASSUME TypeOK, NEW sigs, Return(sigs), UNCHANGED <<now, served>>
    PROVE  TypeOK'
BY Boundaries, SMT DEF TypeOK, Return, Phases

LEMMA TypeRefuse ==
    ASSUME TypeOK, Refuse
    PROVE  TypeOK'
BY TypeReturn DEF Refuse

LEMMA TypeRetry ==
    ASSUME TypeOK, NEW max, max \in {MaxAttempts, LookupAttempts},
           NEW again, again \in Phases, RetryOrGiveUp(max, again)
    PROVE  TypeOK'
<1>1. CASE Refuse
  BY <1>1, TypeRefuse
<1>2. CASE ~ Refuse
  BY <1>2, Boundaries, SMT DEF RetryOrGiveUp, RetryExhausted, NextAttempt, TypeOK
<1> QED BY <1>1, <1>2

LEMMA TypeStep ==
    ASSUME TypeOK, [Next]_vars
    PROVE  TypeOK'
<1>1. CASE UNCHANGED vars
  BY <1>1 DEF vars, local, TypeOK
<1>2. CASE Connect
  BY <1>2, Boundaries, SMT DEF Connect, local, TypeOK, Phases
<1>3. ASSUME NEW r \in Requests, Receive(r) PROVE TypeOK'
  BY <1>3, Boundaries, SMT DEF Receive, TypeOK, Phases
<1>4. CASE SkipMessageEntry
  BY <1>4, SMT DEF SkipMessageEntry, TypeOK
<1>5. CASE SkipForeignEntry
  BY <1>5, SMT DEF SkipForeignEntry, TypeOK
<1>6. CASE SignEntryStep
  <2> PICK signer \in EntrySigners : SignEntry(signer)
    BY <1>6 DEF SignEntryStep
  <2>1. lasts' \subseteq BOOLEAN
    BY DEF SignEntry, TypeOK
  <2> QED BY <2>1, SMT DEF SignEntry, TypeOK
<1>7. CASE FailEntry \/ RefuseLoop \/ RefuseUnsigned \/ ArkdRefuses \/ AbandonRetry
  BY <1>7, TypeRefuse DEF FailEntry, RefuseLoop, RefuseUnsigned, ArkdRefuses, AbandonRetry
<1>8. CASE AnswerSigned
  BY <1>8, TypeReturn DEF AnswerSigned
<1>9. CASE SubmitToArkd \/ CallFinalizeTx \/ CallGetCommitmentTx
  BY <1>9 DEF SubmitToArkd, CallFinalizeTx, CallGetCommitmentTx, local, TypeOK, Phases
<1>10. CASE ArkdAccepts
  <2>1. CASE Refuse
    BY <2>1, TypeRefuse
  <2>2. CASE ~ Refuse
    BY <1>10, <2>2 DEF ArkdAccepts, TypeOK, Phases
  <2> QED BY <2>1, <2>2
<1>11. CASE FinalizeTxReturns
  BY <1>11, TypeRefuse, TypeRetry DEF FinalizeTxReturns, Phases
<1>12. CASE GetCommitmentTxReturns
  <2>1. CASE RetryOrGiveUp(LookupAttempts, "lookup")
    BY <2>1, TypeRetry DEF Phases
  <2>2. CASE ~ RetryOrGiveUp(LookupAttempts, "lookup")
    BY <1>12, <2>2 DEF GetCommitmentTxReturns, local, TypeOK, Phases
  <2> QED BY <2>1, <2>2
<1>13. CASE Settle
  <2> PICK sigs : Return(sigs)
    BY <1>13 DEF Settle
  <2> QED BY <1>13, TypeReturn DEF Settle
<1>14. ASSUME NEW r \in Requests, Index(r.commitment.tx) PROVE TypeOK'
  BY <1>14 DEF Index, local, TypeOK
<1>15. CASE Tick
  BY <1>15, Boundaries, SMT DEF Tick, local, TypeOK
<1> QED
  BY <1>1, <1>2, <1>3, <1>4, <1>5, <1>6, <1>7, <1>8, <1>9, <1>10, <1>11, <1>12, <1>13, <1>14, <1>15
     DEF Next, Serve, RemoteReturns

\* The service's phase, clock, loop index and retry attempt stay in range
\* for every set of requests (tx.go:417-452, service.go:82-92).
THEOREM TypeCorrect == Spec => []TypeOK
<1>1. Init => TypeOK
  BY TypeInit
<1>2. TypeOK /\ [Next]_vars => TypeOK'
  BY TypeStep
<1> QED BY <1>1, <1>2, PTL DEF Spec
-----------------------------------------------------------------------------
(* The refinement of CovenantSigner *)

RunBehind(s) ==
    Covenant!Ran(executed, s) \/ Covenant!RanAbove(executed, s) \/ Covenant!RanBeside(executed, s)

\* The signatures a request collected each stand on a script that ran.
OwnStandsOnRuns == phase \in {"entries", "submitted"} => \A s \in own : RunBehind(s)

\* Nothing is collected outside the loop and what follows it.
NothingCollected ==
    phase \in {"boot", "stopped", "idle", "lookup", "looking", "settle"} => own = {}

\* In the loop, an offchain request still has the checkpoints indexed.
LoopKnowsCheckpoints ==
    phase = "entries" =>
        /\ req.ptx.tx.packet \in Seq(Elements(req.ptx.tx.packet))
        /\ req.kind = "offchain" => indexCheckpoints(req) /\ PacketUsable(req.ptx.tx)

CovenantInv == TypeOK /\ OwnStandsOnRuns /\ NothingCollected /\ LoopKnowsCheckpoints

LEMMA CovenantInit == Init => CovenantInv
BY TypeInit DEF Init, CovenantInv, OwnStandsOnRuns, NothingCollected, LoopKnowsCheckpoints

LEMMA CovenantReturn ==
    ASSUME NEW sigs, Return(sigs)
    PROVE  OwnStandsOnRuns' /\ NothingCollected' /\ LoopKnowsCheckpoints'
BY DEF Return, OwnStandsOnRuns, NothingCollected, LoopKnowsCheckpoints

LEMMA CovenantRefuse ==
    ASSUME Refuse
    PROVE  OwnStandsOnRuns' /\ NothingCollected' /\ LoopKnowsCheckpoints'
BY CovenantReturn DEF Refuse

\* A run is never forgotten.
LEMMA RunsAccumulate ==
    ASSUME NEW s, RunBehind(s), executed \subseteq executed'
    PROVE  RunBehind(s)'
BY DEF RunBehind, Covenant!Ran, Covenant!RanAbove, Covenant!RanBeside

LEMMA FilledOther ==
    ASSUME NEW r, NEW S, r.kind # "finalization"
    PROVE  Filled(r, S) = r
BY DEF Filled

\* The entry the loop is at names an input of the transaction.
LEMMA EntryInRange ==
    ASSUME CovenantInv, InLoop, req.kind = "offchain"
    PROVE  Entry.vin \in 1..Len(req.ptx.tx.ins)
<1>1. pos \in 1..Len(req.ptx.tx.packet)
  BY SMT DEF CovenantInv, TypeOK, LoopKnowsCheckpoints, InLoop
<1> QED BY <1>1 DEF CovenantInv, LoopKnowsCheckpoints, InLoop, PacketUsable, Entry

\* The checkpoint of an input is the transaction the input spends.
LEMMA CheckpointIsSpent ==
    ASSUME NEW r, indexCheckpoints(r), NEW i \in 1..Len(r.ptx.tx.ins)
    PROVE  /\ checkpointOf(r, i) \in Elements(r.checkpoints)
           /\ checkpointOf(r, i).tx = r.ptx.tx.ins[i].tx
<1>1. PICK j \in 1..Len(r.ptx.tx.ins) : r.ptx.tx.ins[i].tx = r.checkpoints[j].tx
  BY DEF indexCheckpoints
<1>2. r.checkpoints[j] \in Elements(r.checkpoints)
  BY DEF indexCheckpoints, Elements
<1>3. \E c \in Elements(r.checkpoints) : c.tx = r.ptx.tx.ins[i].tx
  BY <1>1, <1>2
<1> QED BY <1>3 DEF checkpointOf

AtBase(leaf) == [leaf EXCEPT !.version = "base"]

LEMMA SignatureFields ==
    ASSUME NEW key, NEW ptx, NEW i
    PROVE  /\ Signature(key, ptx, i).key = key
           /\ Signature(key, ptx, i).tx = ptx.tx
           /\ Signature(key, ptx, i).input = i
           /\ Signature(key, ptx, i).prevouts = Prevouts(ptx)
           /\ Signature(key, ptx, i).leaf = AtBase(ptx.inputs[i].leaves[1].leaf)
BY DEF Signature, AtBase

\* Every signature an entry adds stands on the run of its script.
LEMMA EntryStandsOnRun ==
    ASSUME CovenantInv, ReadEntry, NEW signer, SignEntry(signer)
    PROVE  \A s \in EntrySignatures(TweakedKey(signer, Entry.script)) : RunBehind(s)'
<1> DEFINE key == TweakedKey(signer, Entry.script)
           run == [tx |-> req.ptx.tx, input |-> Entry.vin, script |-> Entry.script]
<1> SUFFICES ASSUME NEW t \in EntryTargets, NEW s, s = Signature(key, t[1], t[2])
             PROVE  RunBehind(s)'
  BY DEF EntrySignatures
<1>1. run \in executed'
  BY DEF SignEntry
<1>2. key.script = Entry.script
  BY DEF TweakedKey
<1> HIDE DEF key
<1>3. CASE t = <<req.ptx, Entry.vin>>
  <2>1. s.tx = req.ptx.tx /\ s.input = Entry.vin
        /\ s.key = key
    BY <1>3, SignatureFields
  <2> QED BY <1>1, <1>2, <2>1 DEF RunBehind, Covenant!Ran
<1>4. CASE req.kind = "offchain" /\ t = <<checkpointOf(req, Entry.vin), 1>>
  <2>1. Entry.vin \in 1..Len(req.ptx.tx.ins) /\ indexCheckpoints(req)
    BY <1>4, EntryInRange DEF ReadEntry, InLoop, CovenantInv, LoopKnowsCheckpoints
  <2>2. checkpointOf(req, Entry.vin).tx = req.ptx.tx.ins[Entry.vin].tx
    BY <2>1, CheckpointIsSpent
  <2>3. s.tx = req.ptx.tx.ins[Entry.vin].tx
        /\ s.key = key
    BY <1>4, <2>2, SignatureFields
  <2>4. run.tx.ins[run.input].tx = req.ptx.tx.ins[Entry.vin].tx /\ run.script = Entry.script
    OBVIOUS
  <2> HIDE DEF run
  <2> QED BY <1>1, <1>2, <2>3, <2>4 DEF RunBehind, Covenant!RanAbove
<1>5. CASE req.kind = "intent" /\ Entry.vin = 2 /\ t = <<req.ptx, 1>>
  <2>1. s.tx = req.ptx.tx /\ s.input = 1
        /\ s.key = key
    BY <1>5, SignatureFields
  <2> QED BY <1>1, <1>2, <1>5, <2>1 DEF RunBehind, Covenant!RanBeside
<1> QED BY <1>3, <1>4, <1>5 DEF EntryTargets

LEMMA CovenantStep ==
    ASSUME CovenantInv, [Next]_vars
    PROVE  CovenantInv'
<1> SUFFICES OwnStandsOnRuns' /\ NothingCollected' /\ LoopKnowsCheckpoints'
  BY TypeStep DEF CovenantInv
<1> USE DEF CovenantInv
<1>1. ASSUME phase' = phase, req' = req, own' = own, executed' = executed
      PROVE  OwnStandsOnRuns' /\ NothingCollected' /\ LoopKnowsCheckpoints'
  BY <1>1 DEF OwnStandsOnRuns, NothingCollected, LoopKnowsCheckpoints, RunBehind,
     Covenant!Ran, Covenant!RanAbove, Covenant!RanBeside
<1>2. ASSUME phase' \notin {"entries", "submitted"}, own' = own,
             phase' \in {"boot", "idle", "lookup", "looking", "settle", "stopped"} => own = {}
      PROVE  OwnStandsOnRuns' /\ NothingCollected' /\ LoopKnowsCheckpoints'
  BY <1>2 DEF OwnStandsOnRuns, NothingCollected, LoopKnowsCheckpoints
<1>3. CASE UNCHANGED vars \/ SkipMessageEntry \/ SkipForeignEntry \/ Tick
  BY <1>1, <1>3 DEF vars, local, SkipMessageEntry, SkipForeignEntry, Tick
<1>4. CASE Connect
  BY <1>2, <1>4 DEF Connect, local, NothingCollected
<1>5. ASSUME NEW r \in Requests, Receive(r)
      PROVE  OwnStandsOnRuns' /\ NothingCollected' /\ LoopKnowsCheckpoints'
  <2>1. own' = {}
    BY <1>5 DEF Receive, NothingCollected
  <2>2. CASE r.kind = "finalization"
    BY <1>5, <2>1, <2>2 DEF Receive, OwnStandsOnRuns, NothingCollected, LoopKnowsCheckpoints
  <2>3. CASE r.kind # "finalization"
    <3>1. req' = r /\ phase' = "entries"
      BY <1>5, <2>3, FilledOther DEF Receive
    <3>2. r.kind = "offchain" => indexCheckpoints(r) /\ PacketUsable(r.ptx.tx)
      BY <1>5 DEF Receive, Accepted
    <3>3. r.ptx.tx.packet \in Seq(Elements(r.ptx.tx.packet))
      BY RequestAssumption DEF WellFormedPtx
    <3> QED BY <2>1, <3>1, <3>2, <3>3 DEF OwnStandsOnRuns, NothingCollected, LoopKnowsCheckpoints
  <2> QED BY <2>2, <2>3
<1>6. CASE SignEntryStep
  <2> PICK signer \in EntrySigners : SignEntry(signer)
    BY <1>6 DEF SignEntryStep
  <2>1. phase = "entries" /\ phase' = phase /\ req' = req
    BY <1>6 DEF SignEntryStep, ReadEntry, InLoop, SignEntry
  <2>2. \A s \in own' : RunBehind(s)'
    BY <1>6, <2>1, EntryStandsOnRun, RunsAccumulate DEF SignEntryStep, SignEntry, OwnStandsOnRuns
  <2> QED BY <2>1, <2>2 DEF OwnStandsOnRuns, NothingCollected, LoopKnowsCheckpoints
<1>7. CASE FailEntry \/ RefuseLoop \/ RefuseUnsigned \/ ArkdRefuses \/ AbandonRetry
  BY <1>7, CovenantRefuse DEF FailEntry, RefuseLoop, RefuseUnsigned, ArkdRefuses, AbandonRetry
<1>8. CASE AnswerSigned
  BY <1>8, CovenantReturn DEF AnswerSigned
<1>9. CASE SubmitToArkd
  BY <1>9 DEF SubmitToArkd, LoopEnded, local, OwnStandsOnRuns, NothingCollected,
     LoopKnowsCheckpoints, RunBehind, Covenant!Ran, Covenant!RanAbove, Covenant!RanBeside
<1>10. CASE ArkdAccepts
  <2>1. CASE Refuse
    BY <2>1, CovenantRefuse
  <2>2. CASE ~ Refuse
    <3>1. phase' = "finalize"
      BY <1>10, <2>2 DEF ArkdAccepts
    <3> QED BY <3>1 DEF OwnStandsOnRuns, NothingCollected, LoopKnowsCheckpoints
  <2> QED BY <2>1, <2>2
<1>11. CASE CallFinalizeTx
  BY <1>2, <1>11 DEF CallFinalizeTx, local
<1>12. CASE CallGetCommitmentTx
  BY <1>2, <1>12 DEF CallGetCommitmentTx, local, NothingCollected
<1>13. CASE FinalizeTxReturns
  <2>1. CASE Refuse
    BY <2>1, CovenantRefuse
  <2>2. CASE ~ Refuse
    BY <1>2, <1>13, <2>2 DEF FinalizeTxReturns, RetryOrGiveUp
  <2> QED BY <2>1, <2>2
<1>14. CASE GetCommitmentTxReturns
  <2>1. CASE Refuse
    BY <2>1, CovenantRefuse
  <2>2. CASE ~ Refuse
    BY <1>2, <1>14, <2>2 DEF GetCommitmentTxReturns, RetryOrGiveUp, local, NothingCollected
  <2> QED BY <2>1, <2>2
<1>15. CASE Settle
  <2> PICK sigs : Return(sigs)
    BY <1>15 DEF Settle
  <2> QED BY CovenantReturn
<1>16. ASSUME NEW r \in Requests, Index(r.commitment.tx)
       PROVE  OwnStandsOnRuns' /\ NothingCollected' /\ LoopKnowsCheckpoints'
  BY <1>1, <1>16 DEF Index, local
<1> QED
  BY <1>3, <1>4, <1>5, <1>6, <1>7, <1>8, <1>9, <1>10, <1>11, <1>12, <1>13, <1>14, <1>15, <1>16
     DEF Next, Serve, RemoteReturns

LEMMA SignersConfigured ==
    ASSUME NEW c \in 1..Len(Signers)
    PROVE  Signers[c] \in {Current} \union Elements(Deprecated)
<1> DEFINE active == activeDeprecatedSigners(now)
<1>1. active \in Seq(Elements(Deprecated))
  BY Boundaries DEF activeDeprecatedSigners
<1>2. <<Current>> \in Seq({Current} \union Elements(Deprecated))
      /\ active \in Seq({Current} \union Elements(Deprecated))
  BY <1>1
<1> HIDE DEF active
<1>3. <<Current>> \o active \in Seq({Current} \union Elements(Deprecated))
  BY <1>2
<1> QED BY <1>3 DEF Signers, active

\* A signature of the service's that a valid proof carries was released.
LEMMA AssociationWasReleased ==
    ASSUME CovenantInv, phase = "settle", AssociationsValid(req.ptx, Signers),
           NEW a \in Associations(req.ptx, Signers)
    PROVE  \E r \in released : /\ r.key = a.key /\ Covenant!Spent(r) = a.op
                               /\ r.leaf = AtBase(a.leaf)
<1>0. PICK k \in SignedEntries(req.ptx) : \E c \in FirstCandidate(req.ptx, k, Signers) :
        a = [op |-> req.ptx.tx.ins[req.ptx.tx.packet[k].vin],
             key |-> TweakedKey(Signers[c], req.ptx.tx.packet[k].script),
             leaf |-> req.ptx.inputs[req.ptx.tx.packet[k].vin].leaves[1].leaf,
             prevout |-> req.ptx.inputs[req.ptx.tx.packet[k].vin].utxo]
  BY DEF Associations, LastEntries, EntryOutpoint
<1>1. PICK c \in FirstCandidate(req.ptx, k, Signers) :
        a = [op |-> req.ptx.tx.ins[req.ptx.tx.packet[k].vin],
             key |-> TweakedKey(Signers[c], req.ptx.tx.packet[k].script),
             leaf |-> req.ptx.inputs[req.ptx.tx.packet[k].vin].leaves[1].leaf,
             prevout |-> req.ptx.inputs[req.ptx.tx.packet[k].vin].utxo]
  BY <1>0
<1> DEFINE vin == req.ptx.tx.packet[k].vin
           key == TweakedKey(Signers[c], req.ptx.tx.packet[k].script)
<1>2. c \in 1..Len(Signers) /\ FirstBy(req.ptx.inputs[vin].sigs, key) # {}
  BY DEF FirstCandidate, SigningCandidates, LeafCandidates
<1>3. PICK s \in FirstBy(req.ptx.inputs[vin].sigs, key) : TRUE
  BY <1>2
<1>4. s = Signature(key, req.ptx, vin) /\ Made(s)
  BY DEF AssociationsValid
<1>5. Signers[c] \in {Current} \union Elements(Deprecated)
  BY <1>2, SignersConfigured
<1>6. s.key = key /\ s.tx = req.ptx.tx /\ s.input = vin
      /\ s.leaf = AtBase(req.ptx.inputs[vin].leaves[1].leaf)
  <2> HIDE DEF vin, key
  <2> QED BY <1>4, SignatureFields
<1>7. s \in released
  <2>1. s.key.signer = Signers[c]
    BY <1>6 DEF TweakedKey
  <2>2. own = {}
    BY DEF CovenantInv, NothingCollected
  <2> QED BY <1>4, <1>5, <2>1, <2>2 DEF Made
<1> QED BY <1>1, <1>6, <1>7 DEF Covenant!Spent

\* Settle signs only for coins a released signature already spends.
LEMMA SettleJustified ==
    ASSUME CovenantInv, phase = "settle",
           AssociationsValid(req.ptx, Signers),
           ForfeitsValid(req, Associations(req.ptx, Signers)),
           BoardingValid(req, Associations(req.ptx, Signers)),
           NEW s \in ForfeitSignatures(req, Associations(req.ptx, Signers)) \union
                     BoardingSignatures(req, Associations(req.ptx, Signers))
    PROVE  Covenant!SignedBefore(released, s)
<1> DEFINE assocs == Associations(req.ptx, Signers)
<1>1. CASE s \in ForfeitSignatures(req, assocs)
  <2>1. PICK ki \in ForfeitSlots(req.forfeits, assocs), a \in assocs :
          /\ a.op = OutpointAt(req.forfeits, ki)
          /\ s = Signature(a.key, req.forfeits[ki[1]], ki[2])
    BY <1>1 DEF ForfeitSignatures
  <2>2. req.forfeits[ki[1]].inputs[ki[2]].leaves[1].leaf = a.leaf
    BY <2>1 DEF ForfeitsValid, ForfeitValid, validateFinalizationInput
  <2>3. PICK r \in released : /\ r.key = a.key /\ Covenant!Spent(r) = a.op
                              /\ r.leaf = AtBase(a.leaf)
    BY AssociationWasReleased
  <2>4. s.key = a.key /\ s.leaf = AtBase(a.leaf) /\ Covenant!Spent(s) = a.op
    BY <2>1, <2>2, SignatureFields DEF Covenant!Spent, OutpointAt
  <2> QED BY <2>3, <2>4 DEF Covenant!SignedBefore
<1>2. CASE s \in BoardingSignatures(req, assocs)
  <2>1. PICK i \in 1..Len(req.commitment.tx.ins), a \in Boarding(req, assocs) :
          /\ a.op = req.commitment.tx.ins[i]
          /\ s = Signature(a.key, req.commitment, i)
    BY <1>2 DEF BoardingSignatures
  <2>2. a \in assocs /\ req.commitment.inputs[i].leaves[1].leaf = a.leaf
    BY <2>1 DEF BoardingValid, Boarding, validateFinalizationInput
  <2>3. PICK r \in released : /\ r.key = a.key /\ Covenant!Spent(r) = a.op
                              /\ r.leaf = AtBase(a.leaf)
    BY <2>2, AssociationWasReleased
  <2>4. s.key = a.key /\ s.leaf = AtBase(a.leaf) /\ Covenant!Spent(s) = a.op
    BY <2>1, <2>2, SignatureFields DEF Covenant!Spent
  <2> QED BY <2>3, <2>4 DEF Covenant!SignedBefore
<1> QED BY <1>1, <1>2

LEMMA OwnJustified ==
    ASSUME CovenantInv, phase = "entries", released' = released \union own, executed' = executed
    PROVE  Covenant!Next
BY DEF CovenantInv, OwnStandsOnRuns, RunBehind, Covenant!Next, Covenant!Release, Covenant!Justified

LEMMA RefinementStep ==
    ASSUME CovenantInv, [Next]_vars
    PROVE  [Covenant!Next]_<<executed, released>>
<1>1. ASSUME Refuse PROVE UNCHANGED <<executed, released>>
  BY <1>1 DEF Refuse, Return
<1>2. CASE UNCHANGED vars \/ Connect \/ SkipMessageEntry \/ SkipForeignEntry \/ Tick
           \/ CallFinalizeTx \/ CallGetCommitmentTx
  BY <1>2 DEF vars, Connect, SkipMessageEntry, SkipForeignEntry, Tick, CallFinalizeTx, CallGetCommitmentTx
<1>3. ASSUME NEW r \in Requests, Receive(r) \/ Index(r.commitment.tx)
      PROVE  UNCHANGED <<executed, released>>
  BY <1>3 DEF Receive, Index
<1>4. CASE FailEntry \/ RefuseLoop \/ RefuseUnsigned \/ ArkdRefuses \/ AbandonRetry
  BY <1>1, <1>4 DEF FailEntry, RefuseLoop, RefuseUnsigned, ArkdRefuses, AbandonRetry
<1>5. CASE ArkdAccepts \/ FinalizeTxReturns \/ GetCommitmentTxReturns
  BY <1>1, <1>5 DEF ArkdAccepts, FinalizeTxReturns, GetCommitmentTxReturns, RetryOrGiveUp
<1>6. CASE SignEntryStep
  BY <1>6 DEF SignEntryStep, SignEntry, Covenant!Next, Covenant!Run
<1>7. CASE AnswerSigned
  BY <1>7, OwnJustified DEF AnswerSigned, LoopEnded, Return
<1>8. CASE SubmitToArkd
  BY <1>8, OwnJustified DEF SubmitToArkd, LoopEnded
<1>9. CASE Settle
  <2> DEFINE assocs == Associations(req.ptx, Signers)
  <2>1. CASE /\ AssociationsValid(req.ptx, Signers)
             /\ ForfeitsValid(req, assocs)
             /\ BoardingValid(req, assocs)
             /\ Return(ForfeitSignatures(req, assocs) \union BoardingSignatures(req, assocs))
    <3>1. \A s \in released' \ released : Covenant!SignedBefore(released, s)
      BY <1>9, <2>1, SettleJustified DEF Settle, Return
    <3>2. released \subseteq released' /\ executed' = executed
      BY <1>9, <2>1 DEF Settle, Return
    <3> QED BY <3>1, <3>2 DEF Covenant!Next, Covenant!Release, Covenant!Justified
  <2>2. CASE Return({})
    BY <1>9, <2>2 DEF Settle, Return
  <2> QED BY <1>9, <2>1, <2>2 DEF Settle
<1> QED
  BY <1>2, <1>3, <1>4, <1>5, <1>6, <1>7, <1>8, <1>9 DEF Next, Serve, RemoteReturns

\* The service implements CovenantSigner for every set of requests: nothing
\* it signs leaves without a script that ran where the signature counts, or
\* an earlier signature for the same coin (tx.go:26-27, finalization.go:20-22).
THEOREM ImplementsCovenant == Spec => RefinesCovenant
<1>1. Init => CovenantInv
  BY CovenantInit
<1>2. CovenantInv /\ [Next]_vars => CovenantInv'
  BY CovenantStep
<1>3. Init => Covenant!Init
  BY DEF Init, Covenant!Init
<1>4. CovenantInv /\ [Next]_vars => [Covenant!Next]_<<executed, released>>
  BY RefinementStep
<1> QED BY <1>1, <1>2, <1>3, <1>4, PTL DEF Spec, RefinesCovenant, Covenant!Spec
-----------------------------------------------------------------------------
(* What a request looks like while it is served *)

WellFormed(q) ==
    /\ WellFormedPtx(q.ptx)
    /\ q.kind = "offchain" => \A c \in Elements(q.checkpoints) : WellFormedPtx(c)
    /\ q.kind = "finalization" =>
        /\ \A f \in Elements(q.forfeits) : WellFormedPtx(f)
        /\ q.commitment # Nil => WellFormedPtx(q.commitment)

\* The checks of Accepted, as they bind a request at the time it arrived.
AcceptedAt(q, t) ==
    /\ PacketUsable(q.ptx.tx)
    /\ q.kind = "offchain" => indexCheckpoints(q) /\ prevOutFetcherForArkTx(q)
    /\ q.kind = "intent" =>
        /\ WindowOpen(q.message, t)
        /\ prevOutFetcherForIntent(q.ptx)
        /\ validateIntentMessageCommitment(q.ptx, q.message)
    /\ q.kind = "onchain" => PrevOutTxsReal(q.ptx, 1)

RequestAsReceived ==
    /\ phase \in {"entries", "submitted", "finalize", "finalizing", "lookup", "looking", "settle"} =>
            WellFormed(req)
    /\ phase = "entries" => AcceptedAt(req, started) /\ req.kind \in {"offchain", "intent", "onchain"}
    /\ phase = "submitted" => req.kind = "offchain"
    /\ phase \in {"lookup", "looking", "settle"} =>
            req.kind = "finalization" /\ req.commitment # Nil
    /\ phase = "settle" => req.commitment.tx \in indexed

LEMMA FilledInputKeeps ==
    ASSUME NEW in, WellFormedInput(in), NEW i, NEW tx, NEW S
    PROVE  WellFormedInput(FilledInput(in, i, tx, S))
<1> DEFINE x == in.sigs \o HeldSignature(tx, i, S)
           new == FilledInput(in, i, tx, S)
<1>1. PICK u, l, h, p, g : in = [utxo |-> u, leaves |-> l, sighash |-> h, prev |-> p, sigs |-> g]
  BY DEF WellFormedInput
<1>2. new = [in EXCEPT !.sigs = x]
  BY DEF FilledInput
<1> HIDE DEF x, new
<1>3. new = [utxo |-> u, leaves |-> l, sighash |-> h, prev |-> p, sigs |-> x]
  BY <1>1, <1>2
<1>4. new = [utxo |-> new.utxo, leaves |-> new.leaves, sighash |-> new.sighash,
             prev |-> new.prev, sigs |-> new.sigs]
  BY <1>3
<1>5. new.leaves = in.leaves
  BY <1>1, <1>3
<1> QED BY <1>4, <1>5 DEF WellFormedInput, new

\* The signatures a client adds change nothing else of a request.
LEMMA FilledKeeps ==
    ASSUME NEW r \in Requests, NEW S, r.kind = "finalization"
    PROVE  /\ Filled(r, S).kind = r.kind
           /\ Filled(r, S).commitment = r.commitment
           /\ WellFormed(Filled(r, S))
<1> DEFINE ins == r.ptx.inputs
           new == [i \in DOMAIN ins |-> FilledInput(ins[i], i, r.ptx.tx, S)]
           q == Filled(r, S)
<1>1. /\ r = [kind |-> r.kind, ptx |-> r.ptx, forfeits |-> r.forfeits,
               tree |-> r.tree, commitment |-> r.commitment]
      /\ WellFormedPtx(r.ptx)
      /\ \A f \in Elements(r.forfeits) : WellFormedPtx(f)
      /\ r.commitment # Nil => WellFormedPtx(r.commitment)
  BY RequestAssumption
<1>2. r.ptx = [tx |-> r.ptx.tx, inputs |-> ins]
  BY <1>1 DEF WellFormedPtx
<1>3. q = [r EXCEPT !.ptx.inputs = new]
  BY DEF Filled
<1> HIDE DEF new, q
<1>4. q = [kind |-> r.kind, ptx |-> [tx |-> r.ptx.tx, inputs |-> new], forfeits |-> r.forfeits,
           tree |-> r.tree, commitment |-> r.commitment]
  BY <1>1, <1>2, <1>3
<1>5. WellFormedPtx(q.ptx)
  <2>1. q.ptx = [tx |-> r.ptx.tx, inputs |-> new]
    BY <1>4
  <2>2. ins \in Seq(Elements(ins)) /\ Len(ins) = Len(r.ptx.tx.ins) /\ DOMAIN ins = 1..Len(ins)
        /\ r.ptx.tx.packet \in Seq(Elements(r.ptx.tx.packet))
    BY <1>1 DEF WellFormedPtx
  <2>3. DOMAIN new = 1..Len(ins) /\ Len(ins) \in Nat
    BY <2>2 DEF new
  <2>4. new \in Seq(Elements(new)) /\ Len(new) = Len(ins)
    <3>1. new \in [1..Len(ins) -> {new[i] : i \in 1..Len(ins)}]
      BY <2>3 DEF new
    <3>2. new \in Seq({new[i] : i \in 1..Len(ins)}) /\ Len(new) = Len(ins)
      BY <2>3, <3>1
    <3> QED BY <3>2 DEF Elements
  <2>5. ASSUME NEW in \in Elements(new) PROVE WellFormedInput(in)
    <3>1. PICK i \in 1..Len(ins) : in = FilledInput(ins[i], i, r.ptx.tx, S)
      BY <2>2, <2>4 DEF Elements, new
    <3>2. WellFormedInput(ins[i])
      BY <1>1 DEF WellFormedPtx, Elements
    <3> QED BY <3>1, <3>2, FilledInputKeeps
  <2> QED BY <2>1, <2>2, <2>4, <2>5 DEF WellFormedPtx
<1> QED BY <1>1, <1>4, <1>5 DEF WellFormed, q

LEMMA ReceivedWellFormed ==
    ASSUME NEW r \in Requests, Receive(r)
    PROVE  RequestAsReceived'
<1>1. CASE r.kind = "finalization"
  <2>1. phase' = "lookup" /\ req' = Filled(r, released) /\ r.commitment # Nil
    BY <1>1 DEF Receive, Accepted
  <2> QED BY <1>1, <2>1, FilledKeeps DEF RequestAsReceived
<1>2. CASE r.kind # "finalization"
  <2>1. phase' = "entries" /\ req' = r /\ started' = now
    BY <1>2, FilledOther DEF Receive
  <2>2. WellFormed(r) /\ r.kind \in {"offchain", "intent", "onchain"}
    BY <1>2, RequestAssumption DEF WellFormed
  <2>3. AcceptedAt(r, now)
    <3>1. CASE r.kind = "offchain"
      BY <3>1 DEF Receive, Accepted, AcceptedAt
    <3>2. CASE r.kind = "intent"
      BY <3>2 DEF Receive, Accepted, AcceptedAt
    <3>3. CASE r.kind = "onchain"
      BY <3>3 DEF Receive, Accepted, AcceptedAt
    <3> QED BY <2>2, <3>1, <3>2, <3>3
  <2> QED BY <2>1, <2>2, <2>3 DEF RequestAsReceived
<1> QED BY <1>1, <1>2

LEMMA ReceivedReturn ==
    ASSUME NEW sigs, Return(sigs)
    PROVE  RequestAsReceived'
BY DEF Return, RequestAsReceived

LEMMA ReceivedRefuse ==
    ASSUME Refuse
    PROVE  RequestAsReceived'
BY ReceivedReturn DEF Refuse

\* The request stays as it was accepted until it is answered.
LEMMA ReceivedStep ==
    ASSUME RequestAsReceived, [Next]_vars
    PROVE  RequestAsReceived'
<1>1. ASSUME phase' = phase, req' = req, started' = started, indexed \subseteq indexed'
      PROVE  RequestAsReceived'
  BY <1>1 DEF RequestAsReceived, AcceptedAt
<1>2. CASE UNCHANGED vars \/ SkipMessageEntry \/ SkipForeignEntry \/ Tick
  BY <1>1, <1>2 DEF vars, local, SkipMessageEntry, SkipForeignEntry, Tick
<1>3. CASE Connect
  BY <1>3 DEF Connect, RequestAsReceived
<1>4. ASSUME NEW r \in Requests, Receive(r) PROVE RequestAsReceived'
  BY <1>4, ReceivedWellFormed
<1>5. CASE SignEntryStep
  BY <1>1, <1>5 DEF SignEntryStep, SignEntry
<1>6. CASE FailEntry \/ RefuseLoop \/ RefuseUnsigned \/ ArkdRefuses \/ AbandonRetry
  BY <1>6, ReceivedRefuse DEF FailEntry, RefuseLoop, RefuseUnsigned, ArkdRefuses, AbandonRetry
<1>7. CASE AnswerSigned
  BY <1>7, ReceivedReturn DEF AnswerSigned
<1>8. CASE SubmitToArkd
  BY <1>8 DEF SubmitToArkd, LoopEnded, isFinalizer, local, RequestAsReceived
<1>9. CASE ArkdAccepts \/ FinalizeTxReturns \/ GetCommitmentTxReturns
  <2>1. CASE Refuse
    BY <2>1, ReceivedRefuse
  <2>2. CASE ~ Refuse
    BY <1>9, <2>2 DEF ArkdAccepts, FinalizeTxReturns, GetCommitmentTxReturns, RetryOrGiveUp,
       local, RequestAsReceived
  <2> QED BY <2>1, <2>2
<1>10. CASE CallFinalizeTx
  BY <1>10 DEF CallFinalizeTx, local, RequestAsReceived
<1>11. CASE CallGetCommitmentTx
  BY <1>11 DEF CallGetCommitmentTx, local, RequestAsReceived
<1>12. CASE Settle
  <2> PICK sigs : Return(sigs)
    BY <1>12 DEF Settle
  <2> QED BY ReceivedReturn
<1>13. ASSUME NEW r \in Requests, Index(r.commitment.tx) PROVE RequestAsReceived'
  BY <1>1, <1>13 DEF Index, local
<1> QED
  BY <1>2, <1>3, <1>4, <1>5, <1>6, <1>7, <1>8, <1>9, <1>10, <1>11, <1>12, <1>13
     DEF Next, Serve, RemoteReturns
-----------------------------------------------------------------------------
(* What a signature is over *)

TrueSpend(s) ==
    /\ s.prevouts[s.input] = OutputOf(s.tx.ins[s.input])
    /\ ~ (IsProof(s.tx) /\ s.input = 1) =>
        /\ s.leaf \in s.prevouts[s.input].pk.leaves
        /\ s.key \in Elements(s.leaf.keys)

\* An arkd leaf is spent in a proof, a checkpoint or what spends one.
StaysOffchain(s) ==
    ArkdKey \in Elements(s.leaf.keys) =>
        \/ IsProof(s.tx)
        \/ IsCheckpoint(s.tx)
        \/ s.tx.ins[s.input].index = 1 /\ IsCheckpoint(s.tx.ins[s.input].tx)

BornInTime(s) ==
    /\ s.key.signer # Current => (Cutoff = 0 \/ started <= Cutoff)
    /\ req.kind = "intent" =>
        IsProof(s.tx) /\ WindowOpen(s.tx.ins[1].tx.ins[1].tx, started)

OwnIsSound ==
    phase \in {"entries", "submitted"} =>
        \A s \in own : TrueSpend(s) /\ StaysOffchain(s) /\ BornInTime(s)

SoundInv ==
    /\ CovenantInv /\ RequestAsReceived /\ OwnIsSound
    /\ SpendsWhatItSays /\ ArkdLeafStaysOffchain

LEMMA AtBaseSame ==
    ASSUME NEW leaf, leaf.version = "base",
           leaf = [version |-> leaf.version, decodes |-> leaf.decodes, keys |-> leaf.keys]
    PROVE  AtBase(leaf) = leaf
<1>1. PICK d, k : leaf = [version |-> "base", decodes |-> d, keys |-> k]
  OBVIOUS
<1> QED BY <1>1 DEF AtBase

\* A lone or first leaf that decodes at the base version is signed as it is.
LEMMA ReadableLeaf ==
    ASSUME NEW ptx, WellFormedPtx(ptx), NEW i \in 1..Len(ptx.tx.ins), Readable(ptx.inputs[i]),
           Len(ptx.inputs[i].leaves) = 1
    PROVE  AtBase(ptx.inputs[i].leaves[1].leaf) = ptx.inputs[i].leaves[1].leaf
<1>1. WellFormedInput(ptx.inputs[i])
  BY DEF WellFormedPtx, Elements
<1>2. ptx.inputs[i].leaves[1] \in Elements(ptx.inputs[i].leaves)
  BY DEF Elements
<1> DEFINE leaf == ptx.inputs[i].leaves[1].leaf
<1>3. leaf = [version |-> leaf.version, decodes |-> leaf.decodes, keys |-> leaf.keys]
  BY <1>1, <1>2 DEF WellFormedInput
<1>4. leaf.version = "base"
  BY DEF Readable
<1> HIDE DEF leaf
<1>5. AtBase(leaf) = leaf
  BY <1>3, <1>4, AtBaseSame
<1> QED BY <1>5 DEF leaf

LEMMA PrevoutAt ==
    ASSUME NEW ptx, WellFormedPtx(ptx), NEW i \in 1..Len(ptx.tx.ins)
    PROVE  Prevouts(ptx)[i] = ptx.inputs[i].utxo
BY DEF Prevouts, WellFormedPtx

\* The entry of the loop and what reading it found.
LEMMA EntryRead ==
    ASSUME SoundInv, ReadEntry, NEW signer, SignEntry(signer)
    PROVE  /\ phase = "entries" /\ req.kind \in {"offchain", "intent", "onchain"}
           /\ WellFormed(req) /\ AcceptedAt(req, started)
           /\ Entry.vin \in 1..Len(req.ptx.tx.ins)
           /\ CanSign(EntryInput) /\ Readable(EntryInput)
           /\ AtBase(EntryInput.leaves[1].leaf) = EntryInput.leaves[1].leaf
<1>1. phase = "entries" /\ req.kind \in {"offchain", "intent", "onchain"}
      /\ WellFormed(req) /\ AcceptedAt(req, started)
  BY DEF SoundInv, RequestAsReceived, ReadEntry, InLoop
<1>2. pos \in 1..Len(req.ptx.tx.packet)
  BY SMT DEF SoundInv, CovenantInv, TypeOK, LoopKnowsCheckpoints, ReadEntry, InLoop
<1>3. Entry.vin \in 1..Len(req.ptx.tx.ins)
  BY <1>1, <1>2 DEF AcceptedAt, PacketUsable, Entry
<1>4. <<req.ptx, Entry.vin>> \in EntryTargets
  BY DEF EntryTargets
<1>5. CanSign(EntryInput) /\ Readable(EntryInput)
  BY <1>4 DEF SignEntry, EntrySignable, EntryInput
<1>6. AtBase(EntryInput.leaves[1].leaf) = EntryInput.leaves[1].leaf
  BY <1>1, <1>3, <1>5, ReadableLeaf DEF WellFormed, CanSign, EntryInput
<1> QED BY <1>1, <1>3, <1>5, <1>6

\* The signer an entry names holds a key of the leaf and is not retired.
LEMMA EntrySigner ==
    ASSUME SoundInv, ReadEntry, NEW signer, SignEntry(signer)
    PROVE  /\ TweakedKey(signer, Entry.script) \in Elements(EntryInput.leaves[1].leaf.keys)
           /\ signer # Current => (Cutoff = 0 \/ started <= Cutoff)
<1> DEFINE t == IF req.kind = "intent" THEN started ELSE now
           active == activeDeprecatedSigners(t)
           signers == <<Current>> \o active
<1>1. signer \in resolveArkadeScriptSigner(EntryInput, Entry.script, active)
  BY DEF SignEntry, EntrySigners
<1>2. PICK c \in 1..Len(signers) : signer = signers[c] /\ HoldsKey(EntryInput, signers[c], Entry.script)
  BY <1>1 DEF resolveArkadeScriptSigner
<1>3. TweakedKey(signer, Entry.script) \in Elements(EntryInput.leaves[1].leaf.keys)
  BY <1>2 DEF HoldsKey, ClosurePubKeys
<1>4. started <= t /\ started \in Nat /\ t \in Nat
  BY SMT DEF SoundInv, CovenantInv, TypeOK
<1>5. CASE Cutoff = 0 \/ t <= Cutoff
  BY <1>3, <1>4, <1>5, Boundaries, SMT
<1>6. CASE Cutoff # 0 /\ t > Cutoff
  <2>1. active = << >>
    BY <1>6 DEF activeDeprecatedSigners
  <2> HIDE DEF active
  <2>2. signers = <<Current>>
    BY <2>1
  <2> HIDE DEF signers
  <2>3. signer = Current
    BY <1>2, <2>2
  <2> QED BY <1>3, <2>3
<1> HIDE DEF t
<1>7. (Cutoff = 0 \/ t <= Cutoff) \/ (Cutoff # 0 /\ t > Cutoff)
  BY <1>4, Boundaries, SMT
<1> QED BY <1>5, <1>6, <1>7

\* A proof the service accepted commits its message at its first input.
LEMMA AcceptedProof ==
    ASSUME NEW q, NEW t, q.kind = "intent", AcceptedAt(q, t)
    PROVE  /\ IsProof(q.ptx.tx) /\ q.ptx.tx.ins[1].tx.ins[1].tx = q.message
           /\ WindowOpen(q.message, t)
           /\ OutputOf(q.ptx.tx.ins[1]) = [value |-> 0, pk |-> q.ptx.inputs[2].utxo.pk]
<1> DEFINE pk == q.ptx.inputs[2].utxo.pk
<1>1. q.ptx.tx.ins[1] = [tx |-> ToSpend(q.message, pk), index |-> 1] /\ WindowOpen(q.message, t)
  BY DEF AcceptedAt, validateIntentMessageCommitment
<1> HIDE DEF pk
<1>2. ToSpend(q.message, pk).ins = <<[tx |-> q.message, index |-> 0]>>
      /\ ToSpend(q.message, pk).outs = <<[value |-> 0, pk |-> pk]>>
  BY DEF ToSpend
<1>3. q.ptx.tx.ins[1].tx.ins = <<[tx |-> q.message, index |-> 0]>>
      /\ q.ptx.tx.ins[1].tx.outs = <<[value |-> 0, pk |-> pk]>> /\ q.ptx.tx.ins[1].index = 1
  BY <1>1, <1>2
<1> QED BY <1>1, <1>3 DEF IsProof, OutputOf, pk

\* The output an entry's input claims is the one it spends.
LEMMA EntryPrevout ==
    ASSUME SoundInv, ReadEntry, NEW signer, SignEntry(signer)
    PROVE  EntryInput.utxo = OutputOf(req.ptx.tx.ins[Entry.vin])
<1>1. /\ req.kind \in {"offchain", "intent", "onchain"}
      /\ WellFormed(req) /\ AcceptedAt(req, started)
      /\ Entry.vin \in 1..Len(req.ptx.inputs)
  BY EntryRead DEF WellFormed, WellFormedPtx
<1>2. CASE req.kind = "offchain"
  <2>1. checkpointOf(req, Entry.vin).tx = req.ptx.tx.ins[Entry.vin].tx
    BY <1>1, <1>2, EntryRead, CheckpointIsSpent DEF AcceptedAt
  <2>2. reconcilePrevout(checkpointOf(req, Entry.vin).tx, req.ptx.tx.ins[Entry.vin].index,
                         req.ptx.inputs[Entry.vin].utxo)
    BY <1>1, <1>2 DEF AcceptedAt, prevOutFetcherForArkTx
  <2> QED BY <2>1, <2>2 DEF reconcilePrevout, OutputOf, EntryInput
<1>3. CASE req.kind = "intent"
  <2>1. Entry.vin \in 2..Len(req.ptx.inputs)
    <3>1. Entry.vin # 1
      BY <1>3 DEF ReadEntry
    <3>2. Len(req.ptx.inputs) \in Nat
      BY <1>1 DEF WellFormed, WellFormedPtx
    <3> QED BY <1>1, <3>1, <3>2
  <2> QED BY <1>1, <1>3, <2>1 DEF AcceptedAt, prevOutFetcherForIntent, PrevOutTxsReal,
          reconcilePrevout, OutputOf, EntryInput
<1>4. CASE req.kind = "onchain"
  BY <1>1, <1>4 DEF AcceptedAt, PrevOutTxsReal, reconcilePrevout, OutputOf, EntryInput
<1> QED BY <1>1, <1>2, <1>3, <1>4

\* The three inputs an entry may have signed, each over what it spends.
LEMMA EntrySound ==
    ASSUME SoundInv, ReadEntry, NEW signer, SignEntry(signer),
           NEW s \in EntrySignatures(TweakedKey(signer, Entry.script))
    PROVE  TrueSpend(s) /\ StaysOffchain(s) /\ BornInTime(s)
<1> DEFINE key == TweakedKey(signer, Entry.script)
           leaf == EntryInput.leaves[1].leaf
<1>1. PICK t \in EntryTargets : s = Signature(key, t[1], t[2])
  BY DEF EntrySignatures
<1>2. /\ s.key = key /\ s.tx = t[1].tx /\ s.input = t[2] /\ s.prevouts = Prevouts(t[1])
      /\ s.leaf = AtBase(t[1].inputs[t[2]].leaves[1].leaf)
  <2> HIDE DEF key
  <2> QED BY <1>1, SignatureFields
<1>3. s.key.signer = signer
  BY <1>2 DEF TweakedKey
<1>4. /\ req.kind \in {"offchain", "intent", "onchain"}
      /\ WellFormed(req) /\ AcceptedAt(req, started)
      /\ Entry.vin \in 1..Len(req.ptx.tx.ins)
      /\ CanSign(EntryInput) /\ AtBase(leaf) = leaf
  BY EntryRead
<1>5. key \in Elements(leaf.keys) /\ (signer # Current => (Cutoff = 0 \/ started <= Cutoff))
  BY EntrySigner
<1>6. EntryAllowed /\ EntrySignable
  BY DEF SignEntry
<1>7. req.kind = "intent" => /\ IsProof(req.ptx.tx)
                             /\ WindowOpen(req.ptx.tx.ins[1].tx.ins[1].tx, started)
  BY <1>4, AcceptedProof
<1>8. req.kind = "offchain" => validateCheckpoint(req, Entry.vin)
  BY <1>6 DEF EntryAllowed
<1> HIDE DEF key
<1>9. CASE t = <<req.ptx, Entry.vin>>
  <2>1. /\ s.tx = req.ptx.tx /\ s.input = Entry.vin /\ s.leaf = leaf
        /\ s.prevouts[s.input] = EntryInput.utxo
    BY <1>2, <1>4, <1>9, PrevoutAt DEF EntryInput, WellFormed
  <2>2. TrueSpend(s)
    BY <1>2, <1>4, <1>5, <2>1, EntryPrevout DEF TrueSpend, CanSign, Committed
  <2>3. StaysOffchain(s)
    <3>1. CASE req.kind = "offchain"
      <4> DEFINE c == checkpointOf(req, Entry.vin)
      <4>1. c.tx = req.ptx.tx.ins[Entry.vin].tx
        BY <1>4, <3>1, CheckpointIsSpent DEF AcceptedAt
      <4>2. IsCheckpoint(c.tx) /\ req.ptx.tx.ins[Entry.vin].index = 1
        BY <1>8, <3>1 DEF validateCheckpoint, IsCheckpoint
      <4> QED BY <2>1, <4>1, <4>2 DEF StaysOffchain
    <3>2. CASE req.kind = "intent"
      BY <1>7, <2>1, <3>2 DEF StaysOffchain
    <3>3. CASE req.kind = "onchain"
      BY <1>6, <2>1, <3>3 DEF StaysOffchain, EntryAllowed, ClosurePubKeys
    <3> QED BY <1>4, <3>1, <3>2, <3>3
  <2>4. BornInTime(s)
    BY <1>3, <1>5, <1>7, <2>1 DEF BornInTime
  <2> QED BY <2>2, <2>3, <2>4
<1>10. CASE req.kind = "offchain" /\ t = <<checkpointOf(req, Entry.vin), 1>>
  <2> DEFINE c == checkpointOf(req, Entry.vin)
  <2>1. WellFormedPtx(c)
    BY <1>4, <1>10, CheckpointIsSpent DEF AcceptedAt, WellFormed
  <2>2. /\ Len(c.tx.ins) = 1 /\ IsCheckpoint(c.tx)
        /\ c.inputs[1].utxo = OutputOf(c.tx.ins[1])
        /\ c.inputs[1].leaves[1].leaf = leaf /\ leaf \in c.inputs[1].utxo.pk.leaves
    BY <1>8, <1>10 DEF validateCheckpoint, IsCheckpoint, validateTaprootLeaf, Committed, EntryInput
  <2>3. t[1] = c /\ t[2] = 1
    BY <1>10
  <2> HIDE DEF c, leaf
  <2>4. s.tx = c.tx /\ s.input = 1 /\ s.leaf = leaf /\ s.prevouts[s.input] = c.inputs[1].utxo
    <3>1. 1 \in 1..Len(c.tx.ins)
      BY <2>2
    <3> QED BY <1>2, <1>4, <2>1, <2>2, <2>3, <3>1, PrevoutAt
  <2> QED BY <1>2, <1>3, <1>5, <1>10, <2>2, <2>4 DEF TrueSpend, StaysOffchain, BornInTime
<1>11. CASE req.kind = "intent" /\ Entry.vin = 2 /\ t = <<req.ptx, 1>>
  <2>1. 1 \in 1..Len(req.ptx.tx.ins)
    BY <1>4, <1>11, SMT DEF WellFormed, WellFormedPtx
  <2>2. s.tx = req.ptx.tx /\ s.input = 1 /\ s.prevouts[s.input] = req.ptx.inputs[1].utxo
    BY <1>2, <1>4, <1>11, <2>1, PrevoutAt DEF WellFormed
  <2>3. req.ptx.inputs[1].utxo = [value |-> 0, pk |-> req.ptx.inputs[2].utxo.pk]
    BY <1>4, <1>11 DEF AcceptedAt, prevOutFetcherForIntent
  <2>4. OutputOf(req.ptx.tx.ins[1]) = [value |-> 0, pk |-> req.ptx.inputs[2].utxo.pk]
    BY <1>4, <1>11, AcceptedProof
  <2> QED BY <1>3, <1>5, <1>7, <1>11, <2>2, <2>3, <2>4 DEF TrueSpend, StaysOffchain, BornInTime
<1> QED BY <1>9, <1>10, <1>11 DEF EntryTargets

\* The proof's signature was released, so what the proof claims is true.
LEMMA ProofSignature ==
    ASSUME SoundInv, phase = "settle", AssociationsValid(req.ptx, Signers),
           NEW k \in SignedEntries(req.ptx), NEW c \in FirstCandidate(req.ptx, k, Signers)
    PROVE  Prevouts(req.ptx)[req.ptx.tx.packet[k].vin] = OutputOf(req.ptx.tx.ins[req.ptx.tx.packet[k].vin])
<1> DEFINE vin == req.ptx.tx.packet[k].vin
           key == TweakedKey(Signers[c], req.ptx.tx.packet[k].script)
<1>1. c \in 1..Len(Signers) /\ FirstBy(req.ptx.inputs[vin].sigs, key) # {}
  BY DEF FirstCandidate, SigningCandidates, LeafCandidates
<1>2. PICK s \in FirstBy(req.ptx.inputs[vin].sigs, key) : TRUE
  BY <1>1
<1>3. s = Signature(key, req.ptx, vin) /\ Made(s)
  BY DEF AssociationsValid
<1>4. s.key = key /\ s.tx = req.ptx.tx /\ s.input = vin /\ s.prevouts = Prevouts(req.ptx)
  <2> HIDE DEF vin, key
  <2> QED BY <1>3, SignatureFields
<1>5. s.key.signer = Signers[c]
  BY <1>4 DEF TweakedKey
<1>6. s \in released
  BY <1>1, <1>3, <1>5, SignersConfigured DEF Made, SoundInv, CovenantInv, NothingCollected
<1>7. s.prevouts[s.input] = OutputOf(s.tx.ins[s.input])
  BY <1>6 DEF SoundInv, SpendsWhatItSays
<1> QED BY <1>4, <1>7

\* What a batch signature carries over from the proof it settles.
LEMMA AssociationTrue ==
    ASSUME SoundInv, phase = "settle", AssociationsValid(req.ptx, Signers),
           NEW a \in Associations(req.ptx, Signers)
    PROVE  /\ a.prevout = OutputOf(a.op)
           /\ a.key \in Elements(a.leaf.keys)
           /\ a.leaf.version = "base"
           /\ a.key.signer # Current => (Cutoff = 0 \/ started <= Cutoff)
<1>0. PICK k \in SignedEntries(req.ptx) : \E c \in FirstCandidate(req.ptx, k, Signers) :
        a = [op |-> req.ptx.tx.ins[req.ptx.tx.packet[k].vin],
             key |-> TweakedKey(Signers[c], req.ptx.tx.packet[k].script),
             leaf |-> req.ptx.inputs[req.ptx.tx.packet[k].vin].leaves[1].leaf,
             prevout |-> req.ptx.inputs[req.ptx.tx.packet[k].vin].utxo]
  BY DEF Associations, LastEntries, EntryOutpoint
<1> DEFINE vin == req.ptx.tx.packet[k].vin
<1>a. PICK c \in FirstCandidate(req.ptx, k, Signers) :
        a = [op |-> req.ptx.tx.ins[req.ptx.tx.packet[k].vin],
             key |-> TweakedKey(Signers[c], req.ptx.tx.packet[k].script),
             leaf |-> req.ptx.inputs[req.ptx.tx.packet[k].vin].leaves[1].leaf,
             prevout |-> req.ptx.inputs[req.ptx.tx.packet[k].vin].utxo]
  BY <1>0
<1>1. /\ a.op = req.ptx.tx.ins[vin]
      /\ a.key = TweakedKey(Signers[c], req.ptx.tx.packet[k].script)
      /\ a.leaf = req.ptx.inputs[vin].leaves[1].leaf
      /\ a.prevout = req.ptx.inputs[vin].utxo
  BY <1>a
<1>2. /\ c \in 1..Len(Signers)
      /\ HoldsKey(req.ptx.inputs[vin], Signers[c], req.ptx.tx.packet[k].script)
  BY DEF FirstCandidate, SigningCandidates, LeafCandidates
<1>3. a.key \in Elements(a.leaf.keys)
  BY <1>1, <1>2 DEF HoldsKey, ClosurePubKeys
<1>4. a.leaf.version = "base"
  <2>1. Readable(req.ptx.inputs[vin])
    BY DEF AssociationsValid
  <2> QED BY <1>1, <2>1 DEF Readable
<1>5. vin \in 1..Len(req.ptx.tx.ins)
  BY DEF AssociationsValid, PacketUsable, SignedEntries
<1>6. WellFormedPtx(req.ptx)
  BY DEF SoundInv, RequestAsReceived, WellFormed
<1>7. Prevouts(req.ptx)[vin] = a.prevout
  <2> HIDE DEF vin
  <2> QED BY <1>1, <1>5, <1>6, PrevoutAt
<1>8. Prevouts(req.ptx)[vin] = OutputOf(req.ptx.tx.ins[vin])
  BY ProofSignature
<1>9. a.key.signer = Signers[c]
  BY <1>1 DEF TweakedKey
<1>10. a.key.signer # Current => (Cutoff = 0 \/ started <= Cutoff)
  <2> DEFINE active == activeDeprecatedSigners(now)
  <2>1. started <= now /\ started \in Nat /\ now \in Nat
    BY SMT DEF SoundInv, CovenantInv, TypeOK
  <2>2. CASE Cutoff = 0 \/ now <= Cutoff
    BY <2>1, <2>2, Boundaries, SMT
  <2>3. CASE Cutoff # 0 /\ now > Cutoff
    <3>1. Signers = <<Current>>
      BY <2>3 DEF Signers, activeDeprecatedSigners
    <3> QED BY <1>2, <1>9, <3>1
  <2> QED BY <2>1, <2>2, <2>3, Boundaries, SMT
<1> QED BY <1>1, <1>3, <1>4, <1>7, <1>8, <1>10

\* A batch signature is over the coin its proof showed, in a forfeit that
\* pays all of it or in the commitment transaction arkd indexed.
LEMMA SettleSound ==
    ASSUME SoundInv, phase = "settle",
           AssociationsValid(req.ptx, Signers),
           ForfeitsValid(req, Associations(req.ptx, Signers)),
           BoardingValid(req, Associations(req.ptx, Signers)),
           NEW s \in ForfeitSignatures(req, Associations(req.ptx, Signers)) \union
                     BoardingSignatures(req, Associations(req.ptx, Signers))
    PROVE  /\ TrueSpend(s)
           /\ IsForfeit(s.tx) \/ s.tx \in indexed
           /\ s.key.signer # Current => (Cutoff = 0 \/ started <= Cutoff)
<1> DEFINE assocs == Associations(req.ptx, Signers)
<1>0. WellFormed(req) /\ req.kind = "finalization" /\ req.commitment # Nil
      /\ req.commitment.tx \in indexed
  BY DEF SoundInv, RequestAsReceived
<1>1. ASSUME NEW f, WellFormedPtx(f), NEW i \in 1..Len(f.tx.ins), NEW a \in assocs,
             a.op = f.tx.ins[i], validateFinalizationInput(a, f.inputs[i]), CanSign(f.inputs[i]),
             s = Signature(a.key, f, i)
      PROVE  /\ TrueSpend(s) /\ s.tx = f.tx
             /\ s.key.signer # Current => (Cutoff = 0 \/ started <= Cutoff)
  <2>1. /\ a.prevout = OutputOf(a.op) /\ a.key \in Elements(a.leaf.keys)
        /\ a.leaf.version = "base"
        /\ a.key.signer # Current => (Cutoff = 0 \/ started <= Cutoff)
    BY AssociationTrue
  <2>2. f.inputs[i].utxo = a.prevout /\ f.inputs[i].leaves[1].leaf = a.leaf
    BY <1>1 DEF validateFinalizationInput
  <2>3. a.leaf = [version |-> a.leaf.version, decodes |-> a.leaf.decodes, keys |-> a.leaf.keys]
    <3>1. WellFormedInput(f.inputs[i])
      BY <1>1 DEF WellFormedPtx, Elements
    <3>2. f.inputs[i].leaves[1] \in Elements(f.inputs[i].leaves)
      BY <1>1 DEF CanSign, Elements
    <3> QED BY <2>2, <3>1, <3>2 DEF WellFormedInput
  <2>4. AtBase(a.leaf) = a.leaf
    BY <2>1, <2>3, AtBaseSame
  <2>5. s.key = a.key /\ s.tx = f.tx /\ s.input = i /\ s.leaf = a.leaf
        /\ s.prevouts = Prevouts(f)
    BY <1>1, <2>2, <2>4, SignatureFields
  <2>6. s.prevouts[s.input] = a.prevout
    BY <1>1, <2>2, <2>5, PrevoutAt
  <2>7. a.leaf \in a.prevout.pk.leaves
    BY <1>1, <2>2 DEF CanSign, Committed
  <2> QED BY <1>1, <2>1, <2>5, <2>6, <2>7 DEF TrueSpend
<1>2. CASE s \in ForfeitSignatures(req, assocs)
  <2>1. PICK ki \in ForfeitSlots(req.forfeits, assocs), a \in assocs :
          /\ a.op = OutpointAt(req.forfeits, ki)
          /\ s = Signature(a.key, req.forfeits[ki[1]], ki[2])
    BY <1>2 DEF ForfeitSignatures
  <2> DEFINE f == req.forfeits[ki[1]]
             i == ki[2]
  <2>2. ki[1] \in 1..Len(req.forfeits) /\ i \in 1..2
    BY DEF ForfeitSlots, Slots
  <2>3. WellFormedPtx(f) /\ Len(f.tx.ins) = 2
    BY <1>0, <2>2 DEF WellFormed, Elements, ForfeitsValid
  <2>4. ForfeitValid(req, ki, a)
    BY <2>1 DEF ForfeitsValid
  <2>5. PICK connector \in leafOutput(req.tree, f.tx.ins[3 - i]) :
          validateForfeitOutputs(f, i, a.prevout, connector)
    BY <2>4 DEF ForfeitValid
  <2>6. connector = OutputOf(f.tx.ins[3 - i])
    BY DEF leafOutput, OutputOf
  <2>7. a.op = f.tx.ins[i] /\ validateFinalizationInput(a, f.inputs[i]) /\ CanSign(f.inputs[i])
    BY <2>1, <2>4 DEF ForfeitValid, OutpointAt
  <2>8. a.prevout = OutputOf(f.tx.ins[i])
    BY <2>7, AssociationTrue
  <2>9. IsForfeit(f.tx)
    BY <2>2, <2>3, <2>5, <2>6, <2>8 DEF validateForfeitOutputs, IsForfeit
  <2>10. i \in 1..Len(f.tx.ins) /\ s = Signature(a.key, f, i)
    BY <2>1, <2>2, <2>3
  <2> HIDE DEF f, i
  <2> QED BY <1>1, <2>3, <2>7, <2>9, <2>10
<1>3. CASE s \in BoardingSignatures(req, assocs)
  <2>1. PICK i \in 1..Len(req.commitment.tx.ins), a \in Boarding(req, assocs) :
          /\ a.op = req.commitment.tx.ins[i]
          /\ s = Signature(a.key, req.commitment, i)
    BY <1>3 DEF BoardingSignatures
  <2>2. a \in assocs /\ validateFinalizationInput(a, req.commitment.inputs[i])
        /\ CanSign(req.commitment.inputs[i])
    BY <2>1 DEF BoardingValid, Boarding
  <2>3. WellFormedPtx(req.commitment)
    BY <1>0 DEF WellFormed
  <2> QED BY <1>0, <1>1, <2>1, <2>2, <2>3
<1> QED BY <1>2, <1>3

LEMMA OwnReleased ==
    ASSUME SoundInv, phase = "entries", released' = released \union own, indexed' = indexed
    PROVE  SpendsWhatItSays' /\ ArkdLeafStaysOffchain'
<1>1. \A s \in released' : TrueSpend(s)
  BY DEF SoundInv, OwnIsSound, SpendsWhatItSays, TrueSpend
<1>2. SpendsWhatItSays'
  BY <1>1 DEF SpendsWhatItSays, TrueSpend
<1>3. ArkdLeafStaysOffchain'
  BY DEF SoundInv, OwnIsSound, ArkdLeafStaysOffchain, StaysOffchain
<1> QED BY <1>2, <1>3

LEMMA SoundKept ==
    ASSUME SoundInv, released' = released, indexed \subseteq indexed'
    PROVE  SpendsWhatItSays' /\ ArkdLeafStaysOffchain'
BY DEF SoundInv, SpendsWhatItSays, ArkdLeafStaysOffchain

LEMMA SoundRefuse ==
    ASSUME SoundInv, Refuse
    PROVE  OwnIsSound' /\ SpendsWhatItSays' /\ ArkdLeafStaysOffchain'
<1>1. OwnIsSound'
  BY DEF Refuse, Return, OwnIsSound
<1>2. released' = released /\ indexed' = indexed
  BY DEF Refuse, Return
<1> QED BY <1>1, <1>2, SoundKept

LEMMA SoundStep ==
    ASSUME SoundInv, [Next]_vars
    PROVE  SoundInv'
<1> DEFINE Goal == OwnIsSound' /\ SpendsWhatItSays' /\ ArkdLeafStaysOffchain'
<1> SUFFICES Goal
  BY CovenantStep, ReceivedStep DEF SoundInv
<1>1. ASSUME phase' = phase, own' = own, req' = req, started' = started,
             released' = released, indexed \subseteq indexed'
      PROVE  Goal
  BY <1>1, SoundKept DEF SoundInv, OwnIsSound, BornInTime
<1>2. ASSUME phase' \notin {"entries", "submitted"}, released' = released, indexed' = indexed
      PROVE  Goal
  BY <1>2, SoundKept DEF OwnIsSound
<1>3. CASE UNCHANGED vars \/ SkipMessageEntry \/ SkipForeignEntry \/ Tick
  BY <1>1, <1>3 DEF vars, local, SkipMessageEntry, SkipForeignEntry, Tick
<1>4. CASE Connect \/ CallFinalizeTx \/ CallGetCommitmentTx
  BY <1>2, <1>4 DEF Connect, CallFinalizeTx, CallGetCommitmentTx
<1>5. ASSUME NEW r \in Requests, Receive(r) PROVE Goal
  <2>1. own' = {}
    BY <1>5 DEF Receive, SoundInv, CovenantInv, NothingCollected
  <2>2. released' = released /\ indexed' = indexed
    BY <1>5 DEF Receive
  <2> QED BY <2>1, <2>2, SoundKept DEF OwnIsSound
<1>6. CASE SignEntryStep
  <2> PICK signer \in EntrySigners : SignEntry(signer)
    BY <1>6 DEF SignEntryStep
  <2>1. phase = "entries" /\ req' = req /\ started' = started /\ ReadEntry
        /\ own' = own \union EntrySignatures(TweakedKey(signer, Entry.script))
        /\ released' = released /\ indexed' = indexed
    BY <1>6 DEF SignEntryStep, ReadEntry, InLoop, SignEntry
  <2>2. \A s \in own' : TrueSpend(s) /\ StaysOffchain(s) /\ BornInTime(s)
    BY <2>1, EntrySound DEF SoundInv, OwnIsSound
  <2>3. OwnIsSound'
    BY <2>1, <2>2 DEF OwnIsSound, BornInTime
  <2> QED BY <2>1, <2>3, SoundKept
<1>7. CASE FailEntry \/ RefuseLoop \/ RefuseUnsigned \/ ArkdRefuses \/ AbandonRetry
  BY <1>7, SoundRefuse DEF FailEntry, RefuseLoop, RefuseUnsigned, ArkdRefuses, AbandonRetry
<1>8. CASE AnswerSigned
  <2>1. OwnIsSound'
    BY <1>8 DEF AnswerSigned, Return, OwnIsSound
  <2> QED BY <1>8, <2>1, OwnReleased DEF AnswerSigned, LoopEnded, Return
<1>9. CASE SubmitToArkd
  <2>1. OwnIsSound'
    BY <1>9 DEF SubmitToArkd, LoopEnded, local, SoundInv, OwnIsSound, BornInTime
  <2> QED BY <1>9, <2>1, OwnReleased DEF SubmitToArkd, LoopEnded
<1>10. CASE ArkdAccepts \/ FinalizeTxReturns \/ GetCommitmentTxReturns
  <2>1. CASE Refuse
    BY <2>1, SoundRefuse
  <2>2. CASE ~ Refuse
    BY <1>2, <1>10, <2>2 DEF ArkdAccepts, FinalizeTxReturns, GetCommitmentTxReturns, RetryOrGiveUp
  <2> QED BY <2>1, <2>2
<1>11. CASE Settle
  <2> DEFINE assocs == Associations(req.ptx, Signers)
  <2>1. OwnIsSound'
    BY <1>11 DEF Settle, Return, OwnIsSound
  <2>2. CASE Return({})
    BY <1>11, <2>1, <2>2, SoundKept DEF Settle, Return
  <2>3. CASE /\ AssociationsValid(req.ptx, Signers)
             /\ ForfeitsValid(req, assocs)
             /\ BoardingValid(req, assocs)
             /\ Return(ForfeitSignatures(req, assocs) \union BoardingSignatures(req, assocs))
    <3>1. \A s \in released' \ released : TrueSpend(s) /\ (IsForfeit(s.tx) \/ s.tx \in indexed)
      BY <1>11, <2>3, SettleSound DEF Settle, Return
    <3>2. indexed' = indexed
      BY <1>11 DEF Settle
    <3>3. SpendsWhatItSays'
      BY <3>1 DEF SoundInv, SpendsWhatItSays, TrueSpend
    <3>4. ArkdLeafStaysOffchain'
      BY <3>1, <3>2 DEF SoundInv, ArkdLeafStaysOffchain
    <3> QED BY <2>1, <3>3, <3>4
  <2> QED BY <1>11, <2>2, <2>3 DEF Settle
<1>12. ASSUME NEW r \in Requests, Index(r.commitment.tx) PROVE Goal
  BY <1>1, <1>12 DEF Index, local
<1> QED
  BY <1>3, <1>4, <1>5, <1>6, <1>7, <1>8, <1>9, <1>10, <1>11, <1>12
     DEF Next, Serve, RemoteReturns

LEMMA SoundInit == Init => SoundInv
BY CovenantInit DEF Init, SoundInv, RequestAsReceived, OwnIsSound, SpendsWhatItSays, ArkdLeafStaysOffchain

\* Every signature is over the output its outpoint names, for a leaf that
\* output commits and that lists the key (prevout.go, signer.go).
THEOREM SpendsAreTrue == Spec => []SpendsWhatItSays
<1>1. SoundInv => SpendsWhatItSays
  BY DEF SoundInv
<1>2. SoundInv /\ [Next]_vars => SoundInv'
  BY SoundStep
<1> QED BY <1>1, <1>2, SoundInit, PTL DEF Spec

\* A coin whose leaf needs arkd is signed for only where arkd can follow
\* (onchain.go:18-22, finalization.go:24-29).
THEOREM ArkdCoinsStayOffchain == Spec => []ArkdLeafStaysOffchain
<1>1. SoundInv => ArkdLeafStaysOffchain
  BY DEF SoundInv
<1>2. SoundInv /\ [Next]_vars => SoundInv'
  BY SoundStep
<1> QED BY <1>1, <1>2, SoundInit, PTL DEF Spec
-----------------------------------------------------------------------------
(* Time and completeness *)

LEMMA InTimeStep ==
    ASSUME SoundInv, [Next]_vars, NEW s \in released' \ released
    PROVE  /\ s.key.signer # Current => (Cutoff = 0 \/ started <= Cutoff)
           /\ req.kind = "intent" =>
                IsProof(s.tx) /\ WindowOpen(s.tx.ins[1].tx.ins[1].tx, started)
<1> DEFINE Goal == /\ s.key.signer # Current => (Cutoff = 0 \/ started <= Cutoff)
                   /\ req.kind = "intent" =>
                        IsProof(s.tx) /\ WindowOpen(s.tx.ins[1].tx.ins[1].tx, started)
<1>1. ASSUME Refuse PROVE FALSE
  BY <1>1 DEF Refuse, Return
<1>2. CASE UNCHANGED vars \/ Connect \/ SkipMessageEntry \/ SkipForeignEntry \/ Tick
           \/ CallFinalizeTx \/ CallGetCommitmentTx
  BY <1>2 DEF vars, Connect, SkipMessageEntry, SkipForeignEntry, Tick, CallFinalizeTx, CallGetCommitmentTx
<1>3. ASSUME NEW r \in Requests, Receive(r) \/ Index(r.commitment.tx) PROVE FALSE
  BY <1>3 DEF Receive, Index
<1>4. CASE FailEntry \/ RefuseLoop \/ RefuseUnsigned \/ ArkdRefuses \/ AbandonRetry
  BY <1>1, <1>4 DEF FailEntry, RefuseLoop, RefuseUnsigned, ArkdRefuses, AbandonRetry
<1>5. CASE ArkdAccepts \/ FinalizeTxReturns \/ GetCommitmentTxReturns
  BY <1>1, <1>5 DEF ArkdAccepts, FinalizeTxReturns, GetCommitmentTxReturns, RetryOrGiveUp
<1>6. CASE SignEntryStep
  BY <1>6 DEF SignEntryStep, SignEntry
<1>7. CASE AnswerSigned \/ SubmitToArkd
  <2>1. s \in own /\ phase = "entries"
    BY <1>7 DEF AnswerSigned, SubmitToArkd, LoopEnded, Return
  <2> QED BY <2>1 DEF SoundInv, OwnIsSound, BornInTime
<1>8. CASE Settle
  <2> DEFINE assocs == Associations(req.ptx, Signers)
  <2>1. CASE Return({})
    BY <2>1 DEF Return
  <2>2. CASE /\ AssociationsValid(req.ptx, Signers)
             /\ ForfeitsValid(req, assocs)
             /\ BoardingValid(req, assocs)
             /\ Return(ForfeitSignatures(req, assocs) \union BoardingSignatures(req, assocs))
    <3>1. s.key.signer # Current => (Cutoff = 0 \/ started <= Cutoff)
      BY <1>8, <2>2, SettleSound DEF Settle, Return
    <3>2. req.kind = "finalization"
      BY <1>8 DEF Settle, SoundInv, RequestAsReceived
    <3> QED BY <3>1, <3>2
  <2> QED BY <1>8, <2>1, <2>2 DEF Settle
<1> QED
  BY <1>2, <1>3, <1>4, <1>5, <1>6, <1>7, <1>8 DEF Next, Serve, RemoteReturns

\* No signature with a retired key for a request that came after the
\* cutoff, and none for an intent outside its window on arrival
\* (service.go:82-92, intent.go:32-38).
THEOREM SignedInTime == Spec => ReleasedInTime
<1>1. SoundInv /\ [Next]_vars => SoundInv'
  BY SoundStep
<1>2. SoundInv /\ [Next]_vars =>
        [\A s \in released' \ released :
            /\ s.key.signer # Current => (Cutoff = 0 \/ started <= Cutoff)
            /\ req.kind = "intent" =>
                IsProof(s.tx) /\ WindowOpen(s.tx.ins[1].tx.ins[1].tx, started)]_vars
  BY InTimeStep
<1> QED BY <1>1, <1>2, SoundInit, PTL DEF Spec, ReleasedInTime

AllSigned(checkpoints, sigs) ==
    \A c \in Elements(checkpoints) :
        \A key \in Elements(c.inputs[1].leaves[1].leaf.keys) \ {ArkdKey} : SignedBy(c, key, sigs)

CompleteInv ==
    /\ phase = "submitted" => CheckpointsSigned
    /\ phase \in {"finalize", "finalizing"} =>
            AllSigned(req.checkpoints, RequestSignatures(req) \union own)
    /\ FinalizedComplete

LEMMA SignedByMore ==
    ASSUME NEW c, NEW key, NEW A, NEW B, A \subseteq B, SignedBy(c, key, A)
    PROVE  SignedBy(c, key, B)
BY DEF SignedBy

\* A signature once made stays made.
LEMMA MadeAccumulates ==
    ASSUME req' = req, released \union own \subseteq released' \union own'
    PROVE  RequestSignatures(req) \subseteq RequestSignatures(req)'
BY DEF RequestSignatures, Made

LEMMA CompleteRefuse ==
    ASSUME CompleteInv, Refuse
    PROVE  CompleteInv'
BY DEF CompleteInv, Refuse, Return, FinalizedComplete

LEMMA CompleteStep ==
    ASSUME CompleteInv, [Next]_vars
    PROVE  CompleteInv'
<1>1. ASSUME phase' = phase, req' = req, own' = own, released' = released, finalized' = finalized
      PROVE  CompleteInv'
  BY <1>1 DEF CompleteInv, CheckpointsSigned, RequestSignatures, Made, FinalizedComplete
<1>2. ASSUME phase' \notin {"submitted", "finalize", "finalizing"}, finalized' = finalized
      PROVE  CompleteInv'
  BY <1>2 DEF CompleteInv, FinalizedComplete
<1>3. CASE UNCHANGED vars \/ Tick
  BY <1>1, <1>3 DEF vars, local, Tick
<1>4. CASE Connect \/ SkipMessageEntry \/ SkipForeignEntry \/ SignEntryStep \/ CallGetCommitmentTx
           \/ AnswerSigned \/ Settle
  BY <1>2, <1>4 DEF Connect, SkipMessageEntry, SkipForeignEntry, InLoop, ReadEntry, SignEntryStep,
     SignEntry, CallGetCommitmentTx, AnswerSigned, Settle, Return
<1>5. ASSUME NEW r \in Requests, Receive(r) PROVE CompleteInv'
  BY <1>2, <1>5 DEF Receive
<1>6. CASE FailEntry \/ RefuseLoop \/ RefuseUnsigned \/ ArkdRefuses \/ AbandonRetry
  BY <1>6, CompleteRefuse DEF FailEntry, RefuseLoop, RefuseUnsigned, ArkdRefuses, AbandonRetry
<1>7. CASE SubmitToArkd
  <2>1. RequestSignatures(req) \subseteq RequestSignatures(req)'
    BY <1>7, MadeAccumulates DEF SubmitToArkd, local
  <2>2. CheckpointsSigned'
    BY <1>7, <2>1, SignedByMore
       DEF SubmitToArkd, local, CheckpointsSigned, verifyNonArkdCheckpointSignatures
  <2> QED BY <1>7, <2>2 DEF SubmitToArkd, CompleteInv, FinalizedComplete
<1>8. CASE ArkdAccepts
  <2>1. CASE Refuse
    BY <2>1, CompleteRefuse
  <2>2. CASE ~ Refuse
    <3>1. /\ phase = "submitted" /\ phase' = "finalize" /\ req' = req /\ released' = released
          /\ own \subseteq own' /\ finalized' = finalized
      BY <1>8, <2>2 DEF ArkdAccepts
    <3>2. RequestSignatures(req) \subseteq RequestSignatures(req)'
      BY <3>1, MadeAccumulates
    <3> DEFINE A == RequestSignatures(req) \union own
               B == (RequestSignatures(req) \union own)'
    <3>3. A \subseteq B
      BY <3>1, <3>2
    <3>4. ASSUME NEW c \in Elements(req.checkpoints),
                 NEW key \in Elements(c.inputs[1].leaves[1].leaf.keys) \ {ArkdKey}
          PROVE  SignedBy(c, key, B)
      <4>1. SignedBy(c, key, A)
        BY <3>1 DEF CompleteInv, CheckpointsSigned, verifyNonArkdCheckpointSignatures
      <4> HIDE DEF A, B
      <4> QED BY <3>3, <4>1, SignedByMore
    <3>5. AllSigned(req.checkpoints, RequestSignatures(req) \union own)'
      BY <3>1, <3>4 DEF AllSigned
    <3> QED BY <3>1, <3>5 DEF CompleteInv, FinalizedComplete
  <2> QED BY <2>1, <2>2
<1>9. CASE FinalizeTxReturns
  <2>1. CASE Refuse
    BY <2>1, CompleteRefuse
  <2>2. CASE ~ Refuse
    <3>1. /\ phase = "finalizing" /\ phase' = "finalize" /\ req' = req /\ own' = own
          /\ released' = released /\ finalized' = finalized
      BY <1>9, <2>2 DEF FinalizeTxReturns, RetryOrGiveUp
    <3>2. AllSigned(req.checkpoints, RequestSignatures(req) \union own)
      BY <3>1 DEF CompleteInv
    <3> QED BY <3>1, <3>2 DEF CompleteInv, RequestSignatures, Made, FinalizedComplete
  <2> QED BY <2>1, <2>2
<1>10. CASE GetCommitmentTxReturns
  <2>1. CASE Refuse
    BY <2>1, CompleteRefuse
  <2>2. CASE ~ Refuse
    BY <1>2, <1>10, <2>2 DEF GetCommitmentTxReturns, RetryOrGiveUp
  <2> QED BY <2>1, <2>2
<1>11. CASE CallFinalizeTx
  <2>1. AllSigned(req.checkpoints, RequestSignatures(req) \union own)
    BY <1>11 DEF CallFinalizeTx, CompleteInv
  <2>2. FinalizedComplete'
    <3> DEFINE call == [checkpoints |-> req.checkpoints, sigs |-> RequestSignatures(req) \union own]
    <3>1. finalized' = finalized \union {call}
      BY <1>11 DEF CallFinalizeTx
    <3>2. AllSigned(call.checkpoints, call.sigs)
      BY <2>1
    <3> HIDE DEF call
    <3>3. \A f \in finalized' : AllSigned(f.checkpoints, f.sigs)
      BY <3>1, <3>2 DEF CompleteInv, FinalizedComplete, AllSigned
    <3> QED BY <3>3 DEF FinalizedComplete, AllSigned
  <2>3. phase' = "finalizing" /\ req' = req /\ own' = own /\ released' = released
    BY <1>11 DEF CallFinalizeTx, local
  <2> QED BY <2>1, <2>2, <2>3 DEF CompleteInv, RequestSignatures, Made
<1>12. ASSUME NEW r \in Requests, Index(r.commitment.tx) PROVE CompleteInv'
  BY <1>1, <1>12 DEF Index, local
<1> QED
  BY <1>3, <1>4, <1>5, <1>6, <1>7, <1>8, <1>9, <1>10, <1>11, <1>12 DEF Next, Serve, RemoteReturns

\* arkd is asked to finalize only checkpoints that carry the signature of
\* every key of their leaf but arkd's, whatever arkd signed and returned and
\* however often the call is repeated (tx.go:119-121, 152-180).
THEOREM FinalizesComplete == Spec => []FinalizedComplete
<1>1. Init => CompleteInv
  BY DEF Init, CompleteInv, FinalizedComplete
<1>2. CompleteInv /\ [Next]_vars => CompleteInv'
  BY CompleteStep
<1>3. CompleteInv => FinalizedComplete
  BY DEF CompleteInv
<1> QED BY <1>1, <1>2, <1>3, PTL DEF Spec
=============================================================================
