------------------------- MODULE RoutineSpendProofs -------------------------
(***************************************************************************)
(* Proofs about RoutineSpend, for any set of transactions, any response of *)
(* the public signer and any number of concurrent Publish calls.           *)
(***************************************************************************)
EXTENDS RoutineSpend, TLAPS

\* The keys whose signatures a row of each state carries.
KeysAt(state) ==
    IF state = "reserved" THEN {"phone"}
    ELSE IF state = "vault_signed" THEN {"phone", "vault"} ELSE Signer

\* A stored packet is an approved routine spend with exactly the signatures
\* of its stage.
StoredOK(h) ==
    LET p == row[h].psbt IN
    /\ p.tx \in Routine \cap DirectAuth
    /\ ChallengeOf[p.tx] = h
    /\ h \in asserted
    /\ \E n \in Nonce : [by |-> "phone", tx |-> p.tx, n |-> n] \in made
    /\ VerifyExactRoutineSignatures(p, KeysAt(row[h].state))

RowsOK == \A h \in Challenge : row[h] # NoRow => StoredOK(h)

\* A Publish carries the transaction of a completed row.
CallsOK ==
    \A c \in Caller : call[c].pc # "idle" => HoldsCompleted(call[c].raw.tx)

NodeOK == chain.mempool \cup chain.blocks \subseteq seen

SpendInv ==
    /\ TypeOK
    /\ RowsOK
    /\ VaultSignsOnlyApproved
    /\ CallsOK
    /\ OneSpendPerChallenge
    /\ NodeOK
    /\ ReportedWasAccepted

-----------------------------------------------------------------------------
\* NoRow and the active rows are told apart by their state.
LEMMA RowShape ==
  ASSUME NEW r \in Row
  PROVE  /\ r # NoRow => r \in [state: {"reserved", "vault_signed", "completed"}, psbt: Packet]
         /\ r.state # "none" => r # NoRow
         /\ NoRow.state = "none"
BY DEF Row, NoRow

\* A packet with exactly the three signatures passes FinalizeRoutine and the
\* script engine, and its witness is well typed.
LEMMA ExactFinalizes ==
  ASSUME NEW p \in Packet, VerifyExactRoutineSignatures(p, Signer)
  PROVE  /\ VerifyRoutinePartials(p)
         /\ WitnessOf(p) \in [Signer -> Bytes]
         /\ EngineAccepts([tx |-> p.tx, witness |-> WitnessOf(p)])
<1>1. VerifyRoutinePartials(p)
  BY DEF VerifyExactRoutineSignatures, VerifyRoutinePartials, Parses, VerifySignerSig
<1>2. \A k \in Signer : /\ (CHOOSE e \in p.sigs : e.key = k) \in p.sigs
                        /\ (CHOOSE e \in p.sigs : e.key = k).key = k
  BY DEF VerifyExactRoutineSignatures
<1>3. \A k \in Signer : /\ (CHOOSE e \in p.sigs : e.key = k).bytes \in Bytes
                        /\ SignedBy((CHOOSE e \in p.sigs : e.key = k).bytes, k, p.tx)
  BY <1>2 DEF VerifyExactRoutineSignatures, VerifySignerSig, Packet, Entry
<1>4. WitnessOf(p) \in [Signer -> Bytes]
  BY <1>3 DEF WitnessOf
<1>5. EngineAccepts([tx |-> p.tx, witness |-> WitnessOf(p)])
  BY <1>3 DEF WitnessOf, EngineAccepts
<1> QED BY <1>1, <1>4, <1>5

\* What an import produces: the submitted packet and one new valid entry.
LEMMA ImportAdds ==
  ASSUME NEW submitted \in Packet, NEW response \in Packet, NEW key \in Signer,
         NEW out \in ImportExact(submitted, response, key)
  PROVE  /\ out \in Packet
         /\ out.tx = submitted.tx
         /\ \E e \in response.sigs : /\ e \in Entry /\ e.key = key /\ e \notin submitted.sigs
                            /\ OnRoutineLeaf(e) /\ SignedBy(e.bytes, key, submitted.tx)
                            /\ out.sigs = submitted.sigs \cup {e}
<1>1. PICK e \in ExpectedSigs(submitted, response, key) :
            out = [submitted EXCEPT !.sigs = @ \cup {e}]
  BY DEF ImportExact
<1>2. e \in response.sigs /\ e \in Entry /\ e.key = key /\ e \notin submitted.sigs /\ OnRoutineLeaf(e)
      /\ SignedBy(e.bytes, key, submitted.tx)
  BY DEF ExpectedSigs, VerifySignerSig, Packet
<1>3. out = [tx |-> submitted.tx, sigs |-> submitted.sigs \cup {e}]
  BY <1>1 DEF Packet
<1> QED BY <1>2, <1>3 DEF Packet

\* Adding one signature of a new key keeps a packet exact.
LEMMA ExactExtends ==
  ASSUME NEW p \in Packet, NEW out \in Packet, NEW keys, NEW k, NEW e \in Entry,
         VerifyExactRoutineSignatures(p, keys), k \notin keys,
         out.tx = p.tx, out.sigs = p.sigs \cup {e}, e.key = k,
         OnRoutineLeaf(e), SignedBy(e.bytes, k, p.tx)
  PROVE  VerifyExactRoutineSignatures(out, keys \cup {k})
BY DEF VerifyExactRoutineSignatures, VerifySignerSig

\* A completed row of a reachable state is publishable.
LEMMA StoredPublishable ==
  ASSUME TypeOK, RowsOK, NEW h \in Challenge, Completed(h)
  PROVE  Publishable(h) /\ PreparePublication(h) \in Raw
<1>1. row[h] # NoRow /\ row[h].psbt \in Packet
  BY RowShape DEF TypeOK, Completed
<1>2. StoredOK(h) /\ VerifyExactRoutineSignatures(row[h].psbt, Signer)
  BY <1>1 DEF RowsOK, StoredOK, KeysAt, Completed
<1>3. /\ VerifyRoutinePartials(row[h].psbt)
      /\ WitnessOf(row[h].psbt) \in [Signer -> Bytes]
      /\ EngineAccepts([tx |-> row[h].psbt.tx, witness |-> WitnessOf(row[h].psbt)])
  BY <1>1, <1>2, ExactFinalizes
<1> QED BY <1>1, <1>2, <1>3 DEF Publishable, PreparePublication, StoredOK, Raw, Packet

-----------------------------------------------------------------------------
LEMMA InitInv == Init => SpendInv
BY DEF Init, SpendInv, TypeOK, RowsOK, VaultSignsOnlyApproved, CallsOK, OneSpendPerChallenge,
       NodeOK, ReportedWasAccepted, Row, Idle

\* Rows, approvals and signatures that only grow keep the stored rows right.
LEMMA RowsStable ==
  ASSUME RowsOK, UNCHANGED row, asserted \subseteq asserted', made \subseteq made'
  PROVE  RowsOK'
BY DEF RowsOK, StoredOK

\* What a completed row holds stays when the rows advance.
LEMMA CompletedStable ==
  ASSUME SpendInv, call' = call, sent' = sent,
         \A h \in Challenge : Completed(h) => row'[h] = row[h]
  PROVE  CallsOK' /\ OneSpendPerChallenge'
<1>1. ASSUME NEW tx \in Tx, HoldsCompleted(tx) PROVE HoldsCompleted(tx)'
  BY <1>1, SpendAssumption DEF HoldsCompleted, Completed
<1>2. ASSUME NEW c \in Caller, call[c].pc # "idle" PROVE call[c].raw.tx \in Tx
  BY <1>2 DEF SpendInv, TypeOK, Idle, ActiveCall, Raw
<1>3. CallsOK'
  BY <1>1, <1>2 DEF SpendInv, CallsOK
<1>4. \A r \in sent : r.tx \in Tx
  BY DEF SpendInv, TypeOK, Raw
<1>5. OneSpendPerChallenge'
  BY <1>1, <1>4 DEF SpendInv, OneSpendPerChallenge
<1> QED BY <1>3, <1>5

\* Signatures of other keys do not disturb what the private key signed.
LEMMA ApprovalsStable ==
  ASSUME VaultSignsOnlyApproved, asserted \subseteq asserted', made \subseteq made',
         \A s \in made' \ made : s.by # "vault"
  PROVE  VaultSignsOnlyApproved'
BY DEF VaultSignsOnlyApproved

LEMMA DeviceStep == ASSUME SpendInv, Device PROVE SpendInv'
<1> USE DEF SpendInv
<1>1. CASE \E h \in Challenge : Confirm(h)
  <2>1. PICK h \in Challenge : Confirm(h)
    BY <1>1
  <2>2. TypeOK' /\ VaultSignsOnlyApproved' /\ NodeOK' /\ ReportedWasAccepted'
    BY <2>1 DEF Confirm, TypeOK, VaultSignsOnlyApproved, NodeOK, ReportedWasAccepted
  <2>3. RowsOK'
    BY <2>1, RowsStable DEF Confirm
  <2> QED BY <2>1, <2>2, <2>3, CompletedStable DEF Confirm
<1>2. CASE \E tx \in Tx, n \in Nonce : PhoneSign(tx, n)
  <2>1. PICK tx \in Tx, n \in Nonce : PhoneSign(tx, n)
    BY <1>2
  <2>2. TypeOK' /\ NodeOK' /\ ReportedWasAccepted'
    BY <2>1 DEF PhoneSign, TypeOK, NodeOK, ReportedWasAccepted, Bytes, Signer
  <2>3. RowsOK'
    BY <2>1, RowsStable DEF PhoneSign
  <2>4. VaultSignsOnlyApproved'
    BY <2>1, ApprovalsStable DEF PhoneSign
  <2> QED BY <2>1, <2>2, <2>3, <2>4, CompletedStable DEF PhoneSign
<1> QED BY <1>1, <1>2 DEF Device

LEMMA ReserveStep ==
  ASSUME SpendInv, NEW tx \in Tx, NEW e \in ClientEntry, Reserve([tx |-> tx, sigs |-> {e}])
  PROVE  SpendInv'
<1> DEFINE p == [tx |-> tx, sigs |-> {e}]
           h == ChallengeOf[tx]
<1> USE DEF SpendInv
<1>1. h \in Challenge
  BY SpendAssumption
<1>2. e \in Entry /\ e.bytes \in made \cup {[by |-> "nobody", tx |-> t, n |-> n] : t \in Tx, n \in Nonce}
  BY DEF ClientEntry, Entry, TypeOK, Bytes, Signer
<1>3. p \in Packet
  BY <1>2 DEF Packet
<1>4. /\ tx \in Routine \cap DirectAuth
      /\ h \in asserted
      /\ e.key = "phone" /\ OnRoutineLeaf(e) /\ SignedBy(e.bytes, "phone", tx)
  BY DEF Reserve, VerifyAuthorizeRequest, VerifyPhoneRoutineSignature
<1>5. row[h] = NoRow /\ row' = [row EXCEPT ![h] = [state |-> "reserved", psbt |-> p]]
  BY DEF Reserve, BindFirst, SetRow
<1>6. UNCHANGED <<asserted, made, chain, call, sent, seen, reports>>
  BY DEF Reserve
<1>7. TypeOK'
  BY <1>1, <1>3, <1>5, <1>6 DEF TypeOK, Row
<1>8. \E n \in Nonce : [by |-> "phone", tx |-> tx, n |-> n] \in made
  <2>1. e.bytes \in made
    BY <1>2, <1>4 DEF SignedBy
  <2>2. e.bytes = [by |-> "phone", tx |-> tx, n |-> e.bytes.n] /\ e.bytes.n \in Nonce
    BY <2>1, <1>4 DEF SignedBy, TypeOK, Bytes
  <2> QED BY <2>1, <2>2
<1>9. VerifyExactRoutineSignatures(p, {"phone"})
  BY <1>4 DEF VerifyExactRoutineSignatures, VerifySignerSig
<1>10. RowsOK'
  <2>1. ASSUME NEW g \in Challenge, row'[g] # NoRow PROVE StoredOK(g)'
    <3>1. CASE g = h
      <4>1. row'[g] = [state |-> "reserved", psbt |-> p]
        BY <1>1, <1>5, <3>1 DEF TypeOK
      <4> QED BY <4>1, <3>1, <1>4, <1>6, <1>8, <1>9 DEF StoredOK, KeysAt
    <3>2. CASE g # h
      <4>1. row'[g] = row[g]
        BY <1>5, <3>2 DEF TypeOK
      <4> QED BY <4>1, <2>1, <1>6 DEF RowsOK, StoredOK
    <3> QED BY <3>1, <3>2
  <2> QED BY <2>1 DEF RowsOK
<1>11. \A g \in Challenge : Completed(g) => row'[g] = row[g]
  BY <1>5 DEF Completed, NoRow, TypeOK
<1>12. CallsOK' /\ OneSpendPerChallenge'
  BY <1>6, <1>11, CompletedStable
<1> QED BY <1>6, <1>7, <1>10, <1>12 DEF VaultSignsOnlyApproved, NodeOK, ReportedWasAccepted

\* One row advances to the next stage, with the packet that an import made.
LEMMA StageStep ==
  ASSUME SpendInv, NEW h \in Challenge, NEW k \in Signer, NEW e \in Entry,
         NEW out \in Packet, NEW state \in {"vault_signed", "completed"},
         row[h] # NoRow, ~Completed(h),
         k \notin KeysAt(row[h].state), KeysAt(state) = KeysAt(row[h].state) \cup {k},
         row' = [row EXCEPT ![h] = [state |-> state, psbt |-> out]],
         out.tx = row[h].psbt.tx, out.sigs = row[h].psbt.sigs \cup {e}, e.key = k,
         OnRoutineLeaf(e), SignedBy(e.bytes, k, row[h].psbt.tx),
         made \subseteq made', made' \subseteq Bytes,
         UNCHANGED <<asserted, chain, call, sent, seen, reports>>
  PROVE  TypeOK' /\ RowsOK' /\ CallsOK' /\ OneSpendPerChallenge'
<1> USE DEF SpendInv
<1>1. row[h].psbt \in Packet
  BY RowShape DEF TypeOK
<1>2. TypeOK'
  <2>1. [state |-> state, psbt |-> out] \in Row
    BY DEF Row
  <2>2. row' \in [Challenge -> Row]
    BY <2>1 DEF TypeOK
  <2> QED BY <2>2 DEF TypeOK
<1>3. StoredOK(h)
  BY DEF RowsOK
<1>4. VerifyExactRoutineSignatures(out, KeysAt(row[h].state) \cup {k})
  <2>1. VerifyExactRoutineSignatures(row[h].psbt, KeysAt(row[h].state))
    BY <1>3 DEF StoredOK
  <2> QED BY <1>1, <2>1, ExactExtends
<1>5. row'[h] = [state |-> state, psbt |-> out]
  BY DEF TypeOK
<1>6. StoredOK(h)'
  <2>1. row'[h].psbt = out /\ row'[h].state = state
    BY <1>5
  <2>2. VerifyExactRoutineSignatures(row'[h].psbt, KeysAt(row'[h].state))
    BY <1>4, <2>1
  <2> QED BY <1>3, <2>1, <2>2 DEF StoredOK
<1>7. ASSUME NEW g \in Challenge, row'[g] # NoRow PROVE StoredOK(g)'
  <2>1. CASE g # h
    <3>1. row'[g] = row[g]
      BY <2>1 DEF TypeOK
    <3> QED BY <3>1, <1>7 DEF RowsOK, StoredOK
  <2> QED BY <2>1, <1>6
<1>8. RowsOK'
  BY <1>7 DEF RowsOK
<1>9. \A g \in Challenge : Completed(g) => row'[g] = row[g]
  BY DEF TypeOK
<1> QED BY <1>2, <1>8, <1>9, CompletedStable

LEMMA VaultStep ==
  ASSUME SpendInv, NEW h \in Challenge, NEW n \in Nonce, VaultStage(h, n)
  PROVE  SpendInv'
<1> DEFINE submitted == row[h].psbt
           s == LocalSignature(submitted.tx, n)
<1> USE DEF SpendInv
<1>1. row[h] # NoRow /\ submitted \in Packet /\ row[h].state = "reserved"
  BY RowShape DEF TypeOK, VaultStage
<1>2. StoredOK(h)
  BY <1>1 DEF RowsOK
<1>3. s \in Bytes /\ made' = made \cup {s}
  BY <1>1 DEF VaultStage, LocalSignature, Bytes, Signer, Packet
<1>4. made \subseteq made' /\ made' \subseteq Bytes
  BY <1>3 DEF TypeOK
<1>5. UNCHANGED <<asserted, chain, call, sent, seen, reports>>
  BY DEF VaultStage
<1>6. VaultSignsOnlyApproved'
  <2>1. /\ s.tx \in Routine \cap DirectAuth
        /\ ChallengeOf[s.tx] \in asserted
        /\ \E m \in Nonce : [by |-> "phone", tx |-> s.tx, n |-> m] \in made
    BY <1>2 DEF StoredOK, LocalSignature
  <2> HIDE DEF s
  <2> QED BY <2>1, <1>3, <1>5 DEF VaultSignsOnlyApproved
<1>7. NodeOK' /\ ReportedWasAccepted'
  BY <1>5 DEF NodeOK, ReportedWasAccepted
<1>8. CASE UNCHANGED row
  <2>1. TypeOK' /\ RowsOK'
    BY <1>4, <1>5, <1>8, RowsStable DEF TypeOK
  <2> QED BY <2>1, <1>5, <1>6, <1>7, <1>8, CompletedStable
<1>9. CASE \E out \in ImportExact(submitted, LocalResponse(submitted, n), "vault") :
             SetRow(h, "vault_signed", out)
  <2>1. PICK out \in ImportExact(submitted, LocalResponse(submitted, n), "vault") :
               SetRow(h, "vault_signed", out)
    BY <1>9
  <2>2. LocalResponse(submitted, n) \in Packet
    BY <1>1, <1>3 DEF LocalResponse, Packet, Entry, Signer
  <2>3. /\ out \in Packet /\ out.tx = submitted.tx
        /\ \E e \in Entry : /\ e.key = "vault" /\ OnRoutineLeaf(e)
                            /\ SignedBy(e.bytes, "vault", submitted.tx)
                            /\ out.sigs = submitted.sigs \cup {e}
    BY <2>1, <2>2, <1>1, ImportAdds DEF Signer
  <2>4. PICK e \in Entry : /\ e.key = "vault" /\ OnRoutineLeaf(e)
                           /\ SignedBy(e.bytes, "vault", submitted.tx)
                           /\ out.sigs = submitted.sigs \cup {e}
    BY <2>3
  <2>5. /\ "vault" \notin KeysAt(row[h].state)
        /\ KeysAt("vault_signed") = KeysAt(row[h].state) \cup {"vault"}
        /\ ~Completed(h)
    BY <1>1 DEF KeysAt, Completed
  <2>6. row' = [row EXCEPT ![h] = [state |-> "vault_signed", psbt |-> out]]
    BY <2>1 DEF SetRow
  <2>7. TypeOK' /\ RowsOK' /\ CallsOK' /\ OneSpendPerChallenge'
    BY <1>1, <1>4, <1>5, <2>3, <2>4, <2>5, <2>6, StageStep DEF Signer
  <2> QED BY <2>7, <1>6, <1>7
<1> QED BY <1>8, <1>9 DEF VaultStage

LEMMA ArkadeStep ==
  ASSUME SpendInv, NEW h \in Challenge, NEW tx \in Tx, NEW drop, NEW add \in SUBSET Foreign,
         ArkadeStage(h, tx, drop, add)
  PROVE  SpendInv'
<1> DEFINE submitted == row[h].psbt
           wire == [tx |-> tx, sigs |-> (submitted.sigs \ drop) \cup add]
<1> USE DEF SpendInv
<1>1. row[h] # NoRow /\ submitted \in Packet /\ row[h].state = "vault_signed"
  BY RowShape DEF TypeOK, ArkadeStage
<1>2. wire \in Packet
  BY <1>1, SpendAssumption DEF Packet
<1>3. PICK response \in SignExpected(submitted, wire, "arkade") :
        \E out \in ImportExact(submitted, response, "arkade") : SetRow(h, "completed", out)
  BY DEF ArkadeStage
<1>4. PICK out \in ImportExact(submitted, response, "arkade") : SetRow(h, "completed", out)
  BY <1>3
<1>5. response \in Packet
  BY <1>1, <1>2, ImportAdds DEF SignExpected, Signer
<1>6. /\ out \in Packet /\ out.tx = submitted.tx
      /\ \E e \in Entry : /\ e.key = "arkade" /\ OnRoutineLeaf(e)
                          /\ SignedBy(e.bytes, "arkade", submitted.tx)
                          /\ out.sigs = submitted.sigs \cup {e}
  BY <1>4, <1>5, <1>1, ImportAdds DEF Signer
<1>7. PICK e \in Entry : /\ e.key = "arkade" /\ OnRoutineLeaf(e)
                         /\ SignedBy(e.bytes, "arkade", submitted.tx)
                         /\ out.sigs = submitted.sigs \cup {e}
  BY <1>6
<1>8. /\ made' = made \cup {x.bytes : x \in {y \in add : y.bytes.by = "arkade"}}
      /\ UNCHANGED <<asserted, chain, call, sent, seen, reports>>
  BY DEF ArkadeStage
<1>9. made \subseteq made' /\ made' \subseteq Bytes /\ \A s \in made' \ made : s.by = "arkade"
  BY <1>8, SpendAssumption DEF TypeOK, Entry
<1>10. /\ "arkade" \notin KeysAt(row[h].state)
       /\ KeysAt("completed") = KeysAt(row[h].state) \cup {"arkade"}
       /\ ~Completed(h)
  BY <1>1 DEF KeysAt, Completed, Signer
<1>11. row' = [row EXCEPT ![h] = [state |-> "completed", psbt |-> out]]
  BY <1>4 DEF SetRow
<1>12. TypeOK' /\ RowsOK' /\ CallsOK' /\ OneSpendPerChallenge'
  BY <1>1, <1>6, <1>7, <1>8, <1>9, <1>10, <1>11, StageStep DEF Signer
<1>13. VaultSignsOnlyApproved'
  BY <1>8, <1>9, ApprovalsStable
<1> QED BY <1>8, <1>12, <1>13 DEF NodeOK, ReportedWasAccepted

LEMMA AuthorizeStep == ASSUME SpendInv, Authorize PROVE SpendInv'
<1>1. ASSUME NEW h \in Challenge, NEW tx \in Tx, NEW a \in Foreign, NEW b \in Foreign,
             NEW drop, ArkadeStage(h, tx, drop, {a, b})
      PROVE  SpendInv'
  BY <1>1, ArkadeStep
<1> QED BY <1>1, ReserveStep, VaultStep DEF Authorize

-----------------------------------------------------------------------------
\* Steps of Publish and of the node leave the first four variables alone.
LEMMA PublishStart ==
  ASSUME SpendInv, NEW c \in Caller, NEW h \in Challenge, Publish(c, h)
  PROVE  SpendInv'
<1> DEFINE raw == PreparePublication(h)
<1> USE DEF SpendInv
<1>1. raw \in Raw /\ row[h] # NoRow /\ row[h].psbt \in Packet
  BY StoredPublishable, RowShape DEF Publish, Completed, TypeOK
<1>2. HoldsCompleted(raw.tx)
  BY <1>1 DEF HoldsCompleted, RowsOK, StoredOK, PreparePublication, Publish
<1>3. call' = [call EXCEPT ![c] = [pc |-> "lookup", raw |-> raw]]
  BY DEF Publish
<1>4. UNCHANGED <<asserted, made, row, chain, sent, seen, reports>>
  BY DEF Publish
<1> HIDE DEF raw
<1>5. [pc |-> "lookup", raw |-> raw] \in ActiveCall
  BY <1>1 DEF ActiveCall
<1>6. TypeOK'
  BY <1>3, <1>4, <1>5 DEF TypeOK
<1>7. CallsOK'
  BY <1>2, <1>3, <1>4 DEF CallsOK, TypeOK, HoldsCompleted, Completed
<1>8. RowsOK' /\ VaultSignsOnlyApproved'
  BY <1>4, RowsStable, ApprovalsStable
<1> QED BY <1>4, <1>6, <1>7, <1>8 DEF OneSpendPerChallenge, HoldsCompleted, Completed, NodeOK, ReportedWasAccepted

\* A Publish moves on or returns; what it adds to the node, to the history of
\* broadcasts and to the answers is its own transaction.
LEMMA PublishStepInv ==
  ASSUME SpendInv, NEW c \in Caller, PublishStep(c)
  PROVE  SpendInv'
<1> DEFINE tx == call[c].raw.tx
<1> USE DEF SpendInv
<1>1. call[c] \in ActiveCall /\ tx \in Tx /\ HoldsCompleted(tx)
  BY DEF PublishStep, PublishLookup, PublishBroadcast, PublishConfirm, TypeOK, Idle,
         ActiveCall, Raw, CallsOK
<1>2. UNCHANGED <<asserted, made, row>>
  BY DEF PublishStep, PublishLookup, PublishBroadcast, PublishConfirm
<1>3. \/ call' = [call EXCEPT ![c] = Idle]
      \/ \E pc \in {"broadcast", "confirm"} : call' = [call EXCEPT ![c].pc = pc]
  BY DEF PublishStep, PublishLookup, PublishBroadcast, PublishConfirm, Finish, AfterBroadcast
<1>4. sent' = sent \/ sent' = sent \cup {call[c].raw}
  BY DEF PublishStep, PublishLookup, PublishBroadcast, PublishConfirm
<1>5. \/ UNCHANGED <<chain, seen>>
      \/ chain' = [chain EXCEPT !.mempool = @ \cup {tx}] /\ seen' = seen \cup {tx}
  BY DEF PublishStep, PublishLookup, PublishBroadcast, PublishConfirm, Accept
<1>6. \/ UNCHANGED reports
      \/ reports' = reports \cup {tx} /\ Known(tx) /\ UNCHANGED seen
  BY DEF PublishStep, PublishLookup, PublishBroadcast, PublishConfirm, Report, AfterBroadcast
<1> HIDE DEF tx
<1>7. call' \in [Caller -> {Idle} \cup ActiveCall]
  BY <1>1, <1>3 DEF TypeOK, ActiveCall
<1>8. CallsOK'
  <2>1. ASSUME NEW d \in Caller, call'[d].pc # "idle" PROVE HoldsCompleted(call[d].raw.tx)'
    <3>1. call[d].pc # "idle" /\ call'[d].raw = call[d].raw
      BY <2>1, <1>1, <1>3 DEF TypeOK, Idle, ActiveCall
    <3> QED BY <3>1, <1>2 DEF CallsOK, HoldsCompleted, Completed
  <2> QED BY <2>1 DEF CallsOK
<1>9. OneSpendPerChallenge'
  BY <1>1, <1>2, <1>4 DEF OneSpendPerChallenge, HoldsCompleted, Completed, tx
<1>10. NodeOK' /\ ReportedWasAccepted'
  BY <1>5, <1>6 DEF NodeOK, ReportedWasAccepted, Known, TypeOK
<1>11. TypeOK'
  <2>1. sent' \subseteq Raw
    BY <1>1, <1>4 DEF TypeOK, ActiveCall
  <2>2. chain' \in [mempool: SUBSET Tx, blocks: SUBSET Tx] /\ seen' \subseteq Tx /\ reports' \subseteq Tx
    BY <1>1, <1>5, <1>6 DEF TypeOK
  <2> QED BY <1>2, <1>7, <2>1, <2>2 DEF TypeOK
<1>12. RowsOK' /\ VaultSignsOnlyApproved'
  BY <1>2, RowsStable, ApprovalsStable
<1> QED BY <1>8, <1>9, <1>10, <1>11, <1>12

LEMMA StatusInv ==
  ASSUME SpendInv, NEW h \in Challenge, PublicationStatus(h)
  PROVE  SpendInv'
<1> USE DEF SpendInv
<1>1. row[h] # NoRow /\ row[h].psbt.tx \in Tx
  BY RowShape DEF PublicationStatus, Completed, TypeOK, Packet
<1>2. TypeOK' /\ NodeOK' /\ ReportedWasAccepted'
  BY <1>1 DEF PublicationStatus, Report, Known, TypeOK, NodeOK, ReportedWasAccepted
<1> QED BY <1>2, RowsStable, ApprovalsStable, CompletedStable DEF PublicationStatus

LEMMA NodeInv == ASSUME SpendInv, Node PROVE SpendInv'
<1> USE DEF SpendInv
<1>1. PICK tx \in Tx : Mine(tx) \/ Evict(tx)
  BY DEF Node
<1>2. TypeOK' /\ NodeOK' /\ ReportedWasAccepted'
  BY <1>1 DEF Mine, Evict, TypeOK, NodeOK, ReportedWasAccepted
<1> QED BY <1>1, <1>2, RowsStable, ApprovalsStable, CompletedStable DEF Mine, Evict

LEMMA NextInv == SpendInv /\ [Next]_vars => SpendInv'
<1> SUFFICES ASSUME SpendInv, [Next]_vars PROVE SpendInv'
  OBVIOUS
<1>1. CASE UNCHANGED vars
  <2>1. TypeOK' /\ NodeOK' /\ ReportedWasAccepted'
    BY <1>1 DEF vars, SpendInv, TypeOK, NodeOK, ReportedWasAccepted
  <2> QED BY <1>1, <2>1, RowsStable, ApprovalsStable, CompletedStable DEF vars, SpendInv
<1> QED
  BY <1>1, DeviceStep, AuthorizeStep, PublishStart, PublishStepInv, StatusInv, NodeInv
  DEF Next, Publication

\* SpendInv holds in every reachable state.
THEOREM SpendInvariant == Spec => []SpendInv
BY InitInv, NextInv, PTL DEF Spec

\* Rows, calls and histories keep their types.
THEOREM SpendTypes == Spec => []TypeOK
<1>1. SpendInv => TypeOK
  BY DEF SpendInv
<1> QED BY <1>1, SpendInvariant, PTL

\* The private key signs only what the user approved, for every response of
\* the public signer and every request.
THEOREM VaultKeyGuarded == Spec => []VaultSignsOnlyApproved
<1>1. SpendInv => VaultSignsOnlyApproved
  BY DEF SpendInv
<1> QED BY <1>1, SpendInvariant, PTL

\* Every completed row passes all checks of preparePublication.
THEOREM CompletedCanPublish == Spec => []CompletedPublishable
<1>1. SpendInv => CompletedPublishable
  BY StoredPublishable DEF SpendInv, CompletedPublishable
<1> QED BY <1>1, SpendInvariant, PTL

\* One challenge, one broadcast transaction.
THEOREM OneSpend == Spec => []OneSpendPerChallenge
<1>1. SpendInv => OneSpendPerChallenge
  BY DEF SpendInv
<1> QED BY <1>1, SpendInvariant, PTL

\* A reported transaction was accepted by the node.
THEOREM ReportsAccepted == Spec => []ReportedWasAccepted
<1>1. SpendInv => ReportedWasAccepted
  BY DEF SpendInv
<1> QED BY <1>1, SpendInvariant, PTL

-----------------------------------------------------------------------------
\* What StageAddsOneSignature says of one step.
OneSignatureAdded ==
    \A h \in Challenge : row[h] # NoRow /\ row'[h] # row[h] =>
         LET old == row[h].psbt
             new == row'[h].psbt
             key == IF row[h].state = "reserved" THEN "vault" ELSE "arkade" IN
         /\ new.tx = old.tx
         /\ \E e \in new.sigs :
               e.key = key /\ e \notin old.sigs /\ new.sigs = old.sigs \cup {e}

LEMMA StepAddsOne == SpendInv /\ [Next]_vars => OneSignatureAdded
<1> SUFFICES ASSUME SpendInv, [Next]_vars,
                    NEW h \in Challenge, row[h] # NoRow, row'[h] # row[h]
             PROVE  LET old == row[h].psbt
                        new == row'[h].psbt
                        key == IF row[h].state = "reserved" THEN "vault" ELSE "arkade" IN
                    /\ new.tx = old.tx
                    /\ \E e \in new.sigs :
                          e.key = key /\ e \notin old.sigs /\ new.sigs = old.sigs \cup {e}
  BY DEF OneSignatureAdded
<1> USE DEF SpendInv
<1>1. row \in [Challenge -> Row] /\ row[h].psbt \in Packet
  BY RowShape DEF TypeOK
<1>2. ASSUME NEW g \in Challenge, NEW n \in Nonce, VaultStage(g, n)
      PROVE  /\ row'[h].psbt.tx = row[h].psbt.tx
             /\ row[h].state = "reserved"
             /\ \E e \in row'[h].psbt.sigs : /\ e.key = "vault" /\ e \notin row[h].psbt.sigs
                                             /\ row'[h].psbt.sigs = row[h].psbt.sigs \cup {e}
  <2>1. PICK out \in ImportExact(row[g].psbt, LocalResponse(row[g].psbt, n), "vault") :
               row' = [row EXCEPT ![g] = [state |-> "vault_signed", psbt |-> out]]
    BY <1>2 DEF VaultStage, SetRow
  <2>2. g = h /\ row'[h].psbt = out /\ row[h].state = "reserved"
    BY <1>1, <1>2, <2>1 DEF VaultStage
  <2>3. LocalResponse(row[h].psbt, n) \in Packet
    BY <1>1 DEF LocalResponse, LocalSignature, Packet, Entry, Signer, Bytes
  <2> QED BY <1>1, <2>1, <2>2, <2>3, ImportAdds DEF Signer
<1>3. ASSUME NEW g \in Challenge, NEW tx \in Tx, NEW drop, NEW add \in SUBSET Foreign,
             ArkadeStage(g, tx, drop, add)
      PROVE  /\ row'[h].psbt.tx = row[h].psbt.tx
             /\ row[h].state # "reserved"
             /\ \E e \in row'[h].psbt.sigs : /\ e.key = "arkade" /\ e \notin row[h].psbt.sigs
                                             /\ row'[h].psbt.sigs = row[h].psbt.sigs \cup {e}
  <2> DEFINE wire == [tx |-> tx, sigs |-> (row[g].psbt.sigs \ drop) \cup add]
  <2>1. PICK response \in SignExpected(row[g].psbt, wire, "arkade") :
          \E out \in ImportExact(row[g].psbt, response, "arkade") : SetRow(g, "completed", out)
    BY <1>3 DEF ArkadeStage
  <2>2. PICK out \in ImportExact(row[g].psbt, response, "arkade") :
               row' = [row EXCEPT ![g] = [state |-> "completed", psbt |-> out]]
    BY <2>1 DEF SetRow
  <2>3. g = h /\ row'[h].psbt = out /\ row[h].state # "reserved"
    BY <1>1, <1>3, <2>2 DEF ArkadeStage
  <2>4. wire \in Packet
    BY <1>1, <2>3, SpendAssumption DEF Packet
  <2>5. response \in Packet
    BY <1>1, <2>3, <2>4, ImportAdds DEF SignExpected, Signer
  <2> QED BY <1>1, <2>2, <2>3, <2>5, ImportAdds DEF Signer
<1>4. ASSUME NEW p, Reserve(p) PROVE FALSE
  <2>1. row[ChallengeOf[p.tx]] = NoRow
        /\ row' = [row EXCEPT ![ChallengeOf[p.tx]] = [state |-> "reserved", psbt |-> p]]
    BY <1>4 DEF Reserve, BindFirst, SetRow
  <2> QED BY <2>1, <1>1
<1>5. ASSUME Authorize
      PROVE  LET old == row[h].psbt
                 new == row'[h].psbt
                 key == IF row[h].state = "reserved" THEN "vault" ELSE "arkade" IN
             /\ new.tx = old.tx
             /\ \E e \in new.sigs :
                   e.key = key /\ e \notin old.sigs /\ new.sigs = old.sigs \cup {e}
  <2>1. CASE \E g \in Challenge, n \in Nonce : VaultStage(g, n)
    BY <2>1, <1>2
  <2>2. CASE \E g \in Challenge, tx \in Tx, a, b \in Foreign :
               \E drop : ArkadeStage(g, tx, drop, {a, b})
    <3>1. PICK g \in Challenge, tx \in Tx, a \in Foreign, b \in Foreign :
               \E drop : ArkadeStage(g, tx, drop, {a, b})
      BY <2>2
    <3>2. PICK drop : ArkadeStage(g, tx, drop, {a, b})
      BY <3>1
    <3> QED BY <3>2, <1>3
  <2> QED BY <2>1, <2>2, <1>4, <1>5 DEF Authorize
<1>6. ~(UNCHANGED row)
  OBVIOUS
<1>7. Authorize
  BY <1>6 DEF Next, vars, Device, Confirm, PhoneSign, Publication, Publish, PublishStep,
     PublishLookup, PublishBroadcast, PublishConfirm, PublicationStatus, Node, Mine, Evict
<1> QED BY <1>5, <1>7

\* A signing stage adds exactly its own key's signature to the stored packet.
THEOREM StagesAddOne == Spec => StageAddsOneSignature
<1>1. SpendInv /\ [Next]_vars => [OneSignatureAdded]_vars
  BY StepAddsOne
<1>2. [][OneSignatureAdded]_vars => StageAddsOneSignature
  BY DEF OneSignatureAdded, StageAddsOneSignature
<1>3. Spec => [][OneSignatureAdded]_vars
  BY <1>1, SpendInvariant, PTL DEF Spec
<1> QED BY <1>2, <1>3
=============================================================================
