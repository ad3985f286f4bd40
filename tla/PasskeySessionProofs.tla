------------------------ MODULE PasskeySessionProofs ------------------------
(***************************************************************************)
(* Proofs about PasskeySession, for any number of callers, challenges and  *)
(* envelopes and any limits.                                               *)
(***************************************************************************)
EXTENDS PasskeySession, FiniteSetTheorems, TLAPS

\* An outstanding challenge is one that was issued, for its purpose, and it
\* expires no later than its TTL after the insertion.
PendingOK ==
    \A i \in DOMAIN pending :
        /\ i \in DOMAIN issued
        /\ pending[i].purpose = issued[i].purpose
        /\ pending[i].expires <= issued[i].at + TTL

\* What the locals of a call say about the shared state.
LocalsOK(c) ==
    /\ call[c].pc = "insert" => call[c].at <= now
    /\ call[c].pc \in {"consume", "verify", "act"} =>
         call[c].id \in DOMAIN issued /\ (call[c].env = NULL <=> call[c].purpose = "recover")
    /\ call[c].pc = "verify" => issued[call[c].id].purpose = call[c].purpose
    /\ call[c].pc = "act" => sessions[[id |-> call[c].id, purpose |-> call[c].purpose]] > 0

CallsOK == \A c \in Caller : LocalsOK(c)

\* A challenge is outstanding, or held by one call, or spent: never two.
PendingUnused ==
    \A i \in DOMAIN pending :
        /\ \A c \in Caller : call[c].pc = "verify" => call[c].id # i
        /\ \A s \in Session : s.id = i => sessions[s] = 0
HeldUnused ==
    \A c \in Caller : call[c].pc = "verify" =>
        /\ \A d \in Caller : d # c /\ call[d].pc = "verify" => call[d].id # call[c].id
        /\ \A s \in Session : s.id = call[c].id => sessions[s] = 0

SlotsInv == IsFiniteSet(Holders) /\ SlotsBalanced

SessionInv ==
    /\ TypeOK
    /\ SlotsInv
    /\ PendingOK
    /\ CallsOK
    /\ PendingUnused
    /\ HeldUnused
    /\ AuthenticatedOnce
    /\ SessionIsGenuine

EnvelopeInv == EnvelopeCopiesAgree /\ EnvelopeNeedsSession

Part == <<pending, issued, ceremonies, sessions>>

-----------------------------------------------------------------------------
\* One call enters or leaves the set of slot holders, or none does.
LEMMA SlotsEnter ==
  ASSUME SlotsInv, TypeOK, NEW c \in Caller, c \notin Holders,
         Holders' = Holders \cup {c}, slots' = slots + 1
  PROVE  SlotsInv' /\ slots' \in Nat
<1>1. /\ IsFiniteSet(Holders \cup {c})
      /\ Cardinality(Holders \cup {c}) = Cardinality(Holders) + 1
  BY FS_AddElement DEF SlotsInv
<1> QED BY <1>1 DEF SlotsInv, SlotsBalanced, TypeOK

LEMMA SlotsLeave ==
  ASSUME SlotsInv, TypeOK, NEW c \in Holders,
         Holders' = Holders \ {c}, slots' = slots - 1
  PROVE  SlotsInv' /\ slots' \in Nat
<1>1. /\ IsFiniteSet(Holders \ {c})
      /\ Cardinality(Holders \ {c}) = Cardinality(Holders) - 1
  BY FS_RemoveElement DEF SlotsInv
<1>2. Cardinality(Holders \ {c}) \in Nat
  BY <1>1, FS_CardinalityType
<1> QED BY <1>1, <1>2 DEF SlotsInv, SlotsBalanced, TypeOK

LEMMA SlotsSame ==
  ASSUME SlotsInv, TypeOK, Holders' = Holders, slots' = slots
  PROVE  SlotsInv' /\ slots' \in Nat
BY DEF SlotsInv, SlotsBalanced, TypeOK

LEMMA InitInv == Init => SessionInv /\ EnvelopeInv
<1> SUFFICES ASSUME Init PROVE SessionInv /\ EnvelopeInv
  OBVIOUS
<1>1. TypeOK
  BY DEF Init, TypeOK
<1>2. SlotsInv
  <2>1. Holders = {}
    BY DEF Init, Holders, Idle
  <2> QED BY <2>1, FS_EmptySet DEF Init, SlotsInv, SlotsBalanced
<1> QED BY <1>1, <1>2 DEF Init, SessionInv, EnvelopeInv, PendingOK, CallsOK, LocalsOK, PendingUnused,
       HeldUnused, AuthenticatedOnce, SessionIsGenuine, EnvelopeCopiesAgree,
       EnvelopeNeedsSession, Idle

\* A step that changes no challenge and no session and moves one call to a
\* position other than "verify".
LEMMA QuietStep ==
  ASSUME SessionInv, TypeOK', SlotsInv', UNCHANGED Part, now <= now', NEW c \in Caller,
         \A d \in Caller \ {c} : call'[d] = call[d],
         call'[c].pc # "verify", LocalsOK(c)'
  PROVE  SessionInv'
<1> USE DEF SessionInv, Part
<1>1. PendingOK' /\ AuthenticatedOnce' /\ SessionIsGenuine'
  BY DEF PendingOK, AuthenticatedOnce, SessionIsGenuine
<1>2. CallsOK'
  <2>1. ASSUME NEW d \in Caller, d # c PROVE LocalsOK(d)'
    <3>1. call'[d] = call[d] /\ LocalsOK(d)
      BY <2>1 DEF CallsOK
    <3>2. call[d].pc = "insert" => call[d].at \in Nat
      BY DEF TypeOK, Idle, Issuing, Authenticating, Verifying
    <3> QED BY <3>1, <3>2 DEF LocalsOK, TypeOK
  <2> QED BY <2>1 DEF CallsOK
<1>3. PendingUnused' /\ HeldUnused'
  BY DEF PendingUnused, HeldUnused
<1> QED BY <1>1, <1>2, <1>3

\* Moving one call by Goto.
LEMMA GotoMoves ==
  ASSUME TypeOK, NEW c \in Caller, NEW state, Goto(c, state)
  PROVE  /\ call'[c] = state
         /\ \A d \in Caller \ {c} : call'[d] = call[d]
         /\ state \in {Idle} \cup Issuing \cup Authenticating \cup Verifying =>
              call' \in [Caller -> {Idle} \cup Issuing \cup Authenticating \cup Verifying]
BY DEF Goto, TypeOK

LEMMA OtherVerificationStep ==
  ASSUME SessionInv, NEW c \in Caller, OtherVerification(c)
  PROVE  SessionInv'
<1> USE DEF SessionInv
<1>1. /\ call'[c] = [pc |-> "other"]
      /\ \A d \in Caller \ {c} : call'[d] = call[d]
      /\ call' \in [Caller -> {Idle} \cup Issuing \cup Authenticating \cup Verifying]
  BY GotoMoves DEF OtherVerification, Verifying
<1>2. SlotsInv' /\ slots' \in Nat
  <2>1. c \notin Holders /\ Holders' = Holders \cup {c} /\ slots' = slots + 1
    BY <1>1 DEF Holders, OtherVerification, AcquireVerification
  <2> QED BY <2>1, SlotsEnter
<1>3. UNCHANGED <<now, pending, store, history>>
  BY DEF OtherVerification
<1>4. TypeOK'
  BY <1>1, <1>2, <1>3 DEF TypeOK, history, store
<1>5. LocalsOK(c)' /\ UNCHANGED Part /\ now <= now'
  BY <1>1, <1>3 DEF LocalsOK, Part, history, TypeOK
<1> QED BY <1>1, <1>2, <1>4, <1>5, QuietStep

LEMMA OtherReturnStep ==
  ASSUME SessionInv, NEW c \in Caller, OtherReturn(c)
  PROVE  SessionInv'
<1> USE DEF SessionInv
<1>1. /\ call'[c] = Idle
      /\ \A d \in Caller \ {c} : call'[d] = call[d]
      /\ call' \in [Caller -> {Idle} \cup Issuing \cup Authenticating \cup Verifying]
  BY GotoMoves DEF OtherReturn
<1>2. SlotsInv' /\ slots' \in Nat
  <2>1. c \in Holders /\ Holders' = Holders \ {c} /\ slots' = slots - 1
    BY <1>1 DEF Holders, OtherReturn, Release, Idle
  <2> QED BY <2>1, SlotsLeave
<1>3. UNCHANGED <<now, pending, store, history>>
  BY DEF OtherReturn
<1>4. TypeOK'
  BY <1>1, <1>2, <1>3 DEF TypeOK, history, store
<1>5. LocalsOK(c)' /\ call'[c].pc # "verify" /\ UNCHANGED Part /\ now <= now'
  BY <1>1, <1>3 DEF LocalsOK, Part, history, TypeOK, Idle
<1> QED BY <1>1, <1>2, <1>4, <1>5, QuietStep

LEMMA IssueStartStep ==
  ASSUME SessionInv, NEW c \in Caller, NEW p \in Purpose, IssueStart(c, p)
  PROVE  SessionInv'
<1> USE DEF SessionInv
<1> DEFINE state == [pc |-> "insert", purpose |-> p, at |-> now]
<1>1. /\ call'[c] = state
      /\ \A d \in Caller \ {c} : call'[d] = call[d]
      /\ call' \in [Caller -> {Idle} \cup Issuing \cup Authenticating \cup Verifying]
  <2>1. state \in Issuing
    BY DEF Issuing, TypeOK
  <2> QED BY <2>1, GotoMoves DEF IssueStart
<1>2. UNCHANGED <<now, pending, slots, store, history>>
  BY DEF IssueStart
<1>3. SlotsInv' /\ slots' \in Nat
  <2>1. Holders' = Holders /\ slots' = slots
    BY <1>1, <1>2 DEF Holders, IssueStart
  <2> QED BY <2>1, SlotsSame
<1>4. TypeOK'
  BY <1>1, <1>2, <1>3 DEF TypeOK, history, store
<1>5. LocalsOK(c)' /\ call'[c].pc # "verify" /\ UNCHANGED Part /\ now <= now'
  BY <1>1, <1>2 DEF LocalsOK, Part, history, TypeOK
<1> QED BY <1>1, <1>3, <1>4, <1>5, QuietStep

LEMMA AuthenticateStep ==
  ASSUME SessionInv, NEW c \in Caller, NEW p \in Purpose, NEW i \in Id,
         NEW e \in Envelope \cup {NULL}, Authenticate(c, p, i, e)
  PROVE  SessionInv'
<1> USE DEF SessionInv
<1> DEFINE state == [pc |-> "consume", purpose |-> p, id |-> i, env |-> e]
<1>1. /\ call'[c] = state
      /\ \A d \in Caller \ {c} : call'[d] = call[d]
      /\ call' \in [Caller -> {Idle} \cup Issuing \cup Authenticating \cup Verifying]
  <2>1. state \in Authenticating
    BY DEF Authenticating
  <2> QED BY <2>1, GotoMoves DEF Authenticate
<1>2. UNCHANGED <<now, pending, store, history>>
  BY DEF Authenticate
<1>3. SlotsInv' /\ slots' \in Nat
  <2>1. c \notin Holders /\ Holders' = Holders \cup {c} /\ slots' = slots + 1
    BY <1>1 DEF Holders, Authenticate, AcquireVerification
  <2> QED BY <2>1, SlotsEnter
<1>4. TypeOK'
  BY <1>1, <1>2, <1>3 DEF TypeOK, history, store
<1>5. LocalsOK(c)' /\ call'[c].pc # "verify" /\ UNCHANGED Part /\ now <= now'
  BY <1>1, <1>2 DEF LocalsOK, Part, history, TypeOK, Authenticate
<1> QED BY <1>1, <1>3, <1>4, <1>5, QuietStep

LEMMA IssueInsertStep ==
  ASSUME SessionInv, NEW c \in Caller, NEW i \in Id, IssueInsert(c, i)
  PROVE  SessionInv'
<1> USE DEF SessionInv
<1> DEFINE at == call[c].at
           new == [purpose |-> call[c].purpose, expires |-> at + TTL]
           rec == [purpose |-> call[c].purpose, at |-> now]
<1>1. call[c] \in Issuing /\ at <= now
  <2>1. call[c].pc = "insert" /\ LocalsOK(c)
    BY DEF IssueInsert, CallsOK
  <2>2. call[c] \in Issuing
    BY <2>1 DEF TypeOK, Idle, Issuing, Authenticating, Verifying
  <2> QED BY <2>1, <2>2 DEF LocalsOK
<1>2. at \in Nat /\ now \in Nat /\ TTL \in Nat /\ new \in Challenge /\ rec \in Issued
  BY <1>1, SessionAssumption DEF Issuing, TypeOK, Challenge, Issued
<1>3. /\ call'[c] = Idle
      /\ \A d \in Caller \ {c} : call'[d] = call[d]
      /\ call' \in [Caller -> {Idle} \cup Issuing \cup Authenticating \cup Verifying]
  BY GotoMoves DEF IssueInsert
<1>4. UNCHANGED <<now, slots, store, ceremonies, bound, sessions, recovered>> /\ i \notin DOMAIN issued
  BY DEF IssueInsert
<1>5. /\ DOMAIN pending' \subseteq DOMAIN pending \cup {i}
      /\ pending'[i] = new
      /\ \A x \in DOMAIN pending' \ {i} : pending'[x] = pending[x]
      /\ pending' = [x \in DOMAIN pending' |-> pending'[x]]
  <2>1. pending' = With(Restricted(Live(at)), i, new)
    BY DEF IssueInsert
  <2>2. Live(at) \subseteq DOMAIN pending
    BY DEF Live
  <2> QED BY <2>1, <2>2 DEF With, Restricted
<1>6. /\ DOMAIN issued' = DOMAIN issued \cup {i}
      /\ issued'[i] = rec
      /\ \A x \in DOMAIN issued : issued'[x] = issued[x]
      /\ issued' = [x \in DOMAIN issued' |-> issued'[x]]
  BY <1>4 DEF IssueInsert, With
<1> HIDE DEF at, new, rec
<1>7. SlotsInv' /\ slots' \in Nat
  <2>1. Holders' = Holders /\ slots' = slots
    BY <1>3, <1>4, <1>1 DEF Holders, Idle, Issuing
  <2> QED BY <2>1, SlotsSame
<1>8. DOMAIN pending' \subseteq Id /\ pending' \in [DOMAIN pending' -> Challenge]
  BY <1>2, <1>5 DEF TypeOK
<1>9. DOMAIN issued' \subseteq Id /\ issued' \in [DOMAIN issued' -> Issued]
  BY <1>2, <1>6 DEF TypeOK
<1>10. TypeOK'
  BY <1>3, <1>4, <1>7, <1>8, <1>9 DEF TypeOK, store
<1>11. PendingOK'
  <2>1. ASSUME NEW x \in DOMAIN pending', x # i
        PROVE  x \in DOMAIN issued' /\ pending'[x].purpose = issued'[x].purpose
               /\ pending'[x].expires <= issued'[x].at + TTL
    BY <2>1, <1>5, <1>6 DEF PendingOK
  <2>2. /\ i \in DOMAIN issued' /\ pending'[i].purpose = issued'[i].purpose
        /\ pending'[i].expires <= issued'[i].at + TTL
    BY <1>1, <1>2, <1>5, <1>6 DEF new, rec
  <2> QED BY <2>1, <2>2 DEF PendingOK
<1>12. ASSUME NEW d \in Caller PROVE LocalsOK(d)'
  <2>1. CASE d = c
    BY <2>1, <1>3 DEF LocalsOK, Idle
  <2>2. CASE d # c
    BY <2>2, <1>3, <1>4, <1>6 DEF CallsOK, LocalsOK
  <2> QED BY <2>1, <2>2
<1>13. \A s \in Session : s.id = i => sessions[s] = 0
  BY <1>4 DEF SessionIsGenuine, TypeOK
<1>14. \A d \in Caller : call[d].pc = "verify" => call[d].id # i
  BY <1>4 DEF CallsOK, LocalsOK
<1>15. PendingUnused'
  <2>1. ASSUME NEW x \in DOMAIN pending', NEW d \in Caller, call'[d].pc = "verify"
        PROVE  call'[d].id # x
    BY <2>1, <1>3, <1>5, <1>14 DEF PendingUnused, Idle
  <2>2. ASSUME NEW x \in DOMAIN pending', NEW s \in Session, s.id = x
        PROVE  sessions'[s] = 0
    BY <2>2, <1>4, <1>5, <1>13 DEF PendingUnused
  <2> QED BY <2>1, <2>2 DEF PendingUnused
<1>16. HeldUnused'
  BY <1>3, <1>4 DEF HeldUnused, Idle
<1>17. AuthenticatedOnce' /\ SessionIsGenuine'
  BY <1>4, <1>6 DEF AuthenticatedOnce, SessionIsGenuine
<1> QED BY <1>7, <1>10, <1>11, <1>12, <1>15, <1>16, <1>17 DEF CallsOK

\* Dropping challenges, with one call moved off "verify", keeps the rest.
LEMMA DropStep ==
  ASSUME SessionInv, TypeOK', SlotsInv', NEW c \in Caller,
         DOMAIN pending' \subseteq DOMAIN pending,
         \A x \in DOMAIN pending' : pending'[x] = pending[x],
         UNCHANGED <<now, issued, ceremonies, sessions>>,
         \A d \in Caller \ {c} : call'[d] = call[d],
         call'[c].pc # "verify", LocalsOK(c)'
  PROVE  SessionInv'
<1> USE DEF SessionInv
<1>1. PendingOK' /\ AuthenticatedOnce' /\ SessionIsGenuine'
  BY DEF PendingOK, AuthenticatedOnce, SessionIsGenuine
<1>2. CallsOK'
  BY DEF CallsOK, LocalsOK
<1>3. PendingUnused' /\ HeldUnused'
  BY DEF PendingUnused, HeldUnused
<1> QED BY <1>1, <1>2, <1>3

\* Restricting the map keeps its type.
LEMMA RestrictedOK ==
  ASSUME TypeOK, NEW ids \in SUBSET DOMAIN pending, pending' = Restricted(ids)
  PROVE  /\ DOMAIN pending' = ids
         /\ \A x \in ids : pending'[x] = pending[x]
         /\ DOMAIN pending' \subseteq Id
         /\ pending' \in [DOMAIN pending' -> Challenge]
BY DEF Restricted, TypeOK

LEMMA IssueBusyStep ==
  ASSUME SessionInv, NEW c \in Caller, IssueBusy(c)
  PROVE  SessionInv'
<1> USE DEF SessionInv
<1>1. /\ call'[c] = Idle
      /\ \A d \in Caller \ {c} : call'[d] = call[d]
      /\ call' \in [Caller -> {Idle} \cup Issuing \cup Authenticating \cup Verifying]
  BY GotoMoves DEF IssueBusy
<1>2. UNCHANGED <<now, slots, store, history>>
  BY DEF IssueBusy
<1>3. /\ DOMAIN pending' \subseteq DOMAIN pending
      /\ \A x \in DOMAIN pending' : pending'[x] = pending[x]
      /\ DOMAIN pending' \subseteq Id
      /\ pending' \in [DOMAIN pending' -> Challenge]
  <2>1. Live(call[c].at) \in SUBSET DOMAIN pending
    BY DEF Live
  <2> QED BY <2>1, RestrictedOK DEF IssueBusy
<1>4. SlotsInv' /\ slots' \in Nat
  <2>1. Holders' = Holders /\ slots' = slots
    BY <1>1, <1>2 DEF Holders, Idle, IssueBusy
  <2> QED BY <2>1, SlotsSame
<1>5. TypeOK'
  BY <1>1, <1>2, <1>3, <1>4 DEF TypeOK, history, store
<1>6. LocalsOK(c)' /\ call'[c].pc # "verify"
  BY <1>1 DEF LocalsOK, Idle
<1> QED BY <1>1, <1>2, <1>3, <1>4, <1>5, <1>6, DropStep DEF history

LEMMA ConsumeStep ==
  ASSUME SessionInv, NEW c \in Caller, Consume(c)
  PROVE  SessionInv'
<1> USE DEF SessionInv
<1> DEFINE i == call[c].id
<1>1. call[c] \in Authenticating /\ call[c].pc = "consume" /\ c \in Holders
  BY DEF Consume, TypeOK, Idle, Issuing, Authenticating, Verifying, Holders
<1>2. UNCHANGED <<now, store, history>>
  BY DEF Consume
<1>3. /\ DOMAIN pending' = DOMAIN pending \ {i}
      /\ \A x \in DOMAIN pending' : pending'[x] = pending[x]
      /\ DOMAIN pending' \subseteq Id
      /\ pending' \in [DOMAIN pending' -> Challenge]
  <2>1. DOMAIN pending \ {i} \in SUBSET DOMAIN pending
    OBVIOUS
  <2> QED BY <2>1, RestrictedOK DEF Consume, Forget
<1>4. CASE ~Matches(i, call[c].purpose) /\ Goto(c, Idle) /\ Release
  <2>1. /\ call'[c] = Idle
        /\ \A d \in Caller \ {c} : call'[d] = call[d]
        /\ call' \in [Caller -> {Idle} \cup Issuing \cup Authenticating \cup Verifying]
    BY <1>4, GotoMoves
  <2>2. SlotsInv' /\ slots' \in Nat
    <3>1. Holders' = Holders \ {c} /\ slots' = slots - 1
      BY <1>4, <2>1 DEF Holders, Release, Idle
    <3> QED BY <3>1, <1>1, SlotsLeave
  <2>3. TypeOK'
    BY <1>2, <1>3, <2>1, <2>2 DEF TypeOK, history, store
  <2>4. LocalsOK(c)' /\ call'[c].pc # "verify"
    BY <2>1 DEF LocalsOK, Idle
  <2> QED BY <1>2, <1>3, <2>1, <2>2, <2>3, <2>4, DropStep DEF history
<1>5. CASE Matches(i, call[c].purpose) /\ call' = [call EXCEPT ![c].pc = "verify"] /\ UNCHANGED slots
  <2>1. i \in DOMAIN pending /\ pending[i].purpose = call[c].purpose
    BY <1>5 DEF Matches
  <2>2. /\ call'[c] = [call[c] EXCEPT !.pc = "verify"]
        /\ \A d \in Caller \ {c} : call'[d] = call[d]
    BY <1>5 DEF TypeOK
  <2>3. /\ call'[c] \in Authenticating /\ call'[c].pc = "verify" /\ call'[c].id = i
        /\ call'[c].purpose = call[c].purpose /\ call'[c].env = call[c].env
    BY <1>1, <2>2 DEF Authenticating
  <2>4. call' \in [Caller -> {Idle} \cup Issuing \cup Authenticating \cup Verifying]
    BY <1>5, <2>2, <2>3 DEF TypeOK
  <2>5. SlotsInv' /\ slots' \in Nat
    <3>1. Holders' = Holders /\ slots' = slots
      BY <1>1, <1>5, <2>2, <2>3 DEF Holders
    <3> QED BY <3>1, SlotsSame
  <2>6. TypeOK'
    BY <1>2, <1>3, <2>4, <2>5 DEF TypeOK, history, store
  <2>7. PendingOK' /\ AuthenticatedOnce' /\ SessionIsGenuine'
    BY <1>2, <1>3 DEF PendingOK, AuthenticatedOnce, SessionIsGenuine, history
  <2>8. CallsOK'
    <3>1. LocalsOK(c)'
      BY <1>1, <1>2, <2>1, <2>3 DEF CallsOK, LocalsOK, PendingOK, history
    <3>2. ASSUME NEW d \in Caller, d # c PROVE LocalsOK(d)'
      BY <3>2, <1>2, <2>2 DEF CallsOK, LocalsOK, history
    <3> QED BY <3>1, <3>2 DEF CallsOK
  <2>9. PendingUnused'
    <3>1. ASSUME NEW x \in DOMAIN pending', NEW d \in Caller, call'[d].pc = "verify"
          PROVE  call'[d].id # x
      <4>1. x \in DOMAIN pending /\ x # i
        BY <1>3
      <4>2. CASE d = c
        BY <4>1, <4>2, <2>3
      <4>3. CASE d # c
        BY <3>1, <4>1, <4>3, <2>2 DEF PendingUnused
      <4> QED BY <4>2, <4>3
    <3>2. ASSUME NEW x \in DOMAIN pending', NEW s \in Session, s.id = x
          PROVE  sessions'[s] = 0
      BY <3>2, <1>2, <1>3 DEF PendingUnused, history
    <3> QED BY <3>1, <3>2 DEF PendingUnused
  <2>10. HeldUnused'
    <3>1. \A s \in Session : s.id = i => sessions'[s] = 0
      BY <1>2, <2>1 DEF PendingUnused, history
    <3>2. \A d \in Caller : d # c /\ call'[d].pc = "verify" => call'[d].id # i
      BY <2>1, <2>2 DEF PendingUnused
    <3>3. ASSUME NEW d \in Caller, call'[d].pc = "verify", NEW f \in Caller, f # d,
                 call'[f].pc = "verify"
          PROVE  call'[f].id # call'[d].id
      <4>1. CASE d = c
        BY <3>2, <3>3, <4>1, <2>3
      <4>2. CASE f = c
        BY <3>2, <3>3, <4>2, <2>3
      <4>3. CASE d # c /\ f # c
        BY <3>3, <4>3, <2>2 DEF HeldUnused
      <4> QED BY <4>1, <4>2, <4>3
    <3>4. ASSUME NEW d \in Caller, call'[d].pc = "verify", NEW s \in Session, s.id = call'[d].id
          PROVE  sessions'[s] = 0
      <4>1. CASE d = c
        BY <3>1, <3>4, <4>1, <2>3
      <4>2. CASE d # c
        BY <3>4, <4>2, <1>2, <2>2 DEF HeldUnused, history
      <4> QED BY <4>1, <4>2
    <3> QED BY <3>3, <3>4 DEF HeldUnused
  <2> QED BY <2>5, <2>6, <2>7, <2>8, <2>9, <2>10
<1> QED BY <1>4, <1>5 DEF Consume

\* Verify either ends the call, or counts the session of a challenge that
\* only this call holds.
LEMMA VerifyStep ==
  ASSUME SessionInv, NEW c \in Caller, Verify(c)
  PROVE  SessionInv'
<1> USE DEF SessionInv
<1> DEFINE s == [id |-> call[c].id, purpose |-> call[c].purpose]
<1>1. call[c] \in Authenticating /\ call[c].pc = "verify" /\ c \in Holders
  BY DEF Verify, TypeOK, Idle, Issuing, Authenticating, Verifying, Holders
<1>2. UNCHANGED <<now, pending, store, issued, ceremonies, bound, recovered>> /\ slots' = slots - 1
  BY DEF Verify, Release
<1>3. CASE Goto(c, Idle) /\ UNCHANGED sessions
  <2>1. /\ call'[c] = Idle
        /\ \A d \in Caller \ {c} : call'[d] = call[d]
        /\ call' \in [Caller -> {Idle} \cup Issuing \cup Authenticating \cup Verifying]
    BY <1>3, GotoMoves
  <2>2. SlotsInv' /\ slots' \in Nat
    <3>1. Holders' = Holders \ {c}
      BY <2>1 DEF Holders, Idle
    <3> QED BY <3>1, <1>1, <1>2, SlotsLeave
  <2>3. TypeOK'
    BY <1>2, <1>3, <2>1, <2>2 DEF TypeOK, store
  <2>4. LocalsOK(c)' /\ call'[c].pc # "verify"
    BY <2>1 DEF LocalsOK, Idle
  <2>5. UNCHANGED Part /\ now <= now'
    BY <1>2, <1>3 DEF Part, TypeOK
  <2> QED BY <2>1, <2>2, <2>3, <2>4, <2>5, QuietStep
<1>4. CASE /\ ProofVerifies(s)
           /\ sessions' = [sessions EXCEPT ![s] = @ + 1]
           /\ call' = [call EXCEPT ![c].pc = "act"]
  <2>1. s \in Session /\ s.id = call[c].id /\ s.purpose = call[c].purpose /\ s \in ceremonies
    BY <1>1, <1>4 DEF Authenticating, Session, ProofVerifies
  <2>2. LocalsOK(c)
    BY DEF CallsOK
  <2>3. \A t \in Session : t.id = s.id => sessions[t] = 0
    BY <1>1, <2>1 DEF HeldUnused
  <2>4. /\ call'[c] = [call[c] EXCEPT !.pc = "act"]
        /\ \A d \in Caller \ {c} : call'[d] = call[d]
    BY <1>4 DEF TypeOK
  <2>5. /\ call'[c] \in Authenticating /\ call'[c].pc = "act" /\ call'[c].id = s.id
        /\ call'[c].purpose = s.purpose /\ call'[c].env = call[c].env
    BY <1>1, <2>1, <2>4 DEF Authenticating
  <2>6. call' \in [Caller -> {Idle} \cup Issuing \cup Authenticating \cup Verifying]
    BY <1>4, <2>4, <2>5 DEF TypeOK
  <2>7. /\ sessions'[s] = 1
        /\ \A t \in Session \ {s} : sessions'[t] = sessions[t]
        /\ sessions' \in [Session -> Nat]
    BY <1>4, <2>1, <2>3 DEF TypeOK
  <2>8. /\ s.id \in DOMAIN issued /\ issued[s.id].purpose = s.purpose
        /\ (call[c].env = NULL <=> call[c].purpose = "recover")
    BY <1>1, <2>1, <2>2 DEF LocalsOK
  <2>9. s = [id |-> call'[c].id, purpose |-> call'[c].purpose]
    BY <2>1, <2>5
  <2> HIDE DEF s
  <2>10. SlotsInv' /\ slots' \in Nat
    <3>1. Holders' = Holders \ {c}
      BY <2>4, <2>5 DEF Holders
    <3> QED BY <3>1, <1>1, <1>2, SlotsLeave
  <2>11. TypeOK'
    BY <1>2, <2>6, <2>7, <2>10 DEF TypeOK, store
  <2>12. PendingOK'
    BY <1>2 DEF PendingOK
  <2>13. CallsOK'
    <3>1. LocalsOK(c)'
      BY <1>2, <2>1, <2>5, <2>7, <2>8, <2>9 DEF LocalsOK
    <3>2. ASSUME NEW d \in Caller, d # c PROVE LocalsOK(d)'
      <4>1. call'[d] = call[d] /\ LocalsOK(d)
        BY <3>2, <2>4 DEF CallsOK
      <4>2. call[d].pc = "act" =>
              sessions'[[id |-> call[d].id, purpose |-> call[d].purpose]] > 0
        <5> SUFFICES ASSUME call[d].pc = "act"
                     PROVE  sessions'[[id |-> call[d].id, purpose |-> call[d].purpose]] > 0
          OBVIOUS
        <5> DEFINE t == [id |-> call[d].id, purpose |-> call[d].purpose]
        <5>1. t \in Session
          BY DEF TypeOK, Idle, Issuing, Authenticating, Verifying, Session
        <5>2. sessions[t] > 0
          BY <4>1 DEF LocalsOK
        <5> HIDE DEF t
        <5>3. sessions'[t] > 0
          BY <5>1, <5>2, <2>7
        <5> QED BY <5>3 DEF t
      <4> QED BY <4>1, <4>2, <1>2 DEF LocalsOK
    <3> QED BY <3>1, <3>2 DEF CallsOK
  <2>14. \A d \in Caller : call'[d].pc = "verify" =>
           d # c /\ call[d].pc = "verify" /\ call'[d] = call[d] /\ call[d].id # s.id
    <3> SUFFICES ASSUME NEW d \in Caller, call'[d].pc = "verify"
                 PROVE  d # c /\ call[d].pc = "verify" /\ call'[d] = call[d] /\ call[d].id # s.id
      OBVIOUS
    <3>1. d # c
      BY <2>5
    <3>2. call'[d] = call[d]
      BY <3>1, <2>4
    <3> QED BY <3>1, <3>2, <1>1, <2>1 DEF HeldUnused
  <2>15. PendingUnused'
    <3>1. s.id \notin DOMAIN pending
      BY <1>1, <2>1 DEF PendingUnused
    <3>2. ASSUME NEW x \in DOMAIN pending', NEW d \in Caller, call'[d].pc = "verify"
          PROVE  call'[d].id # x
      BY <3>2, <1>2, <2>14 DEF PendingUnused
    <3>3. ASSUME NEW x \in DOMAIN pending', NEW t \in Session, t.id = x
          PROVE  sessions'[t] = 0
      <4>1. t # s /\ x \in DOMAIN pending
        BY <3>1, <3>3, <1>2
      <4> QED BY <4>1, <3>3, <2>7 DEF PendingUnused
    <3> QED BY <3>2, <3>3 DEF PendingUnused
  <2>16. HeldUnused'
    <3>1. ASSUME NEW d \in Caller, call'[d].pc = "verify", NEW f \in Caller, f # d,
                 call'[f].pc = "verify"
          PROVE  call'[f].id # call'[d].id
      BY <3>1, <2>14 DEF HeldUnused
    <3>2. ASSUME NEW d \in Caller, call'[d].pc = "verify", NEW t \in Session, t.id = call'[d].id
          PROVE  sessions'[t] = 0
      <4>1. call[d].pc = "verify" /\ call'[d] = call[d] /\ call[d].id # s.id
        BY <3>2, <2>14
      <4>2. t # s /\ sessions[t] = 0
        BY <3>2, <4>1 DEF HeldUnused
      <4> QED BY <4>2, <2>7
    <3> QED BY <3>1, <3>2 DEF HeldUnused
  <2>17. AuthenticatedOnce'
    <3> SUFFICES ASSUME NEW t \in Session, NEW u \in Session, t.id = u.id, sessions'[t] > 0
                 PROVE  sessions'[t] = 1 /\ (t # u => sessions'[u] = 0)
      BY DEF AuthenticatedOnce
    <3>1. CASE t = s
      BY <3>1, <2>3, <2>7
    <3>2. CASE t # s
      <4>1. sessions[t] > 0
        BY <3>2, <2>7
      <4>2. u # s
        BY <4>1, <2>3, <2>7 DEF TypeOK
      <4> QED BY <3>2, <4>1, <4>2, <2>7 DEF AuthenticatedOnce
    <3> QED BY <3>1, <3>2
  <2>18. SessionIsGenuine'
    <3> SUFFICES ASSUME NEW t \in Session, sessions'[t] > 0
                 PROVE  t \in ceremonies /\ t.id \in DOMAIN issued /\ issued[t.id].purpose = t.purpose
      BY <1>2 DEF SessionIsGenuine
    <3>1. CASE t = s
      BY <3>1, <2>1, <2>8
    <3>2. CASE t # s
      BY <3>2, <2>7 DEF SessionIsGenuine
    <3> QED BY <3>1, <3>2
  <2> QED BY <2>10, <2>11, <2>12, <2>13, <2>15, <2>16, <2>17, <2>18
<1> QED BY <1>3, <1>4 DEF Verify

\* After "act" the call ends, and no challenge and no session changes.
LEMMA ActStep ==
  ASSUME SessionInv, NEW c \in Caller, call[c].pc = "act", Goto(c, Idle),
         UNCHANGED <<now, slots, Part, bound, v4>>,
         envelope' \in Envelope \cup {NULL}, copy' \in Envelope \cup {NULL},
         recovered' \subseteq Envelope
  PROVE  SessionInv'
<1> USE DEF SessionInv
<1>1. /\ call'[c] = Idle
      /\ \A d \in Caller \ {c} : call'[d] = call[d]
      /\ call' \in [Caller -> {Idle} \cup Issuing \cup Authenticating \cup Verifying]
  BY GotoMoves
<1>2. SlotsInv' /\ slots' \in Nat
  <2>1. Holders' = Holders /\ slots' = slots
    BY <1>1 DEF Holders, Idle
  <2> QED BY <2>1, SlotsSame
<1>3. TypeOK'
  BY <1>1, <1>2 DEF TypeOK, Part
<1>4. LocalsOK(c)' /\ call'[c].pc # "verify" /\ now <= now'
  BY <1>1 DEF LocalsOK, Idle, TypeOK
<1> QED BY <1>1, <1>2, <1>3, <1>4, QuietStep

\* What Install stores, and what Recover gives out.
LEMMA ActTypes ==
  ASSUME SessionInv, NEW c \in Caller, call[c].pc = "act"
  PROVE  /\ call[c] \in Authenticating
         /\ call[c].purpose = "install" => call[c].env \in Envelope
         /\ [id |-> call[c].id, purpose |-> call[c].purpose] \in Session
         /\ sessions[[id |-> call[c].id, purpose |-> call[c].purpose]] > 0
<1>1. call[c] \in Authenticating
  BY DEF SessionInv, TypeOK, Idle, Issuing, Authenticating, Verifying
<1>2. LocalsOK(c)
  BY DEF SessionInv, CallsOK
<1> QED BY <1>1, <1>2 DEF LocalsOK, Authenticating, Session

LEMMA InstallStep ==
  ASSUME SessionInv, NEW c \in Caller, Install(c)
  PROVE  SessionInv'
<1>1. call[c].pc = "act" /\ call[c].purpose = "install" /\ Goto(c, Idle)
      /\ UNCHANGED <<now, slots, Part, bound, v4>> /\ recovered' = recovered
  BY DEF Install, Part, history
<1>2. call[c].env \in Envelope
  BY <1>1, ActTypes
<1>3. envelope' \in Envelope \cup {NULL} /\ copy' \in Envelope \cup {NULL} /\ recovered' \subseteq Envelope
  BY <1>1, <1>2 DEF Install, SyncLegacyVaultEnvelope, SessionInv, TypeOK
<1> QED BY <1>1, <1>3, ActStep

LEMMA RecoverStep ==
  ASSUME SessionInv, NEW c \in Caller, Recover(c)
  PROVE  SessionInv'
<1>1. call[c].pc = "act" /\ Goto(c, Idle)
      /\ UNCHANGED <<now, slots, Part, bound, v4>>
      /\ recovered' = recovered \cup ({envelope} \ {NULL})
      /\ UNCHANGED <<envelope, copy>>
  BY DEF Recover, Part, store
<1>2. envelope' \in Envelope \cup {NULL} /\ copy' \in Envelope \cup {NULL} /\ recovered' \subseteq Envelope
  BY <1>1 DEF SessionInv, TypeOK
<1> QED BY <1>1, <1>2, ActStep

\* Steps that leave the calls alone.
LEMMA StillStep ==
  ASSUME SessionInv, TypeOK', UNCHANGED <<slots, call, pending, issued, sessions>>,
         now <= now', ceremonies \subseteq ceremonies'
  PROVE  SessionInv'
<1> USE DEF SessionInv
<1>1. SlotsInv'
  <2>1. Holders' = Holders /\ slots' = slots
    BY DEF Holders
  <2> QED BY <2>1, SlotsSame
<1>2. PendingOK' /\ PendingUnused' /\ HeldUnused' /\ AuthenticatedOnce'
  BY DEF PendingOK, PendingUnused, HeldUnused, AuthenticatedOnce
<1>3. SessionIsGenuine'
  BY DEF SessionIsGenuine
<1>4. ASSUME NEW d \in Caller PROVE LocalsOK(d)'
  <2>1. call'[d] = call[d] /\ LocalsOK(d)
    BY DEF CallsOK
  <2>2. call[d].pc = "insert" => call[d].at \in Nat
    BY DEF TypeOK, Idle, Issuing, Authenticating, Verifying
  <2> QED BY <2>1, <2>2 DEF LocalsOK, TypeOK
<1> QED BY <1>1, <1>2, <1>3, <1>4 DEF CallsOK

LEMMA TickStep == SessionInv /\ Tick => SessionInv'
<1> SUFFICES ASSUME SessionInv, Tick PROVE SessionInv'
  OBVIOUS
<1>1. TypeOK' /\ UNCHANGED <<slots, call, pending, issued, sessions>>
      /\ now <= now' /\ ceremonies \subseteq ceremonies'
  BY DEF SessionInv, TypeOK, Tick, store, history
<1> QED BY <1>1, StillStep

LEMMA CeremonyStep ==
  ASSUME SessionInv, NEW i \in Id, NEW p \in Purpose, Ceremony(i, p)
  PROVE  SessionInv'
<1>1. TypeOK' /\ UNCHANGED <<slots, call, pending, issued, sessions>>
      /\ now <= now' /\ ceremonies \subseteq ceremonies'
  BY DEF SessionInv, TypeOK, Ceremony, store, Session
<1> QED BY <1>1, StillStep

LEMMA SignBindingStep ==
  ASSUME SessionInv, NEW e \in Envelope, SignBinding(e)
  PROVE  SessionInv'
<1>1. TypeOK' /\ UNCHANGED <<slots, call, pending, issued, sessions>>
      /\ now <= now' /\ ceremonies \subseteq ceremonies'
  BY DEF SessionInv, TypeOK, SignBinding, store
<1> QED BY <1>1, StillStep

LEMMA RestartStep == SessionInv /\ Restart => SessionInv'
<1> SUFFICES ASSUME SessionInv, Restart PROVE SessionInv'
  OBVIOUS
<1>1. pending' = [i \in {} |-> NULL] /\ slots' = 0 /\ call' = [c \in Caller |-> Idle]
      /\ UNCHANGED <<now, envelope, issued, ceremonies, bound, sessions, recovered>>
  BY DEF Restart, history
<1>2. copy' \in Envelope \cup {NULL} /\ v4' \in BOOLEAN
  BY DEF Restart, SessionInv, TypeOK
<1>3. TypeOK'
  BY <1>1, <1>2 DEF SessionInv, TypeOK
<1>4. SlotsInv'
  <2>1. Holders' = {}
    BY <1>1 DEF Holders, Idle
  <2> QED BY <1>1, <2>1, FS_EmptySet DEF SlotsInv, SlotsBalanced
<1>5. PendingOK' /\ CallsOK' /\ PendingUnused' /\ HeldUnused'
  BY <1>1 DEF PendingOK, CallsOK, LocalsOK, PendingUnused, HeldUnused, Idle
<1>6. AuthenticatedOnce' /\ SessionIsGenuine'
  BY <1>1 DEF SessionInv, AuthenticatedOnce, SessionIsGenuine
<1> QED BY <1>3, <1>4, <1>5, <1>6 DEF SessionInv

LEMMA StutterStep == SessionInv /\ UNCHANGED vars => SessionInv'
<1> SUFFICES ASSUME SessionInv, UNCHANGED vars PROVE SessionInv'
  OBVIOUS
<1>1. TypeOK' /\ UNCHANGED <<slots, call, pending, issued, sessions>>
      /\ now <= now' /\ ceremonies \subseteq ceremonies'
  BY DEF SessionInv, TypeOK, vars
<1> QED BY <1>1, StillStep

LEMMA NextInv == SessionInv /\ [Next]_vars => SessionInv'
<1> SUFFICES ASSUME SessionInv, [Next]_vars PROVE SessionInv'
  OBVIOUS
<1> QED BY TickStep, RestartStep, OtherVerificationStep, OtherReturnStep, IssueStartStep,
           IssueInsertStep, IssueBusyStep, AuthenticateStep, ConsumeStep, VerifyStep,
           InstallStep, RecoverStep, CeremonyStep, SignBindingStep, StutterStep
        DEF Next, Step

\* Each conjunct is invariant.
THEOREM SessionInvariant == Spec => []SessionInv
<1> QED BY InitInv, NextInv, PTL DEF Spec

\* The type invariant.
THEOREM SessionTypes == Spec => []TypeOK
<1> QED BY SessionInvariant, PTL DEF SessionInv

\* A challenge authenticates at most once (consumePasskeyChallenge).
THEOREM OneSessionPerChallenge == Spec => []AuthenticatedOnce
<1> QED BY SessionInvariant, PTL DEF SessionInv

\* A session is one the device signed for, for the purpose it was issued for
\* (authenticatePasskeySession).
THEOREM GenuineSessions == Spec => []SessionIsGenuine
<1> QED BY SessionInvariant, PTL DEF SessionInv

\* No path through a call leaks or returns twice a verification slot.
THEOREM SlotsAreBalanced == Spec => []SlotsBalanced
<1> QED BY SessionInvariant, PTL DEF SessionInv, SlotsInv

-----------------------------------------------------------------------------
(***************************************************************************)
(* The envelope.                                                           *)
(***************************************************************************)
\* Sessions that were counted stay counted.
SessionsKept == \A s \in Session : sessions[s] > 0 => sessions'[s] > 0

\* A step that keeps the two copies, their source and what was given out.
LEMMA EnvelopeQuiet ==
  ASSUME EnvelopeInv, UNCHANGED <<envelope, copy, v4, recovered>>, bound \subseteq bound',
         SessionsKept
  PROVE  EnvelopeInv'
BY DEF EnvelopeInv, EnvelopeCopiesAgree, EnvelopeNeedsSession, SessionsKept

LEMMA EnvelopeInstall ==
  ASSUME SessionInv, EnvelopeInv, NEW c \in Caller, Install(c)
  PROVE  EnvelopeInv' /\ (envelope # NULL => envelope' = envelope)
<1> DEFINE e == call[c].env
           s == [id |-> call[c].id, purpose |-> call[c].purpose]
<1>1. UNCHANGED <<sessions, bound, v4, recovered>> /\ call[c].pc = "act" /\ call[c].purpose = "install"
  BY DEF Install, history
<1>2. e \in Envelope /\ s \in Session /\ sessions[s] > 0 /\ s.purpose = "install"
  BY <1>1, ActTypes
<1> HIDE DEF e, s
<1>3. CASE e \in bound /\ MayStore(e) /\ SyncLegacyVaultEnvelope(e) /\ envelope' = e
  <2>1. v4 => copy' = e
    BY <1>3 DEF SyncLegacyVaultEnvelope
  <2>2. ~v4 => copy' = copy
    BY <1>3 DEF SyncLegacyVaultEnvelope
  <2>3. envelope # NULL => envelope' = envelope
    BY <1>3 DEF MayStore
  <2>4. EnvelopeCopiesAgree'
    BY <1>1, <1>3, <2>1, <2>2 DEF EnvelopeInv, EnvelopeCopiesAgree
  <2>5. recovered # {} => envelope # NULL
    BY SessionAssumption DEF EnvelopeInv, EnvelopeNeedsSession, SessionInv, TypeOK
  <2>6. EnvelopeNeedsSession'
    BY <1>1, <1>2, <1>3, <2>3, <2>5 DEF EnvelopeInv, EnvelopeNeedsSession
  <2> QED BY <2>3, <2>4, <2>6 DEF EnvelopeInv
<1>4. CASE UNCHANGED <<envelope, copy>>
  BY <1>1, <1>4, EnvelopeQuiet DEF SessionsKept
<1> QED BY <1>3, <1>4 DEF Install, e

LEMMA EnvelopeRecover ==
  ASSUME SessionInv, EnvelopeInv, NEW c \in Caller, Recover(c)
  PROVE  EnvelopeInv' /\ envelope' = envelope
<1> DEFINE s == [id |-> call[c].id, purpose |-> call[c].purpose]
<1>1. /\ UNCHANGED <<envelope, copy, sessions, bound, v4>>
      /\ recovered' = recovered \cup ({envelope} \ {NULL})
      /\ call[c].pc = "act" /\ call[c].purpose = "recover"
  BY DEF Recover, store
<1>2. s \in Session /\ sessions[s] > 0 /\ s.purpose = "recover"
  BY <1>1, ActTypes
<1> HIDE DEF s
<1>3. recovered' # {} => recovered' = {envelope}
  BY <1>1, SessionAssumption DEF EnvelopeInv, EnvelopeNeedsSession
<1> QED BY <1>1, <1>2, <1>3 DEF EnvelopeInv, EnvelopeCopiesAgree, EnvelopeNeedsSession

LEMMA EnvelopeRestart ==
  ASSUME EnvelopeInv, Restart
  PROVE  EnvelopeInv' /\ envelope' = envelope
<1>1. /\ UNCHANGED <<envelope, sessions, bound, recovered>> /\ v4' = TRUE
      /\ copy' = IF copy = NULL THEN envelope ELSE copy
  BY DEF Restart, history
<1>2. copy' = envelope
  BY <1>1 DEF EnvelopeInv, EnvelopeCopiesAgree
<1> QED BY <1>1, <1>2 DEF EnvelopeInv, EnvelopeCopiesAgree, EnvelopeNeedsSession

\* Every other step.
LEMMA EnvelopeOther ==
  ASSUME SessionInv,
         \/ Tick
         \/ \E c \in Caller :
              \/ OtherReturn(c) \/ IssueBusy(c) \/ (\E i \in Id : IssueInsert(c, i))
              \/ Consume(c) \/ Verify(c) \/ OtherVerification(c)
              \/ \E p \in Purpose : IssueStart(c, p)
              \/ \E p \in Purpose, i \in Id, e \in Envelope \cup {NULL} : Authenticate(c, p, i, e)
         \/ \E i \in Id, p \in Purpose : Ceremony(i, p)
         \/ \E e \in Envelope : SignBinding(e)
         \/ UNCHANGED vars
  PROVE  UNCHANGED <<envelope, copy, v4, recovered>> /\ bound \subseteq bound' /\ SessionsKept
<1>1. ASSUME NEW c \in Caller, Verify(c)
      PROVE  UNCHANGED <<envelope, copy, v4, recovered>> /\ bound \subseteq bound' /\ SessionsKept
  <2>1. UNCHANGED <<envelope, copy, v4, recovered, bound>>
    BY <1>1 DEF Verify, store
  <2>2. SessionsKept
    BY <1>1 DEF Verify, SessionsKept, SessionInv, TypeOK
  <2> QED BY <2>1, <2>2
<1>2. ASSUME NEW c \in Caller,
             \/ OtherReturn(c) \/ IssueBusy(c) \/ (\E i \in Id : IssueInsert(c, i))
             \/ Consume(c) \/ OtherVerification(c)
             \/ \E p \in Purpose : IssueStart(c, p)
             \/ \E p \in Purpose, i \in Id, e \in Envelope \cup {NULL} : Authenticate(c, p, i, e)
      PROVE  UNCHANGED <<envelope, copy, v4, recovered, bound, sessions>>
  BY <1>2 DEF OtherReturn, IssueBusy, IssueInsert, Consume, OtherVerification, IssueStart,
              Authenticate, store, history
<1>3. ASSUME \/ Tick \/ UNCHANGED vars
             \/ \E i \in Id, p \in Purpose : Ceremony(i, p)
             \/ \E e \in Envelope : SignBinding(e)
      PROVE  UNCHANGED <<envelope, copy, v4, recovered, sessions>> /\ bound \subseteq bound'
  BY <1>3 DEF Tick, vars, Ceremony, SignBinding, store, history
<1> QED BY <1>1, <1>2, <1>3 DEF SessionsKept

LEMMA EnvelopeNext ==
  SessionInv /\ EnvelopeInv /\ [Next]_vars =>
    EnvelopeInv' /\ (envelope # NULL => envelope' = envelope)
<1> SUFFICES ASSUME SessionInv, EnvelopeInv, [Next]_vars
             PROVE  EnvelopeInv' /\ (envelope # NULL => envelope' = envelope)
  OBVIOUS
<1>1. CASE Restart
  BY <1>1, EnvelopeRestart
<1>2. CASE \E c \in Caller : Install(c)
  BY <1>2, EnvelopeInstall
<1>3. CASE \E c \in Caller : Recover(c)
  BY <1>3, EnvelopeRecover
<1>4. CASE ~Restart /\ ~(\E c \in Caller : Install(c) \/ Recover(c))
  <2>1. UNCHANGED <<envelope, copy, v4, recovered>> /\ bound \subseteq bound' /\ SessionsKept
    BY <1>4, EnvelopeOther DEF Next, Step
  <2> QED BY <2>1, EnvelopeQuiet
<1> QED BY <1>1, <1>2, <1>3, <1>4

\* The v3 row and its v4 copy hold one envelope, which the device has signed
\* (StoreCredentialEnvelopeIfAbsent, upsertMigratedLegacyVault).
THEOREM CopiesAgree == Spec => []EnvelopeCopiesAgree
<1> QED BY InitInv, SessionInvariant, EnvelopeNext, PTL DEF Spec, EnvelopeInv

\* No envelope is stored or given out without a session for that purpose
\* (InstallCredentialEnvelope, RecoverCredentialEnvelope).
THEOREM EnvelopeBehindSession == Spec => []EnvelopeNeedsSession
<1> QED BY InitInv, SessionInvariant, EnvelopeNext, PTL DEF Spec, EnvelopeInv

\* The first stored envelope is never replaced.
THEOREM FirstEnvelopeStays == Spec => EnvelopeKept
<1>1. Spec => []EnvelopeInv
  BY InitInv, SessionInvariant, EnvelopeNext, PTL DEF Spec
<1> QED BY <1>1, SessionInvariant, EnvelopeNext, PTL DEF Spec, EnvelopeKept

-----------------------------------------------------------------------------
(***************************************************************************)
(* The life of a challenge.                                                *)
(***************************************************************************)
\* A challenge that a call passes is within its TTL.
LEMMA ConsumeInTime ==
  ASSUME SessionInv, NEW c \in Caller, Consume(c), call'[c].pc = "verify"
  PROVE  now < issued[call[c].id].at + TTL
<1> DEFINE i == call[c].id
<1>1. Matches(i, call[c].purpose)
  BY DEF Consume, Goto, Idle, SessionInv, TypeOK
<1>2. i \in DOMAIN pending /\ now < pending[i].expires
  BY <1>1 DEF Matches
<1>3. pending[i].expires <= issued[i].at + TTL /\ i \in DOMAIN issued
  BY <1>2 DEF SessionInv, PendingOK
<1>4. now \in Nat /\ pending[i].expires \in Nat /\ issued[i].at \in Nat /\ TTL \in Nat
  BY <1>2, <1>3, SessionAssumption DEF SessionInv, TypeOK, Challenge, Issued
<1> QED BY <1>2, <1>3, <1>4

\* Only Consume moves a call from "consume" to "verify".
LEMMA OnlyConsume ==
  ASSUME SessionInv, [Next]_vars, NEW c \in Caller, call[c].pc = "consume", call'[c].pc = "verify"
  PROVE  Consume(c)
<1> SUFFICES ASSUME ~Consume(c) PROVE FALSE
  OBVIOUS
<1> USE DEF SessionInv
<1>1. CASE Tick \/ (\E i \in Id, p \in Purpose : Ceremony(i, p))
           \/ (\E e \in Envelope : SignBinding(e)) \/ UNCHANGED vars
  BY <1>1 DEF Tick, Ceremony, SignBinding, vars
<1>2. CASE Restart
  BY <1>2 DEF Restart, Idle
<1>3. ASSUME NEW d \in Caller, \A f \in Caller \ {d} : call'[f] = call[f],
             call[d].pc # "consume" \/ call'[d].pc # "verify"
      PROVE  FALSE
  BY <1>3
<1>4. ASSUME NEW d \in Caller,
             \/ OtherReturn(d) \/ OtherVerification(d) \/ IssueBusy(d)
             \/ (\E i \in Id : IssueInsert(d, i))
             \/ (\E p \in Purpose : IssueStart(d, p))
             \/ \E p \in Purpose, i \in Id, e \in Envelope \cup {NULL} : Authenticate(d, p, i, e)
             \/ Install(d) \/ Recover(d)
      PROVE  FALSE
  <2>1. call[d].pc # "consume" /\ \E state : call' = [call EXCEPT ![d] = state]
    BY <1>4 DEF OtherReturn, OtherVerification, IssueBusy, IssueInsert, IssueStart, Authenticate,
                Install, Recover, Goto
  <2>2. \A f \in Caller \ {d} : call'[f] = call[f]
    BY <2>1 DEF TypeOK
  <2> QED BY <2>1, <2>2, <1>3
<1>5. ASSUME NEW d \in Caller, Verify(d) PROVE FALSE
  <2>1. call[d].pc = "verify" /\ \A f \in Caller \ {d} : call'[f] = call[f]
    BY <1>5 DEF Verify, Goto, TypeOK
  <2> QED BY <2>1, <1>3
<1>6. ASSUME NEW d \in Caller, Consume(d) PROVE FALSE
  <2>1. d # c /\ \A f \in Caller \ {d} : call'[f] = call[f]
    BY <1>6 DEF Consume, Goto, TypeOK
  <2> QED BY <2>1
<1> QED BY <1>1, <1>2, <1>4, <1>5, <1>6 DEF Next, Step

\* A challenge passes only within its TTL (IssuePasskeyChallenge,
\* consumePasskeyChallenge).
THEOREM PassedInTime == Spec => ConsumedInTime
<1>1. SessionInv /\ [Next]_vars =>
        [\A c \in Caller : call[c].pc = "consume" /\ call'[c].pc = "verify" =>
           now < issued[call[c].id].at + TTL]_vars
  BY OnlyConsume, ConsumeInTime
<1> QED BY <1>1, SessionInvariant, PTL DEF Spec, ConsumedInTime

\* The finite map of outstanding challenges.
PendingBounded == IsFiniteSet(DOMAIN pending) /\ ChallengesBounded

LEMMA SmallerPending ==
  ASSUME PendingBounded, DOMAIN pending' \subseteq DOMAIN pending
  PROVE  PendingBounded'
<1>1. /\ IsFiniteSet(DOMAIN pending')
      /\ Cardinality(DOMAIN pending') <= Cardinality(DOMAIN pending)
  BY FS_Subset DEF PendingBounded
<1>2. Cardinality(DOMAIN pending') \in Nat /\ Cardinality(DOMAIN pending) \in Nat
  BY <1>1, FS_CardinalityType DEF PendingBounded
<1> QED BY <1>1, <1>2, SessionAssumption DEF PendingBounded, ChallengesBounded

LEMMA BoundedInsert ==
  ASSUME PendingBounded, NEW c \in Caller, NEW i \in Id, IssueInsert(c, i)
  PROVE  PendingBounded'
<1> DEFINE kept == Live(call[c].at)
<1>1. DOMAIN pending' = kept \cup {i}
  BY DEF IssueInsert, With, Restricted
<1>2. kept \subseteq DOMAIN pending
  BY DEF Live
<1>3. Cardinality(kept) < MaxPasskeyChallenges
  BY DEF IssueInsert, HasRoom
<1> HIDE DEF kept
<1>4. IsFiniteSet(kept) /\ Cardinality(kept) \in Nat
  BY <1>2, FS_Subset, FS_CardinalityType DEF PendingBounded
<1>5. /\ IsFiniteSet(kept \cup {i})
      /\ Cardinality(kept \cup {i}) = (IF i \in kept THEN Cardinality(kept) ELSE Cardinality(kept) + 1)
  BY <1>4, FS_AddElement
<1>6. Cardinality(kept \cup {i}) <= MaxPasskeyChallenges
  BY <1>3, <1>4, <1>5, SessionAssumption
<1> QED BY <1>1, <1>5, <1>6 DEF PendingBounded, ChallengesBounded

LEMMA BoundedNext == SessionInv /\ PendingBounded /\ [Next]_vars => PendingBounded'
<1> SUFFICES ASSUME SessionInv, PendingBounded, [Next]_vars PROVE PendingBounded'
  OBVIOUS
<1>1. CASE \E c \in Caller : \E i \in Id : IssueInsert(c, i)
  BY <1>1, BoundedInsert
<1>2. CASE \E c \in Caller : IssueBusy(c)
  <2>1. DOMAIN pending' \subseteq DOMAIN pending
    BY <1>2 DEF IssueBusy, Restricted, Live
  <2> QED BY <2>1, SmallerPending
<1>3. CASE \E c \in Caller : Consume(c)
  <2>1. DOMAIN pending' \subseteq DOMAIN pending
    BY <1>3 DEF Consume, Forget, Restricted
  <2> QED BY <2>1, SmallerPending
<1>4. CASE Restart
  <2>1. DOMAIN pending' \subseteq DOMAIN pending
    BY <1>4 DEF Restart
  <2> QED BY <2>1, SmallerPending
<1>5. CASE ~Restart /\ ~(\E c \in Caller : IssueBusy(c) \/ Consume(c) \/ \E i \in Id : IssueInsert(c, i))
  <2>1. pending' = pending
    BY <1>5 DEF Next, Step, Tick, OtherReturn, OtherVerification, IssueStart, Authenticate,
                Verify, Install, Recover, Ceremony, SignBinding, vars
  <2> QED BY <2>1, SmallerPending
<1> QED BY <1>1, <1>2, <1>3, <1>4, <1>5

\* The outstanding challenges never exceed maxPasskeyChallenges.
THEOREM BoundedChallenges == Spec => []ChallengesBounded
<1>1. Init => PendingBounded
  <2> SUFFICES ASSUME Init PROVE PendingBounded
    OBVIOUS
  <2>1. DOMAIN pending = {}
    BY DEF Init
  <2> QED BY <2>1, FS_EmptySet, SessionAssumption DEF PendingBounded, ChallengesBounded
<1> QED BY <1>1, SessionInvariant, BoundedNext, PTL DEF Spec, PendingBounded
=============================================================================
