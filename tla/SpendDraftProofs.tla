-------------------------- MODULE SpendDraftProofs --------------------------
(***************************************************************************)
(* Proofs about SpendDraft.  A spend that the classifier accepts, and one  *)
(* that the script of the vault accepts, have the same one form            *)
(* (RoutineTx); what the two say of fees, sizes and the challenge is then  *)
(* computed on that form.                                                  *)
(***************************************************************************)
EXTENDS SpendDraft, BasicLemmas

-----------------------------------------------------------------------------
(***************************************************************************)
(* Sums.                                                                   *)
(***************************************************************************)
\* f is the table of the sums of the prefixes of s up to n.
Sums(s, f, n) == f = [k \in 0 .. n |-> IF k = 0 THEN 0 ELSE f[k - 1] + s[k]]

LEMMA SumsExist ==
  ASSUME NEW s
  PROVE  \A n \in Nat : \E f : Sums(s, f, n)
<1> DEFINE S == {n \in Nat : \E f : Sums(s, f, n)}
<1>1. 0 \in S
  <2>1. Sums(s, [k \in 0 .. 0 |-> 0], 0)
    BY DEF Sums
  <2> QED BY <2>1
<1>2. ASSUME NEW n \in Nat, n \in S PROVE n + 1 \in S
  <2>1. PICK f : Sums(s, f, n)
    BY <1>2
  <2> DEFINE g == [k \in 0 .. n + 1 |-> IF k = n + 1 THEN f[n] + s[k] ELSE f[k]]
  <2>2. Sums(s, g, n + 1)
    <3>1. f = [k \in 0 .. n |-> IF k = 0 THEN 0 ELSE f[k - 1] + s[k]]
      BY <2>1 DEF Sums
    <3>2. \A k \in 0 .. n : f[k] = IF k = 0 THEN 0 ELSE f[k - 1] + s[k]
      BY <3>1
    <3>3. ASSUME NEW k \in 0 .. n + 1 PROVE g[k] = IF k = 0 THEN 0 ELSE g[k - 1] + s[k]
      <4>1. CASE k = n + 1
        BY <4>1
      <4>2. CASE k \in 0 .. n
        BY <3>2, <4>2
      <4> QED BY <4>1, <4>2
    <3> QED BY <3>3 DEF Sums
  <2> QED BY <2>2
<1> HIDE DEF S
<1>3. Nat \subseteq S
  BY <1>1, <1>2, SetInduction
<1> QED BY <1>3 DEF S

\* The recursive definition of Total means what it says.
LEMMA TotalIs ==
  ASSUME NEW s, Len(s) \in Nat
  PROVE  \E f : /\ Total(s) = f[Len(s)]
                /\ \A k \in 0 .. Len(s) : f[k] = IF k = 0 THEN 0 ELSE f[k - 1] + s[k]
<1>1. \E f : Sums(s, f, Len(s))
  BY SumsExist
<1> DEFINE g == CHOOSE f : Sums(s, f, Len(s))
<1>2. Sums(s, g, Len(s))
  BY <1>1
<1>3. Total(s) = g[Len(s)]
  BY DEF Total, Sums
<1> HIDE DEF g
<1>4. g = [k \in 0 .. Len(s) |-> IF k = 0 THEN 0 ELSE g[k - 1] + s[k]]
  BY <1>2 DEF Sums
<1> QED BY <1>3, <1>4

LEMMA TotalNat ==
  ASSUME NEW s, Len(s) \in Nat, \A i \in 1 .. Len(s) : s[i] \in Nat
  PROVE  Total(s) \in Nat
<1>1. PICK f : /\ Total(s) = f[Len(s)]
               /\ \A k \in 0 .. Len(s) : f[k] = IF k = 0 THEN 0 ELSE f[k - 1] + s[k]
  BY TotalIs
<1> DEFINE S == {n \in Nat : n <= Len(s) => f[n] \in Nat}
<1>2. 0 \in S
  BY <1>1
<1>3. ASSUME NEW n \in Nat, n \in S PROVE n + 1 \in S
  BY <1>1, <1>3
<1>4. Nat \subseteq S
  <2> HIDE DEF S
  <2> QED BY <1>2, <1>3, SetInduction
<1> QED BY <1>1, <1>4

\* The sums of the sizes that occur.
LEMMA TotalOne ==
  ASSUME NEW s, Len(s) = 1, s[1] \in Int
  PROVE  Total(s) = s[1]
<1>1. PICK f : /\ Total(s) = f[Len(s)]
               /\ \A k \in 0 .. Len(s) : f[k] = IF k = 0 THEN 0 ELSE f[k - 1] + s[k]
  BY TotalIs
<1>2. f[0] = 0 /\ f[1] = f[0] + s[1]
  BY <1>1
<1> QED BY <1>1, <1>2

LEMMA TotalTwo ==
  ASSUME NEW s, Len(s) = 2, s[1] \in Int, s[2] \in Int
  PROVE  Total(s) = s[1] + s[2]
<1>1. PICK f : /\ Total(s) = f[Len(s)]
               /\ \A k \in 0 .. Len(s) : f[k] = IF k = 0 THEN 0 ELSE f[k - 1] + s[k]
  BY TotalIs
<1>2. f[0] = 0 /\ f[1] = f[0] + s[1] /\ f[2] = f[1] + s[2]
  BY <1>1
<1> QED BY <1>1, <1>2

LEMMA TotalThree ==
  ASSUME NEW s, Len(s) = 3, s[1] \in Int, s[2] \in Int, s[3] \in Int
  PROVE  Total(s) = s[1] + s[2] + s[3]
<1>0. Len(s) \in Nat
  OBVIOUS
<1>1. PICK f : /\ Total(s) = f[Len(s)]
               /\ \A k \in 0 .. Len(s) : f[k] = IF k = 0 THEN 0 ELSE f[k - 1] + s[k]
  BY <1>0, TotalIs, Zenon
<1>2. \A k \in 0 .. 3 : f[k] = IF k = 0 THEN 0 ELSE f[k - 1] + s[k]
  BY <1>1
<1>3. f[0] = 0 /\ f[1] = f[0] + s[1]
  BY <1>2
<1>4. f[2] = f[1] + s[2]
  BY <1>2
<1>5. f[3] = f[2] + s[3]
  BY <1>2
<1> QED BY <1>1, <1>3, <1>4, <1>5

-----------------------------------------------------------------------------
(***************************************************************************)
(* int64.                                                                  *)
(***************************************************************************)
\* A wrapped product is never more than the product, and a product that fits
\* is not wrapped.
LEMMA Int64Below ==
  ASSUME NEW x \in Nat
  PROVE  Int64(x) \in Int /\ Int64(x) <= x
<1>1. MaxInt64 \in Nat
  BY MoneyAssumption
<1> DEFINE M == MaxInt64 + 1
<1>2. M \in Nat \ {0}
  BY <1>1
<1>3. Int64(x) = ((x + M) % (2 * M)) - M
  BY <1>1 DEF Int64
<1> HIDE DEF M
<1>4. \A y \in Nat : y % (2 * M) \in Int /\ y % (2 * M) <= y
  BY <1>2
<1> QED BY <1>2, <1>3, <1>4

LEMMA Int64Fits ==
  ASSUME NEW x \in 0 .. MaxInt64
  PROVE  Int64(x) = x
<1>1. MaxInt64 \in Nat
  BY MoneyAssumption
<1> DEFINE M == MaxInt64 + 1
<1>2. M \in Nat \ {0} /\ x \in Nat /\ x < M
  BY <1>1
<1>3. Int64(x) = ((x + M) % (2 * M)) - M
  BY <1>1 DEF Int64
<1> HIDE DEF M
<1>4. \A y \in Nat : y < 2 * M => y % (2 * M) = y
  BY <1>2
<1> QED BY <1>2, <1>3, <1>4

-----------------------------------------------------------------------------
(***************************************************************************)
(* The vault.                                                              *)
(***************************************************************************)
Root(o) == <<o.routine.script, o.admin.script, o.recovery.script>>

LEMMA VaultPolicy ==
  ASSUME NEW o \in Ops
  PROVE  /\ o.auth.policy = o.policy
         /\ o.auth # NULL
         /\ o.auth.len \in Nat \ {0}
         /\ o.policy.dust \in Nat \ {0}
         /\ o.policy.cap \in Nat /\ o.policy.cap >= o.policy.dust
         /\ o.policy.feeCeiling \in Nat
         /\ o.policy.feerate \in Nat \ {0}
<1>1. PICK r \in Records : o \in NewFromRecord(r)
  BY DEF Ops
<1>2. /\ o.policy = r.policy
      /\ o.auth = AuthScript(r.policy, r.direct, r.scriptLen)
      /\ ValidPolicy(r.policy)
  BY <1>1 DEF NewFromRecord
<1>3. /\ r.scriptLen \in Nat \ {0}
      /\ AuthScript(r.policy, r.direct, r.scriptLen) # NULL
      /\ r.policy.dust \in Int /\ r.policy.cap \in Int
      /\ r.policy.feeCeiling \in Int /\ r.policy.feerate \in Int
  BY StoreAssumption
<1> QED BY <1>2, <1>3 DEF ValidPolicy, AuthScript

LEMMA VaultTree ==
  ASSUME NEW o \in Ops
  PROVE  /\ o.pkScript = [kind |-> "p2tr", id |-> Root(o), len |-> 34]
         /\ o.pkScript.kind = "p2tr" /\ o.pkScript.id = Root(o) /\ o.pkScript.len = 34
         /\ o.routine = Leaf(o.routine.script, Root(o), 2)
         /\ o.admin = Leaf(o.admin.script, Root(o), 2)
         /\ o.recovery = Leaf(o.recovery.script, Root(o), 1)
         /\ o.routine.script.len = 102
         /\ o.admin.script.len = 68
         /\ o.recovery.script.len = 37
<1>1. PICK r \in Records : o \in NewFromRecord(r)
  BY DEF Ops
<1> DEFINE auth == AuthScript(r.policy, r.direct, r.scriptLen)
           routine == Multisig(<<r.phone, Tweaked(r.vaultBase, auth), Tweaked(r.arkadeBase, auth)>>)
           admin == Multisig(<<r.owner, r.recovery>>)
           recovery == CSVMultisig(<<r.recovery>>, r.csv)
<1>2. /\ o.pkScript = [kind |-> "p2tr", id |-> <<routine, admin, recovery>>, len |-> 34]
      /\ o.routine = Leaf(routine, <<routine, admin, recovery>>, 2)
      /\ o.admin = Leaf(admin, <<routine, admin, recovery>>, 2)
      /\ o.recovery = Leaf(recovery, <<routine, admin, recovery>>, 1)
  BY <1>1 DEF NewFromRecord
<1>3. routine.len = 102 /\ admin.len = 68 /\ recovery.len = 37
  BY DEF Multisig, CSVMultisig
<1> HIDE DEF routine, admin, recovery
<1>4. o.routine.script = routine /\ o.admin.script = admin /\ o.recovery.script = recovery
  BY <1>2 DEF Leaf
<1>5. Root(o) = <<routine, admin, recovery>>
  BY <1>4 DEF Root
<1>6. o.pkScript.kind = "p2tr" /\ o.pkScript.id = Root(o) /\ o.pkScript.len = 34
  BY <1>2, <1>5
<1> QED BY <1>2, <1>3, <1>4, <1>5, <1>6

\* Only the keys of the two cosigners in the routine leaf are tweaked, and
\* both by this vault's script.
LEMMA VaultKeys ==
  ASSUME NEW o \in Ops
  PROVE  /\ Len(o.routine.script.keys) = 3
         /\ o.routine.script.keys[2] = Tweaked(o.vaultBase, o.auth)
         /\ \A k \in 1 .. Len(o.routine.script.keys) :
               o.routine.script.keys[k].tweak \in {NULL, o.auth}
         /\ \A k \in 1 .. Len(o.admin.script.keys) : o.admin.script.keys[k].tweak = NULL
         /\ \A k \in 1 .. Len(o.recovery.script.keys) : o.recovery.script.keys[k].tweak = NULL
         /\ \A s : Tweaked(o.vaultBase, s).tweak = s
<1>1. PICK r \in Records : o \in NewFromRecord(r)
  BY DEF Ops
<1> DEFINE auth == AuthScript(r.policy, r.direct, r.scriptLen)
<1>2. /\ o.routine.script.keys = <<r.phone, Tweaked(r.vaultBase, auth), Tweaked(r.arkadeBase, auth)>>
      /\ o.admin.script.keys = <<r.owner, r.recovery>>
      /\ o.recovery.script.keys = <<r.recovery>>
      /\ o.auth = auth
      /\ o.vaultBase = r.vaultBase
  BY <1>1 DEF NewFromRecord, Leaf, Multisig, CSVMultisig
<1> HIDE DEF auth
<1>3. \A key \in {r.phone, r.owner, r.recovery, r.vaultBase, r.arkadeBase} : key = BaseKey(key.id)
  BY StoreAssumption
<1>4. \A key \in {r.phone, r.owner, r.recovery, r.vaultBase, r.arkadeBase} :
         /\ key.tweak = NULL
         /\ \A s : Tweaked(key, s).tweak = s
  BY <1>3 DEF BaseKey, Tweaked
<1> QED BY <1>2, <1>4

-----------------------------------------------------------------------------
(***************************************************************************)
(* The one form of a routine spend: recipient, change, packet.             *)
(***************************************************************************)
Entry(o, w) == [vin |-> 0, script |-> o.auth, witness |-> w]
Packet(o, w) == [type |-> 1, pad |-> 0, entries |-> <<Entry(o, w)>>]
RoutineOuts(out, change, o, w) ==
    <<out, Output(change, o.pkScript), Output(0, PacketScript(0, o.auth, w))>>
RoutineTx(outpoint, out, change, o, w) == NewTx(outpoint, "final", RoutineOuts(out, change, o, w))

LEMMA RoutineFields ==
  ASSUME NEW o \in Ops, NEW outpoint, NEW out, NEW change, NEW w,
         NEW tx, tx = RoutineTx(outpoint, out, change, o, w)
  PROVE  /\ tx.version = 2 /\ tx.locktime = 0 /\ tx.ins = 1 /\ tx.sequence = "final"
         /\ tx.outpoint = outpoint
         /\ tx.outs = RoutineOuts(out, change, o, w)
         /\ Len(tx.outs) = 3
         /\ tx.outs[1] = out
         /\ tx.outs[2].value = change /\ tx.outs[2].script = o.pkScript
         /\ tx.outs[3].value = 0
         /\ tx.outs[3].script = [kind |-> "extension", pad |-> 0, packets |-> <<Packet(o, w)>>]
<1>1. tx.version = 2 /\ tx.locktime = 0 /\ tx.ins = 1 /\ tx.sequence = "final" /\ tx.outpoint = outpoint
      /\ tx.outs = RoutineOuts(out, change, o, w)
  BY DEF RoutineTx, NewTx
<1>2. PacketScript(0, o.auth, w) = [kind |-> "extension", pad |-> 0, packets |-> <<Packet(o, w)>>]
  BY DEF PacketScript, Packet, Entry
<1> QED BY <1>1, <1>2 DEF RoutineOuts, Output

LEMMA RoutinePacket ==
  ASSUME NEW o \in Ops, NEW outpoint, NEW out, NEW change, NEW w, ~IsExtension(out.script),
         NEW tx, tx = RoutineTx(outpoint, out, change, o, w)
  PROVE  /\ Extensions(tx) = {3}
         /\ FirstOf(Extensions(tx)) = 3
         /\ FindEmulatorPacket(tx) = {Packet(o, w)}
         /\ PacketEntry(tx) = {Entry(o, w)}
<1>0. Len(tx.outs) = 3 /\ tx.outs[1] = out /\ tx.outs[2].script = o.pkScript
      /\ tx.ins = 1
      /\ tx.outs[3].script = [kind |-> "extension", pad |-> 0, packets |-> <<Packet(o, w)>>]
  BY RoutineFields
<1>1. Len(tx.outs) = 3 /\ tx.outs[1] = out /\ tx.outs[2].script.kind = "p2tr"
      /\ tx.ins = 1
      /\ tx.outs[3].script = [kind |-> "extension", pad |-> 0, packets |-> <<Packet(o, w)>>]
  <2>1. o.pkScript.kind = "p2tr"
    BY VaultTree
  <2> QED BY <1>0, <2>1
<1>2. Extensions(tx) = {3}
  BY <1>1 DEF Extensions, IsExtension
<1>3. FirstOf({3}) = 3
  BY DEF FirstOf
<1>4. EmulatorPackets(tx.outs[3].script) = {1} /\ tx.outs[3].script.packets[1] = Packet(o, w)
  BY <1>1 DEF EmulatorPackets, Packet
<1>5. PacketValid(tx, Packet(o, w))
  BY <1>1, VaultPolicy DEF PacketValid, Packet, Entry
<1>6. FindEmulatorPacket(tx) = {Packet(o, w)}
  <2>1. FindEmulatorPacket(tx) =
          {p \in {tx.outs[3].script.packets[i] : i \in {1}} : PacketValid(tx, p)}
    BY <1>2, <1>3, <1>4 DEF FindEmulatorPacket
  <2> QED BY <1>4, <1>5, <2>1
<1>7. Len(Packet(o, w).entries) = 1 /\ Packet(o, w).entries[1] = Entry(o, w)
  BY DEF Packet
<1>8. PacketEntry(tx) = {Entry(o, w)}
  BY <1>6, <1>7 DEF PacketEntry
<1> QED BY <1>2, <1>3, <1>6, <1>8

\* The values of the outputs.
LEMMA RoutineSum ==
  ASSUME NEW o \in Ops, NEW outpoint, NEW out, NEW change, NEW w,
         NEW tx, tx = RoutineTx(outpoint, out, change, o, w),
         out.value \in Int, change \in Int
  PROVE  OutSum(tx) = out.value + change
<1> DEFINE s == [i \in 1 .. Len(tx.outs) |-> tx.outs[i].value]
<1>0. Len(tx.outs) = 3 /\ tx.outs[1] = out /\ tx.outs[2].value = change /\ tx.outs[3].value = 0
  BY DEF RoutineTx, NewTx, RoutineOuts, Output
<1>1. Len(s) = 3 /\ s[1] = out.value /\ s[2] = change /\ s[3] = 0
  <2>1. s = [i \in 1 .. 3 |-> tx.outs[i].value]
    BY <1>0
  <2> QED BY <1>0, <2>1
<1>2. OutSum(tx) = Total(s)
  BY DEF OutSum
<1> HIDE DEF s
<1>3. Total(s) = s[1] + s[2] + s[3]
  BY <1>1, TotalThree
<1> QED BY <1>1, <1>2, <1>3

\* The masked outputs are those of the spend without a witness.
LEMMA RoutineMask ==
  ASSUME NEW o \in Ops, NEW outpoint, NEW out, NEW change, NEW w, ~IsExtension(out.script),
         NEW tx, tx = RoutineTx(outpoint, out, change, o, w)
  PROVE  MaskedOuts(tx) = RoutineOuts(out, change, o, <<>>)
<1>1. /\ tx.outs = RoutineOuts(out, change, o, w) /\ Len(tx.outs) = 3
      /\ tx.outs[3].script = [kind |-> "extension", pad |-> 0, packets |-> <<Packet(o, w)>>]
      /\ FirstOf(Extensions(tx)) = 3
  BY RoutineFields, RoutinePacket
<1>2. [Entry(o, w) EXCEPT !.witness = <<>>] = Entry(o, <<>>)
  BY DEF Entry
<1>3. MaskedPacket(Packet(o, w)) = Packet(o, <<>>)
  <2>1. [i \in 1 .. 1 |-> [<<Entry(o, w)>>[i] EXCEPT !.witness = <<>>]] = <<Entry(o, <<>>)>>
    BY <1>2
  <2>2. Packet(o, w).entries = <<Entry(o, w)>> /\ Len(Packet(o, w).entries) = 1
    BY DEF Packet
  <2>3. MaskedPacket(Packet(o, w)) = [Packet(o, w) EXCEPT !.pad = 0, !.entries = <<Entry(o, <<>>)>>]
    BY <2>1, <2>2 DEF MaskedPacket
  <2> QED BY <2>3 DEF Packet
<1>4. MaskedExtension(PacketScript(0, o.auth, w)) = PacketScript(0, o.auth, <<>>)
  <2>1. \A x : PacketScript(0, o.auth, x) = [kind |-> "extension", pad |-> 0, packets |-> <<Packet(o, x)>>]
    BY DEF PacketScript, Packet, Entry
  <2>2. Packet(o, w).type = 1
    BY DEF Packet
  <2>3. [i \in 1 .. 1 |->
            IF <<Packet(o, w)>>[i].type = 1 THEN MaskedPacket(<<Packet(o, w)>>[i])
            ELSE <<Packet(o, w)>>[i]] = <<Packet(o, <<>>)>>
    BY <1>3, <2>2
  <2>0. PICK s : s = PacketScript(0, o.auth, w)
    OBVIOUS
  <2>6. s = [kind |-> "extension", pad |-> 0, packets |-> <<Packet(o, w)>>]
    BY <2>0, <2>1, Zenon
  <2>4. s.packets = <<Packet(o, w)>> /\ Len(s.packets) = 1
    BY <2>6
  <2>5. MaskedExtension(s) = [s EXCEPT !.pad = 0, !.packets = <<Packet(o, <<>>)>>]
    BY <2>3, <2>4 DEF MaskedExtension
  <2>7. MaskedExtension(s) = [kind |-> "extension", pad |-> 0, packets |-> <<Packet(o, <<>>)>>]
    BY <2>5, <2>6
  <2> QED BY <2>0, <2>1, <2>7, Zenon
<1>5. MaskedOuts(tx) = [i \in 1 .. 3 |->
        IF IsExtension(tx.outs[i].script) /\ i = 3
        THEN [tx.outs[i] EXCEPT !.script = MaskedExtension(@)]
        ELSE tx.outs[i]]
  BY <1>1 DEF MaskedOuts
<1>6. [tx.outs[3] EXCEPT !.script = MaskedExtension(@)] = Output(0, PacketScript(0, o.auth, <<>>))
  BY <1>1, <1>4 DEF RoutineOuts, Output
<1>7. IsExtension(tx.outs[3].script)
  BY <1>1 DEF IsExtension
<1>8. MaskedOuts(tx) = <<tx.outs[1], tx.outs[2], Output(0, PacketScript(0, o.auth, <<>>))>>
  BY <1>5, <1>6, <1>7
<1> QED BY <1>1, <1>8 DEF RoutineOuts

LEMMA RoutineChallenge ==
  ASSUME NEW o \in Ops, NEW outpoint, NEW out, NEW change, NEW w, ~IsExtension(out.script),
         NEW p, p.tx = RoutineTx(outpoint, out, change, o, w), NEW leaf
  PROVE  Challenge(p, leaf) =
            [tx |-> RoutineTx(outpoint, out, change, o, <<>>), utxo |-> p.utxo, leaf |-> leaf]
<1>1. MaskedOuts(p.tx) = RoutineOuts(out, change, o, <<>>)
  BY RoutineMask
<1>2. [p.tx EXCEPT !.outs = RoutineOuts(out, change, o, <<>>)] = RoutineTx(outpoint, out, change, o, <<>>)
  BY DEF RoutineTx, NewTx
<1> QED BY <1>1, <1>2 DEF Challenge

-----------------------------------------------------------------------------
(***************************************************************************)
(* Sizes.                                                                  *)
(***************************************************************************)
LEMMA PrefixedNat ==
  ASSUME NEW n \in Nat
  PROVE  Prefixed(n) \in Nat
BY DEF Prefixed, varintSize

LEMMA WitnessNat ==
  ASSUME NEW w, IsTuple(w), \A i \in DOMAIN w : w[i].len \in Nat
  PROVE  WitnessLen(w) \in Nat
<1> DEFINE s == [i \in 1 .. Len(w) |-> Prefixed(w[i].len)]
<1>1. Len(w) \in Nat /\ DOMAIN w = 1 .. Len(w)
  BY DEF IsTuple
<1>2. \A i \in 1 .. Len(w) : Prefixed(w[i].len) \in Nat
  BY <1>1, PrefixedNat
<1>5. Len(s) = Len(w) /\ \A i \in 1 .. Len(s) : s[i] \in Nat
  BY <1>1, <1>2
<1>3. WitnessLen(w) = 1 + Total(s)
  BY DEF WitnessLen
<1> HIDE DEF s
<1>4. Total(s) \in Nat
  BY <1>1, <1>5, TotalNat
<1> QED BY <1>3, <1>4

LEMMA ContentNat ==
  ASSUME NEW pkt, PacketShape(pkt)
  PROVE  ContentLen(pkt) \in Nat
<1> DEFINE s == [i \in 1 .. Len(pkt.entries) |-> EntryLen(pkt.entries[i])]
<1>1. Len(pkt.entries) \in Nat /\ DOMAIN pkt.entries = 1 .. Len(pkt.entries) /\ pkt.pad \in Nat
  BY DEF PacketShape, IsTuple
<1>2. ASSUME NEW e, EntryShape(e) PROVE EntryLen(e) \in Nat
  <2>1. WitnessLen(e.witness) \in Nat /\ e.script.len \in Nat
    BY <1>2, WitnessNat DEF EntryShape
  <2>2. Prefixed(WitnessLen(e.witness)) \in Nat /\ Prefixed(e.script.len) \in Nat
    BY <2>1, PrefixedNat
  <2> QED BY <2>2 DEF EntryLen
<1>3. Len(s) = Len(pkt.entries) /\ \A i \in 1 .. Len(s) : s[i] \in Nat
  BY <1>1, <1>2 DEF PacketShape
<1>4. ContentLen(pkt) = 1 + pkt.pad + Total(s)
  BY DEF ContentLen
<1> HIDE DEF s
<1>5. Total(s) \in Nat
  BY <1>1, <1>3, TotalNat
<1> QED BY <1>1, <1>4, <1>5

LEMMA ScriptNat ==
  ASSUME NEW scr, ScriptShape(scr)
  PROVE  ScriptLen(scr) \in Nat
<1>1. CASE ~IsExtension(scr)
  BY <1>1 DEF ScriptShape, ScriptLen
<1>2. CASE IsExtension(scr)
  <2> DEFINE s == [i \in 1 .. Len(scr.packets) |-> 1 + Prefixed(ContentLen(scr.packets[i]))]
  <2>1. scr.pad \in Nat /\ IsTuple(scr.packets)
        /\ \A i \in DOMAIN scr.packets : PacketShape(scr.packets[i])
    BY <1>2 DEF ScriptShape
  <2>2. Len(scr.packets) \in Nat /\ DOMAIN scr.packets = 1 .. Len(scr.packets)
    BY <2>1 DEF IsTuple
  <2>3. \A i \in 1 .. Len(scr.packets) : 1 + Prefixed(ContentLen(scr.packets[i])) \in Nat
    <3> SUFFICES ASSUME NEW i \in 1 .. Len(scr.packets)
                 PROVE  1 + Prefixed(ContentLen(scr.packets[i])) \in Nat
      OBVIOUS
    <3>1. ContentLen(scr.packets[i]) \in Nat
      BY <2>1, <2>2, ContentNat
    <3>2. Prefixed(ContentLen(scr.packets[i])) \in Nat
      BY <3>1, PrefixedNat
    <3> QED BY <3>2
  <2>4. Len(s) = Len(scr.packets) /\ \A i \in 1 .. Len(s) : s[i] \in Nat
    BY <2>2, <2>3
  <2>5. PayloadLen(scr) = 3 + scr.pad + Total(s)
    BY DEF PayloadLen
  <2> HIDE DEF s
  <2>6. PayloadLen(scr) \in Nat
    BY <2>1, <2>2, <2>4, <2>5, TotalNat
  <2> QED BY <1>2, <2>6 DEF ScriptLen, ExtensionLen, PushOpcodeLen
<1> QED BY <1>1, <1>2

LEMMA SizeNat ==
  ASSUME NEW tx, TxShape(tx), tx.ins \in Nat
  PROVE  StrippedSize(tx) \in Nat
<1> DEFINE s == [i \in 1 .. Len(tx.outs) |-> OutputLen(tx.outs[i])]
<1>1. IsTuple(tx.outs) /\ \A i \in DOMAIN tx.outs : ScriptShape(tx.outs[i].script)
  BY DEF TxShape, OutputShape
<1>2. Len(tx.outs) \in Nat /\ DOMAIN tx.outs = 1 .. Len(tx.outs)
  BY <1>1 DEF IsTuple
<1>3. \A i \in 1 .. Len(tx.outs) : OutputLen(tx.outs[i]) \in Nat
  <2> SUFFICES ASSUME NEW i \in 1 .. Len(tx.outs) PROVE OutputLen(tx.outs[i]) \in Nat
    OBVIOUS
  <2>1. PICK scr : scr = tx.outs[i].script
    OBVIOUS
  <2>2. ScriptShape(scr)
    BY <1>1, <1>2, <2>1
  <2>3. ScriptLen(scr) \in Nat
    BY <2>2, ScriptNat
  <2>4. Prefixed(ScriptLen(scr)) \in Nat
    BY <2>3, PrefixedNat
  <2> QED BY <2>1, <2>4 DEF OutputLen
<1>4. Len(s) = Len(tx.outs) /\ \A i \in 1 .. Len(s) : s[i] \in Nat
  BY <1>2, <1>3
<1>5. StrippedSize(tx) = 10 + 41 * tx.ins + Total(s)
  BY DEF StrippedSize
<1> HIDE DEF s
<1>6. Total(s) \in Nat
  BY <1>2, <1>4, TotalNat
<1> QED BY <1>5, <1>6

\* The classifier derives from the leaf the witness size that the script has
\* as a constant.
LEMMA VBytesAgree ==
  ASSUME NEW o \in Ops, NEW tx, StrippedSize(tx) \in Nat
  PROVE  estimatedVBytes(tx, o) = ScriptVBytes(tx) /\ ScriptVBytes(tx) \in Nat
<1>1. o.routine.script.len = 102 /\ o.routine.control.len = 97
  <2>1. o.routine = Leaf(o.routine.script, Root(o), 2) /\ o.routine.script.len = 102
    BY VaultTree
  <2>2. Leaf(o.routine.script, Root(o), 2).control.len = 97
    BY DEF Leaf
  <2> QED BY <2>1, <2>2
<1>2. estimatedWitnessBytes(o) = 399
  BY <1>1 DEF estimatedWitnessBytes, Prefixed, varintSize
<1> QED BY <1>2 DEF estimatedVBytes, ScriptVBytes, RoutineWitnessBytes

-----------------------------------------------------------------------------
(***************************************************************************)
(* What the classifier accepts has the form.                               *)
(***************************************************************************)
\* The packet of a transaction whose third output is its one extension with
\* one packet.
LEMMA OnePacket ==
  ASSUME NEW tx, Extensions(tx) = {3}, Len(tx.outs[3].script.packets) = 1
  PROVE  /\ \A pkt \in FindEmulatorPacket(tx) :
               pkt = tx.outs[3].script.packets[1] /\ pkt.type = 1
         /\ \A e \in PacketEntry(tx) :
               /\ tx.outs[3].script.packets[1].type = 1
               /\ Len(tx.outs[3].script.packets[1].entries) = 1
               /\ e = tx.outs[3].script.packets[1].entries[1]
<1>1. FirstOf({3}) = 3
  BY DEF FirstOf
<1>2. EmulatorPackets(tx.outs[3].script) =
         {i \in 1 .. 1 : tx.outs[3].script.packets[i].type = 1}
  BY DEF EmulatorPackets
<1>3. FindEmulatorPacket(tx) =
         {p \in {tx.outs[3].script.packets[i] : i \in EmulatorPackets(tx.outs[3].script)} :
             PacketValid(tx, p)}
  BY <1>1 DEF FindEmulatorPacket
<1>4. \A pkt \in FindEmulatorPacket(tx) :
         pkt = tx.outs[3].script.packets[1] /\ pkt.type = 1
  BY <1>2, <1>3
<1> QED BY <1>4 DEF PacketEntry

LEMMA TupleOfOne ==
  ASSUME NEW s, IsTuple(s), Len(s) = 1
  PROVE  s = <<s[1]>> /\ DOMAIN s = 1 .. 1
BY DEF IsTuple

LEMMA TupleOfThree ==
  ASSUME NEW s, IsTuple(s), Len(s) = 3
  PROVE  s = <<s[1], s[2], s[3]>> /\ DOMAIN s = 1 .. 3
BY DEF IsTuple

FormParts(tx, pkt, o) ==
    /\ tx.version = 2 /\ tx.locktime = 0 /\ tx.ins = 1 /\ tx.sequence = "final"
    /\ Len(tx.outs) = 3 /\ tx.outs[2].script = o.pkScript /\ tx.outs[3].value = 0
    /\ IsExtension(tx.outs[3].script) /\ tx.outs[3].script.pad = 0
    /\ Len(tx.outs[3].script.packets) = 1
    /\ pkt = tx.outs[3].script.packets[1]
    /\ pkt.type = 1 /\ pkt.pad = 0 /\ Len(pkt.entries) = 1
    /\ pkt.entries[1].vin = 0 /\ pkt.entries[1].script = o.auth

LEMMA FormFromParts ==
  ASSUME NEW o \in Ops, NEW tx, TxShape(tx), NEW pkt, FormParts(tx, pkt, o)
  PROVE  /\ tx = RoutineTx(tx.outpoint, tx.outs[1], tx.outs[2].value, o, pkt.entries[1].witness)
         /\ OutputShape(tx.outs[1])
         /\ tx.outs[2].value \in Int
         /\ EntryShape(pkt.entries[1])
<1> DEFINE e == pkt.entries[1]
           outs == tx.outs
           ext == outs[3].script
<1>0. /\ tx.version = 2 /\ tx.locktime = 0 /\ tx.ins = 1 /\ tx.sequence = "final"
      /\ Len(outs) = 3 /\ outs[2].script = o.pkScript /\ outs[3].value = 0
      /\ IsExtension(ext) /\ ext.pad = 0 /\ Len(ext.packets) = 1 /\ pkt = ext.packets[1]
      /\ pkt.type = 1 /\ pkt.pad = 0 /\ Len(pkt.entries) = 1 /\ e.vin = 0 /\ e.script = o.auth
  BY DEF FormParts
<1>1. outs = <<outs[1], outs[2], outs[3]>> /\ \A i \in 1 .. 3 : OutputShape(outs[i])
  BY <1>0, TupleOfThree DEF TxShape
<1>2. ScriptShape(ext) /\ outs[3] = [value |-> 0, script |-> ext]
      /\ outs[2] = [value |-> outs[2].value, script |-> o.pkScript]
      /\ outs[2].value \in Int
  BY <1>0, <1>1 DEF OutputShape
<1>3. /\ ext = [kind |-> ext.kind, pad |-> ext.pad, packets |-> ext.packets]
      /\ IsTuple(ext.packets)
      /\ \A i \in DOMAIN ext.packets : PacketShape(ext.packets[i])
  BY <1>0, <1>2 DEF ScriptShape
<1>4. ext.kind = "extension"
  BY <1>0 DEF IsExtension
<1>5. ext.packets = <<pkt>> /\ PacketShape(pkt)
  BY <1>0, <1>3, TupleOfOne
<1>6. pkt.entries = <<e>> /\ EntryShape(e)
  <2>1. IsTuple(pkt.entries) /\ \A i \in DOMAIN pkt.entries : EntryShape(pkt.entries[i])
    BY <1>5 DEF PacketShape
  <2>2. pkt.entries = <<e>> /\ DOMAIN pkt.entries = 1 .. 1
    BY <1>0, <2>1, TupleOfOne
  <2> QED BY <2>1, <2>2
<1>7. e = Entry(o, e.witness)
  BY <1>0, <1>6 DEF EntryShape, Entry
<1>8. pkt = Packet(o, e.witness)
  <2>1. pkt = [type |-> pkt.type, pad |-> pkt.pad, entries |-> pkt.entries]
    BY <1>5 DEF PacketShape
  <2> HIDE DEF e
  <2> QED BY <1>0, <1>6, <1>7, <2>1 DEF Packet
<1>9. ext = [kind |-> "extension", pad |-> 0, packets |-> <<Packet(o, e.witness)>>]
  <2> HIDE DEF ext, e
  <2> QED BY <1>0, <1>3, <1>4, <1>5, <1>8
<1>10. ext = PacketScript(0, o.auth, e.witness)
  <2> HIDE DEF ext, e
  <2> QED BY <1>9 DEF PacketScript, Packet, Entry
<1>11. outs = RoutineOuts(outs[1], outs[2].value, o, e.witness)
  <2> HIDE DEF e, ext, outs
  <2> QED BY <1>1, <1>2, <1>10 DEF RoutineOuts, Output
<1>12. tx = [version |-> 2, locktime |-> 0, ins |-> 1,
             outpoint |-> tx.outpoint, sequence |-> "final", outs |-> tx.outs]
  BY <1>0 DEF TxShape
<1>13. tx = RoutineTx(tx.outpoint, outs[1], outs[2].value, o, e.witness)
  <2> HIDE DEF e, ext
  <2> QED BY <1>11, <1>12 DEF RoutineTx, NewTx
<1>14. OutputShape(outs[1])
  BY <1>1
<1> QED BY <1>2, <1>6, <1>13, <1>14, Zenon

\* What a spend of the form pays and returns.
RoutineForm(tx, out, change, o, w) ==
    /\ tx = RoutineTx(tx.outpoint, out, change, o, w)
    /\ out = tx.outs[1]
    /\ OutputShape(out) /\ IsWitnessProgram(out.script)
    /\ out.value >= o.policy.dust
    /\ change \in Int /\ change >= o.policy.dust
    /\ EntryShape(Entry(o, w))

LEMMA OutputKinds ==
  ASSUME NEW o \in Ops, NEW p, classify(p, o)
  PROVE  /\ Len(p.tx.outs) = 3
         /\ Extensions(p.tx) = {3}
         /\ PacketOutput(p.tx, 3, o)
         /\ p.tx.outs[2].script = o.pkScript
         /\ p.tx.outs[2].value >= o.policy.dust
         /\ p.tx.outs[1].script # o.pkScript
         /\ RecipientOutput(p.tx, 1, o)
<1> DEFINE n == Len(p.tx.outs)
           outs == p.tx.outs
           packets == Extensions(p.tx)
           changes == {i \in 1 .. n : IsChange(outs[i], o)}
           recipients == {i \in 1 .. n : IsRecipient(outs[i], o)}
<1>1. /\ \A i \in packets : PacketOutput(p.tx, i, o)
      /\ \A i \in changes : ChangeOutput(p.tx, i, o)
      /\ \A i \in recipients : RecipientOutput(p.tx, i, o)
      /\ \A S \in {packets, changes, recipients} : \E i \in S : S = {i}
  BY DEF classify, OutputsClassified
<1>2. PICK a \in packets : packets = {a}
  BY <1>1, Zenon
<1>3. PICK b \in changes : changes = {b}
  BY <1>1, Zenon
<1>4. PICK c \in recipients : recipients = {c}
  BY <1>1, Zenon
<1>5. b = 2 /\ n = 3 /\ outs[2].value >= o.policy.dust
  BY <1>1, <1>3 DEF ChangeOutput
<1>6. a = 3
  BY <1>1, <1>2, <1>5 DEF PacketOutput
<1>7. c = 1
  BY <1>1, <1>4 DEF RecipientOutput
<1>8. outs[2].script = o.pkScript
  BY <1>3, <1>5 DEF IsChange
<1>9. outs[1].script # o.pkScript
  BY <1>4, <1>7 DEF IsRecipient, IsChange
<1> QED BY <1>1, <1>2, <1>4, <1>5, <1>6, <1>7, <1>8, <1>9

LEMMA ClassifiedForm ==
  ASSUME NEW o \in Ops, NEW p, PSBTShape(p), classify(p, o)
  PROVE  \E w : /\ RoutineForm(p.tx, p.tx.outs[1], p.tx.outs[2].value, o, w)
                /\ p.tx.outs[1].script # o.pkScript
<1> DEFINE pkt == p.tx.outs[3].script.packets[1]
<1>1. TxShape(p.tx) /\ p.tx.version = 2 /\ p.tx.locktime = 0 /\ p.tx.ins = 1 /\ p.tx.sequence = "final"
  BY DEF classify, RequireVerifiedPrevout, PSBTShape
<1>2. /\ Len(p.tx.outs) = 3
      /\ Extensions(p.tx) = {3}
      /\ PacketOutput(p.tx, 3, o)
      /\ p.tx.outs[2].script = o.pkScript
      /\ p.tx.outs[2].value >= o.policy.dust
      /\ p.tx.outs[1].script # o.pkScript
      /\ RecipientOutput(p.tx, 1, o)
  BY OutputKinds
<1>3. IsExtension(p.tx.outs[3].script)
  BY <1>2 DEF Extensions
<1>4. /\ p.tx.outs[3].value = 0 /\ p.tx.outs[3].script.pad = 0
      /\ Len(p.tx.outs[3].script.packets) = 1 /\ pkt.type = 1 /\ pkt.pad = 0
      /\ \E e \in PacketEntry(p.tx) : e.vin = 0 /\ e.script = o.auth
  BY <1>2 DEF PacketOutput
<1>5. Len(pkt.entries) = 1 /\ pkt.entries[1].vin = 0 /\ pkt.entries[1].script = o.auth
  BY <1>2, <1>4, OnePacket
<1> HIDE DEF pkt
<1>6. pkt = p.tx.outs[3].script.packets[1]
  BY DEF pkt
<1>7. /\ p.tx = RoutineTx(p.tx.outpoint, p.tx.outs[1], p.tx.outs[2].value, o, pkt.entries[1].witness)
      /\ OutputShape(p.tx.outs[1])
      /\ p.tx.outs[2].value \in Int
      /\ EntryShape(pkt.entries[1])
  <2>1. FormParts(p.tx, pkt, o)
    BY <1>1, <1>2, <1>3, <1>4, <1>5, <1>6 DEF FormParts
  <2> QED BY <1>1, <2>1, FormFromParts
<1>8. pkt.entries[1] = Entry(o, pkt.entries[1].witness)
  BY <1>5, <1>7 DEF EntryShape, Entry
<1>9. RoutineForm(p.tx, p.tx.outs[1], p.tx.outs[2].value, o, pkt.entries[1].witness)
  <2>1. EntryShape(Entry(o, pkt.entries[1].witness))
    BY <1>7, <1>8, Zenon
  <2>2. IsWitnessProgram(p.tx.outs[1].script) /\ p.tx.outs[1].value >= o.policy.dust
    BY <1>2 DEF RecipientOutput
  <2> QED BY <1>2, <1>7, <2>1, <2>2 DEF RoutineForm
<1> QED BY <1>2, <1>9

\* The facts about a spend of the form that the proofs below use.
LEMMA FormFacts ==
  ASSUME NEW o \in Ops, NEW tx, TxShape(tx), NEW out, NEW change, NEW w,
         RoutineForm(tx, out, change, o, w)
  PROVE  /\ tx.version = 2 /\ tx.locktime = 0 /\ tx.ins = 1 /\ tx.sequence = "final"
         /\ Len(tx.outs) = 3
         /\ tx.outs[1] = out /\ out.value \in Int /\ ~IsExtension(out.script)
         /\ tx.outs[2].value = change /\ tx.outs[2].script = o.pkScript
         /\ tx.outs[3].value = 0 /\ IsExtension(tx.outs[3].script)
         /\ tx.outs[3].script.pad = 0
         /\ tx.outs[3].script.packets = <<Packet(o, w)>>
         /\ Extensions(tx) = {3}
         /\ FindEmulatorPacket(tx) = {Packet(o, w)}
         /\ PacketEntry(tx) = {Entry(o, w)}
         /\ OutSum(tx) = out.value + change
         /\ StrippedSize(tx) \in Nat
<1>1. tx = RoutineTx(tx.outpoint, out, change, o, w)
  BY DEF RoutineForm
<1>2. out.value \in Int /\ change \in Int
  BY DEF RoutineForm, OutputShape
<1>3. ~IsExtension(out.script)
  BY DEF RoutineForm, IsExtension, IsWitnessProgram
<1>4. PICK outpoint : outpoint = tx.outpoint
  OBVIOUS
<1>5. tx = RoutineTx(outpoint, out, change, o, w)
  BY <1>1, <1>4
<1>6. /\ tx.version = 2 /\ tx.locktime = 0 /\ tx.ins = 1 /\ tx.sequence = "final"
      /\ Len(tx.outs) = 3
      /\ tx.outs[1] = out
      /\ tx.outs[2].value = change /\ tx.outs[2].script = o.pkScript
      /\ tx.outs[3].value = 0
      /\ tx.outs[3].script = [kind |-> "extension", pad |-> 0, packets |-> <<Packet(o, w)>>]
  BY <1>5, RoutineFields
<1>7. Extensions(tx) = {3} /\ FindEmulatorPacket(tx) = {Packet(o, w)} /\ PacketEntry(tx) = {Entry(o, w)}
  BY <1>3, <1>5, RoutinePacket
<1>8. OutSum(tx) = out.value + change
  BY <1>2, <1>5, RoutineSum
<1>9. StrippedSize(tx) \in Nat
  BY <1>6, SizeNat
<1>10. IsExtension(tx.outs[3].script)
  BY <1>6 DEF IsExtension
<1>11. tx.outs[3].script.pad = 0 /\ tx.outs[3].script.packets = <<Packet(o, w)>>
  BY <1>6
<1>12. /\ tx.version = 2 /\ tx.locktime = 0 /\ tx.ins = 1 /\ tx.sequence = "final"
      /\ Len(tx.outs) = 3
      /\ tx.outs[1] = out
      /\ tx.outs[2].value = change /\ tx.outs[2].script = o.pkScript
      /\ tx.outs[3].value = 0
  BY <1>6
<1> QED BY <1>2, <1>3, <1>7, <1>8, <1>9, <1>10, <1>11, <1>12, Zenon

-----------------------------------------------------------------------------
(***************************************************************************)
(* The script accepts what the classifier accepts.                         *)
(***************************************************************************)
\* The length bytes of the envelope do not depend on what is signed.
LEMMA DirectLen ==
  ASSUME NEW c
  PROVE  WitnessLen(<<DirectItem(c)>>) = 66
<1> DEFINE s == [i \in 1 .. Len(<<DirectItem(c)>>) |-> Prefixed(<<DirectItem(c)>>[i].len)]
<1>1. Prefixed(64) = 65
  BY DEF Prefixed, varintSize
<1>2. Len(s) = 1 /\ s[1] = 65
  <2>1. DirectItem(c).len = 64
    BY DEF DirectItem
  <2>2. Len(<<DirectItem(c)>>) = 1 /\ <<DirectItem(c)>>[1] = DirectItem(c)
    OBVIOUS
  <2> QED BY <1>1, <2>1, <2>2
<1>3. WitnessLen(<<DirectItem(c)>>) = 1 + Total(s)
  BY DEF WitnessLen
<1> HIDE DEF s
<1>4. Total(s) = s[1]
  BY <1>2, TotalOne
<1> QED BY <1>2, <1>3, <1>4

LEMMA ContentOf ==
  ASSUME NEW o \in Ops, NEW w, WitnessLen(w) \in Nat,
         NEW pkt, pkt.entries = <<Entry(o, w)>>, pkt.pad \in Nat
  PROVE  ContentLen(pkt) = 1 + pkt.pad + (2 + Prefixed(o.auth.len) + Prefixed(WitnessLen(w)))
<1> DEFINE s == [i \in 1 .. Len(pkt.entries) |-> EntryLen(pkt.entries[i])]
<1>2. EntryLen(Entry(o, w)) = 2 + Prefixed(o.auth.len) + Prefixed(WitnessLen(w))
  BY DEF EntryLen, Entry
<1>3. EntryLen(Entry(o, w)) \in Int
  <2>1. Prefixed(o.auth.len) \in Nat /\ Prefixed(WitnessLen(w)) \in Nat
    BY VaultPolicy, PrefixedNat
  <2> QED BY <1>2, <2>1
<1>4. Len(s) = 1 /\ s[1] = EntryLen(Entry(o, w))
  OBVIOUS
<1>5. ContentLen(pkt) = 1 + pkt.pad + Total(s)
  BY DEF ContentLen
<1> HIDE DEF s
<1>6. Total(s) = s[1]
  BY <1>3, <1>4, TotalOne
<1> QED BY <1>2, <1>3, <1>4, <1>5, <1>6

LEMMA EnvelopeFits ==
  ASSUME NEW o \in Ops, NEW c
  PROVE  ContentLen(Packet(o, <<DirectItem(c)>>)) =
            ContentLen([type |-> 1, pad |-> 0,
                        entries |-> <<[Packet(o, <<DirectItem(c)>>).entries[1]
                                          EXCEPT !.witness = <<DirectItem(NULL)>>]>>])
<1>1. [Packet(o, <<DirectItem(c)>>).entries[1] EXCEPT !.witness = <<DirectItem(NULL)>>]
        = Entry(o, <<DirectItem(NULL)>>)
  BY DEF Packet, Entry
<1>2. ASSUME NEW x
      PROVE  ContentLen(Packet(o, <<DirectItem(x)>>)) = 1 + 0 + (2 + Prefixed(o.auth.len) + Prefixed(66))
  <2>1. PICK w, pkt : w = <<DirectItem(x)>> /\ pkt = Packet(o, w)
    OBVIOUS
  <2>2. pkt.entries = <<Entry(o, w)>> /\ pkt.pad = 0
    BY <2>1 DEF Packet
  <2>3. WitnessLen(w) = 66
    BY <2>1, DirectLen
  <2>4. ContentLen(pkt) = 1 + pkt.pad + (2 + Prefixed(o.auth.len) + Prefixed(WitnessLen(w)))
    BY <2>2, <2>3, ContentOf
  <2> QED BY <2>1, <2>2, <2>3, <2>4
<1>3. [type |-> 1, pad |-> 0, entries |-> <<Entry(o, <<DirectItem(NULL)>>)>>]
        = Packet(o, <<DirectItem(NULL)>>)
  BY DEF Packet
<1> QED BY <1>1, <1>2, <1>3

LEMMA FormExact ==
  ASSUME NEW o \in Ops, NEW tx, TxShape(tx), NEW out, NEW change, NEW c,
         RoutineForm(tx, out, change, o, <<DirectItem(c)>>)
  PROVE  ExactPacketOutput(tx, tx.outs[3].script)
<1> DEFINE pkt == Packet(o, <<DirectItem(c)>>)
<1>1. /\ FindEmulatorPacket(tx) = {pkt}
      /\ IsExtension(tx.outs[3].script) /\ tx.outs[3].script.pad = 0
      /\ tx.outs[3].script.packets = <<pkt>>
  BY FormFacts
<1>2. Inspect(tx.outs[3].script).version = -1
  BY <1>1 DEF Inspect, IsWitnessProgram, IsExtension
<1>3. ContentLen(pkt) = ContentLen([type |-> 1, pad |-> 0,
          entries |-> <<[pkt.entries[1] EXCEPT !.witness = <<DirectItem(NULL)>>]>>])
  BY EnvelopeFits
<1> HIDE DEF pkt
<1> QED BY <1>1, <1>2, <1>3 DEF ExactPacketOutput

LEMMA VBytesProduct ==
  ASSUME NEW o \in Ops, NEW tx, StrippedSize(tx) \in Nat
  PROVE  o.policy.feerate * ScriptVBytes(tx) \in Nat
<1>1. o.policy.feerate \in Nat /\ ScriptVBytes(tx) \in Nat
  BY VBytesAgree, VaultPolicy
<1>2. \A m, n \in Nat : m * n \in Nat
  OBVIOUS
<1> QED BY <1>1, <1>2

LEMMA FeeAccepted ==
  ASSUME NEW o \in Ops, NEW p, TxShape(p.tx), NEW out, NEW change, NEW w,
         RoutineForm(p.tx, out, change, o, w),
         p.utxo.value \in Int, SpendFee(p) >= 0, enforceStaticPolicy(p, o)
  PROVE  ScriptFee(p, o.policy)
<1> DEFINE fee == p.utxo.value - out.value - change
           rate == o.policy.feerate * ScriptVBytes(p.tx)
<1>1. /\ p.tx.outs[1] = out /\ p.tx.outs[2].value = change
      /\ out.value \in Int
      /\ OutSum(p.tx) = out.value + change
      /\ StrippedSize(p.tx) \in Nat
  BY FormFacts
<1>2. change \in Int
  BY DEF RoutineForm
<1>3. SpendFee(p) = fee /\ fee \in Int
  BY <1>1, <1>2 DEF SpendFee
<1>4. estimatedVBytes(p.tx, o) = ScriptVBytes(p.tx) /\ rate \in Nat
  BY <1>1, VBytesAgree, VBytesProduct
<1>5. SpendFee(p) <= o.policy.feeCeiling /\ SpendFee(p) <= Int64(rate)
  BY <1>4 DEF enforceStaticPolicy
<1> HIDE DEF rate
<1>6. Int64(rate) \in Int /\ Int64(rate) <= rate
  BY <1>4, Int64Below
<1>7. fee >= 0 /\ fee <= o.policy.feeCeiling /\ fee <= rate
  BY <1>3, <1>4, <1>5, <1>6
<1>8. ScriptFee(p, o.policy) = (fee >= 0 /\ fee <= o.policy.feeCeiling /\ fee <= rate)
  BY <1>1 DEF ScriptFee, rate
<1> QED BY <1>7, <1>8

\* Whatever passes Authorize, the script and the signer accept.
LEMMA AuthorizableSigned ==
  ASSUME NEW o \in Ops, NEW p, PSBTShape(p), Authorizable(p, o)
  PROVE  LocalSigns(p, o)
<1> DEFINE out == p.tx.outs[1]
           change == p.tx.outs[2].value
           c == Challenge(p, o.routine)
<1>1. classify(p, o) /\ enforceStaticPolicy(p, o)
      /\ \E e \in PacketEntry(p.tx) : DirectSigned(e.witness, c)
  BY DEF Authorizable, classifySpend
<1>2. /\ RequireVerifiedPrevout(p) /\ p.sighash = "default"
      /\ p.utxo.script = o.pkScript /\ MoneyRange(p.utxo.value)
      /\ p.leaves = <<o.routine>> /\ SpendFee(p) >= 0
  BY <1>1 DEF classify
<1>3. TxShape(p.tx)
  BY DEF PSBTShape
<1>4. PICK w : RoutineForm(p.tx, out, change, o, w)
  BY <1>1, ClassifiedForm
<1>5. /\ p.tx.version = 2 /\ p.tx.locktime = 0 /\ p.tx.ins = 1 /\ p.tx.sequence = "final"
      /\ Len(p.tx.outs) = 3
      /\ p.tx.outs[2].script = o.pkScript
      /\ p.tx.outs[3].value = 0
      /\ PacketEntry(p.tx) = {Entry(o, w)}
  BY <1>3, <1>4, FormFacts
<1>6. w = <<DirectItem(c)>>
  BY <1>1, <1>5 DEF DirectSigned, Entry
<1> HIDE DEF c
<1>7. ExactPacketOutput(p.tx, p.tx.outs[3].script)
  BY <1>3, <1>4, <1>6, FormExact
<1>8. ScriptFee(p, o.policy)
  BY <1>1, <1>2, <1>3, <1>4, FeeAccepted DEF MoneyRange
<1>9. ScriptOutputs(p, o.policy)
  <2>1. out.value >= o.policy.dust /\ change >= o.policy.dust /\ IsWitnessProgram(out.script)
    BY <1>4 DEF RoutineForm
  <2>2. out.value <= o.policy.cap
    BY <1>1 DEF enforceStaticPolicy
  <2>3. Inspect(out.script).version >= 0
    BY <2>1 DEF Inspect
  <2>4. Inspect(o.pkScript).version = 1
    BY VaultTree DEF Inspect, IsWitnessProgram
  <2> QED BY <1>2, <1>5, <1>7, <2>1, <2>2, <2>3, <2>4 DEF ScriptOutputs
<1>10. ScriptAccepts(p, o.auth, o.routine, w)
  BY <1>5, <1>6, <1>8, <1>9, VaultPolicy DEF ScriptAccepts, DirectSigned, c
<1>11. /\ p.leaves # <<>> /\ p.leaves[1] = o.routine
       /\ o.routine.version = "base"
  <2>1. Leaf(o.routine.script, Root(o), 2).version = "base"
    BY DEF Leaf
  <2>2. o.routine = Leaf(o.routine.script, Root(o), 2)
    BY VaultTree
  <2> QED BY <1>2, <2>1, <2>2
<1>12. CommittedLeaf(o.pkScript, o.routine)
  <2>1. /\ o.pkScript.kind = "p2tr" /\ o.pkScript.id = Root(o)
        /\ o.routine = Leaf(o.routine.script, Root(o), 2)
    BY VaultTree
  <2>2. Leaf(o.routine.script, Root(o), 2).control.root = Root(o)
    BY DEF Leaf
  <2>3. Len(Root(o)) = 3 /\ Root(o)[1] = o.routine.script
    BY DEF Root
  <2>4. o.routine = Leaf(Root(o)[1], Root(o), IF 1 = 3 THEN 1 ELSE 2)
    BY <2>1, <2>3
  <2> QED BY <2>1, <2>2, <2>3, <2>4 DEF CommittedLeaf
<1>13. \E k \in 1 .. Len(o.routine.script.keys) : o.routine.script.keys[k] = Tweaked(o.vaultBase, o.auth)
  BY VaultKeys
<1>14. Entry(o, w).vin = 0 /\ Entry(o, w).script = o.auth /\ Entry(o, w).witness = w
  BY DEF Entry
<1> QED BY <1>2, <1>5, <1>10, <1>11, <1>12, <1>13, <1>14 DEF LocalSigns

-----------------------------------------------------------------------------
(***************************************************************************)
(* What the script accepts has the form, too.                              *)
(***************************************************************************)
\* A signer's key can be in no leaf of a vault but the routine one, and only
\* tweaked by the script of that vault.
LEMMA SignedLeaf ==
  ASSUME NEW o \in Ops, NEW en \in Ops, NEW leaf, CommittedLeaf(o.pkScript, leaf),
         NEW scr, scr # NULL, NEW k \in 1 .. Len(leaf.script.keys),
         leaf.script.keys[k] = Tweaked(en.vaultBase, scr)
  PROVE  leaf = o.routine /\ scr = o.auth
<1>1. o.pkScript.id = Root(o) /\ Len(Root(o)) = 3
      /\ Root(o)[1] = o.routine.script /\ Root(o)[2] = o.admin.script /\ Root(o)[3] = o.recovery.script
  BY VaultTree DEF Root
<1>2. PICK n \in 1 .. 3 : leaf = Leaf(Root(o)[n], Root(o), IF n = 3 THEN 1 ELSE 2)
  BY <1>1 DEF CommittedLeaf
<1>3. leaf.script = Root(o)[n]
  BY <1>2 DEF Leaf
<1>4. leaf.script.keys[k].tweak = scr
  BY VaultKeys
<1>5. n = 1
  <2>1. CASE n = 2
    BY <1>1, <1>3, <1>4, <2>1, VaultKeys
  <2>2. CASE n = 3
    BY <1>1, <1>3, <1>4, <2>2, VaultKeys
  <2> QED BY <2>1, <2>2
<1>6. leaf = o.routine
  <2>1. leaf = Leaf(o.routine.script, Root(o), 2)
    BY <1>1, <1>2, <1>5
  <2> QED BY <2>1, VaultTree
<1>7. scr = o.auth
  BY <1>4, <1>6, VaultKeys
<1> QED BY <1>6, <1>7

\* The outputs the script insists on.
LEMMA ScriptOuts ==
  ASSUME NEW p, NEW policy, ScriptOutputs(p, policy)
  PROVE  /\ Len(p.tx.outs) = 3
         /\ Extensions(p.tx) = {3}
         /\ IsWitnessProgram(p.tx.outs[1].script)
         /\ p.tx.outs[2].script = p.utxo.script
         /\ p.tx.outs[3].value = 0
         /\ IsExtension(p.tx.outs[3].script)
         /\ p.tx.outs[3].script.pad = 0
         /\ Len(p.tx.outs[3].script.packets) = 1
<1>1. /\ Len(p.tx.outs) = 3
      /\ Inspect(p.tx.outs[1].script).version >= 0
      /\ Inspect(p.tx.outs[2].script).version = 1
      /\ Inspect(p.tx.outs[2].script).of = Inspect(p.utxo.script).of
      /\ p.tx.outs[3].value = 0
      /\ ExactPacketOutput(p.tx, p.tx.outs[3].script)
  BY DEF ScriptOutputs
<1>2. \A s : Inspect(s).of = s
  BY DEF Inspect
<1>3. \A s : Inspect(s).version >= 0 => IsWitnessProgram(s) /\ ~IsExtension(s)
  BY DEF Inspect, IsWitnessProgram, IsExtension
<1>4. PICK pkt : /\ IsExtension(p.tx.outs[3].script) /\ p.tx.outs[3].script.pad = 0
                 /\ p.tx.outs[3].script.packets = <<pkt>>
  BY <1>1 DEF ExactPacketOutput
<1>5. ~IsExtension(p.tx.outs[1].script) /\ ~IsExtension(p.tx.outs[2].script)
      /\ IsWitnessProgram(p.tx.outs[1].script)
  BY <1>1, <1>3
<1>6. Extensions(p.tx) = {3}
  BY <1>1, <1>4, <1>5 DEF Extensions
<1> QED BY <1>1, <1>2, <1>4, <1>5, <1>6

\* What LocalSigner signs of a vault's coin, whichever vault is enrolled.
Signed(p, o, w) ==
    /\ RoutineForm(p.tx, p.tx.outs[1], p.tx.outs[2].value, o, w)
    /\ w = <<DirectItem(Challenge(p, o.routine))>>
    /\ p.leaves[1] = o.routine
    /\ p.tx.outs[1].value <= o.policy.cap
    /\ ScriptFee(p, o.policy)

LEMMA SignedForm ==
  ASSUME NEW o \in Ops, NEW en \in Ops, NEW p, PSBTShape(p), LocalSigns(p, en),
         p.utxo.script = o.pkScript
  PROVE  \E w : Signed(p, o, w)
<1> DEFINE leaf == p.leaves[1]
           pkt == p.tx.outs[3].script.packets[1]
<1>1. PICK e \in PacketEntry(p.tx) :
         /\ e.vin = 0
         /\ \E k \in 1 .. Len(leaf.script.keys) : leaf.script.keys[k] = Tweaked(en.vaultBase, e.script)
         /\ ScriptAccepts(p, e.script, leaf, e.witness)
  BY DEF LocalSigns
<1>2. TxShape(p.tx) /\ CommittedLeaf(o.pkScript, leaf)
  BY DEF PSBTShape, LocalSigns
<1>3. /\ p.tx.version = 2 /\ p.tx.locktime = 0 /\ p.tx.ins = 1 /\ p.tx.sequence = "final"
      /\ ScriptOutputs(p, e.script.policy) /\ ScriptFee(p, e.script.policy)
      /\ e.witness = <<DirectItem(Challenge(p, leaf))>>
  BY <1>1 DEF ScriptAccepts, DirectSigned
<1>4. /\ Len(p.tx.outs) = 3
      /\ Extensions(p.tx) = {3}
      /\ IsWitnessProgram(p.tx.outs[1].script)
      /\ p.tx.outs[2].script = o.pkScript
      /\ p.tx.outs[3].value = 0
      /\ IsExtension(p.tx.outs[3].script)
      /\ p.tx.outs[3].script.pad = 0
      /\ Len(p.tx.outs[3].script.packets) = 1
  BY <1>3, ScriptOuts
<1>5. pkt.type = 1 /\ Len(pkt.entries) = 1 /\ e = pkt.entries[1]
      /\ \A q \in FindEmulatorPacket(p.tx) : q = pkt
  BY <1>4, OnePacket
<1>6. PacketShape(pkt)
  <2>1. ScriptShape(p.tx.outs[3].script)
    <3>1. DOMAIN p.tx.outs = 1 .. 3 /\ \A i \in DOMAIN p.tx.outs : OutputShape(p.tx.outs[i])
      BY <1>2, <1>4, TupleOfThree DEF TxShape
    <3> QED BY <3>1 DEF OutputShape
  <2>2. IsTuple(p.tx.outs[3].script.packets)
        /\ \A i \in DOMAIN p.tx.outs[3].script.packets : PacketShape(p.tx.outs[3].script.packets[i])
    BY <1>4, <2>1 DEF ScriptShape
  <2>3. DOMAIN p.tx.outs[3].script.packets = 1 .. 1
    BY <1>4, <2>2, TupleOfOne
  <2> QED BY <2>2, <2>3
<1> HIDE DEF pkt
<1>7. EntryShape(e) /\ pkt.entries = <<e>> /\ pkt.pad \in Nat
  <2>1. IsTuple(pkt.entries) /\ (\A i \in DOMAIN pkt.entries : EntryShape(pkt.entries[i])) /\ pkt.pad \in Nat
    BY <1>6 DEF PacketShape
  <2>2. pkt.entries = <<pkt.entries[1]>> /\ DOMAIN pkt.entries = 1 .. 1
    BY <1>5, <2>1, TupleOfOne
  <2> QED BY <1>5, <2>1, <2>2
<1>8. leaf = o.routine /\ e.script = o.auth
  <2>1. e.script # NULL
    BY <1>7 DEF EntryShape
  <2>2. PICK scr : scr = e.script
    OBVIOUS
  <2>3. PICK k \in 1 .. Len(leaf.script.keys) : leaf.script.keys[k] = Tweaked(en.vaultBase, scr)
    BY <1>1, <2>2
  <2> HIDE DEF leaf
  <2>4. leaf = o.routine /\ scr = o.auth
    <3>1. scr # NULL /\ CommittedLeaf(o.pkScript, leaf)
      BY <1>2, <2>1, <2>2
    <3> QED BY <2>3, <3>1, SignedLeaf
  <2> QED BY <2>2, <2>4
<1>9. e = Entry(o, e.witness)
  BY <1>1, <1>7, <1>8 DEF EntryShape, Entry
<1>10. pkt.pad = 0
  <2>1. ContentLen(pkt) = ContentLen([type |-> 1, pad |-> 0,
            entries |-> <<[pkt.entries[1] EXCEPT !.witness = <<DirectItem(NULL)>>]>>])
    <3>1. ExactPacketOutput(p.tx, p.tx.outs[3].script)
      BY <1>3 DEF ScriptOutputs
    <3> QED BY <1>5, <3>1 DEF ExactPacketOutput
  <2>2. [pkt.entries[1] EXCEPT !.witness = <<DirectItem(NULL)>>] = Entry(o, <<DirectItem(NULL)>>)
    <3>1. [Entry(o, e.witness) EXCEPT !.witness = <<DirectItem(NULL)>>] = Entry(o, <<DirectItem(NULL)>>)
      BY DEF Entry
    <3> QED BY <1>5, <1>9, <3>1
  <2>3. PICK bare : bare = [type |-> 1, pad |-> 0, entries |-> <<Entry(o, <<DirectItem(NULL)>>)>>]
    OBVIOUS
  <2>4. ContentLen(pkt) = ContentLen(bare)
    BY <2>1, <2>2, <2>3
  <2>5. bare.entries = <<Entry(o, <<DirectItem(NULL)>>)>> /\ bare.pad = 0
    BY <2>3
  <2>6. WitnessLen(e.witness) = 66 /\ WitnessLen(<<DirectItem(NULL)>>) = 66
    BY <1>3, DirectLen
  <2>7. ContentLen(bare) = 1 + bare.pad + (2 + Prefixed(o.auth.len) + Prefixed(66))
    BY <2>5, <2>6, ContentOf
  <2>8. pkt.entries = <<Entry(o, e.witness)>>
    BY <1>7, <1>9
  <2>9. ContentLen(pkt) = 1 + pkt.pad + (2 + Prefixed(o.auth.len) + Prefixed(66))
    BY <1>7, <2>6, <2>8, ContentOf
  <2>10. Prefixed(o.auth.len) \in Nat /\ Prefixed(66) \in Nat
    BY VaultPolicy, PrefixedNat
  <2> QED BY <1>7, <2>4, <2>5, <2>7, <2>9, <2>10
<1>11. FormParts(p.tx, pkt, o)
  BY <1>1, <1>3, <1>4, <1>5, <1>8, <1>10 DEF FormParts, pkt
<1>12. /\ p.tx = RoutineTx(p.tx.outpoint, p.tx.outs[1], p.tx.outs[2].value, o, pkt.entries[1].witness)
       /\ OutputShape(p.tx.outs[1])
       /\ p.tx.outs[2].value \in Int
  BY <1>2, <1>11, FormFromParts
<1>13. e.script.policy = o.policy
  BY <1>8, VaultPolicy
<1>14. /\ p.tx.outs[1].value >= o.policy.dust /\ p.tx.outs[1].value <= o.policy.cap
       /\ p.tx.outs[2].value >= o.policy.dust /\ ScriptFee(p, o.policy)
  BY <1>3, <1>13 DEF ScriptOutputs
<1>15. RoutineForm(p.tx, p.tx.outs[1], p.tx.outs[2].value, o, e.witness)
  <2>1. EntryShape(Entry(o, e.witness))
    BY <1>7, <1>9, Zenon
  <2> QED BY <1>4, <1>5, <1>12, <1>14, <2>1 DEF RoutineForm
<1>16. Signed(p, o, e.witness)
  BY <1>3, <1>8, <1>14, <1>15 DEF Signed
<1> QED BY <1>16

LEMMA SignedBounds ==
  ASSUME NEW o \in Ops, NEW p, TxShape(p.tx), p.utxo.value \in Int, p.utxo.script = o.pkScript,
         NEW w, Signed(p, o, w)
  PROVE  /\ p.utxo.value - Returned(p) <= o.policy.cap + o.policy.feeCeiling
         /\ Returned(p) >= o.policy.dust
<1> DEFINE out == p.tx.outs[1]
           change == p.tx.outs[2].value
           s == [i \in 1 .. Len(p.tx.outs) |->
                    IF p.tx.outs[i].script = p.utxo.script THEN p.tx.outs[i].value ELSE 0]
<1>1. /\ RoutineForm(p.tx, out, change, o, w) /\ out.value <= o.policy.cap /\ ScriptFee(p, o.policy)
  BY DEF Signed
<1>2. out.value >= o.policy.dust /\ change >= o.policy.dust /\ change \in Int
  BY <1>1 DEF RoutineForm
<1>3. Len(p.tx.outs) = 3 /\ out.value \in Int /\ p.tx.outs[2].script = o.pkScript /\ p.tx.outs[3].value = 0
  BY <1>1, FormFacts
<1>4. p.utxo.value - out.value - change <= o.policy.feeCeiling
  BY <1>1 DEF ScriptFee
<1>5. Len(s) = 3 /\ s[1] \in {0, out.value} /\ s[2] = change /\ s[3] = 0
  BY <1>3
<1>6. Returned(p) = Total(s)
  BY DEF Returned
<1> HIDE DEF s, out, change
<1>7. s[1] \in Int /\ s[2] \in Int /\ s[3] \in Int
  BY <1>2, <1>3, <1>5
<1>8. Total(s) = s[1] + s[2] + s[3]
  BY <1>5, <1>7, TotalThree
<1>9. o.policy.dust \in Nat /\ o.policy.cap \in Nat /\ o.policy.feeCeiling \in Nat
  BY VaultPolicy
<1> QED BY <1>1, <1>2, <1>3, <1>4, <1>5, <1>6, <1>8, <1>9

\* The fee of a spend of the form is what the script takes it to be.
FeeAgrees(p, out, change, policy) ==
    /\ SpendFee(p) = p.utxo.value - out.value - change
    /\ SpendFee(p) \in Int
    /\ ScriptFee(p, policy) <=> /\ SpendFee(p) >= 0
                                /\ SpendFee(p) <= policy.feeCeiling
                                /\ SpendFee(p) <= policy.feerate * ScriptVBytes(p.tx)

LEMMA FormFee ==
  ASSUME NEW o \in Ops, NEW p, TxShape(p.tx), p.utxo.value \in Int,
         NEW out, NEW change, NEW w, RoutineForm(p.tx, out, change, o, w)
  PROVE  FeeAgrees(p, out, change, o.policy)
<1>1. /\ p.tx.outs[1] = out /\ p.tx.outs[2].value = change
      /\ out.value \in Int /\ OutSum(p.tx) = out.value + change
  BY FormFacts
<1>2. change \in Int
  BY DEF RoutineForm
<1>3. SpendFee(p) = p.utxo.value - out.value - change /\ SpendFee(p) \in Int
  BY <1>1, <1>2 DEF SpendFee
<1> QED BY <1>1, <1>3 DEF ScriptFee, FeeAgrees

\* A spend of the form has one output of each kind.
LEMMA FormClassified ==
  ASSUME NEW o \in Ops, NEW tx, TxShape(tx), NEW out, NEW change, NEW w,
         RoutineForm(tx, out, change, o, w),
         out.script # o.pkScript, out.script.kind # "p2a"
  PROVE  OutputsClassified(tx, o)
<1> DEFINE packets == Extensions(tx)
           changes == {i \in 1 .. Len(tx.outs) : IsChange(tx.outs[i], o)}
           recipients == {i \in 1 .. Len(tx.outs) : IsRecipient(tx.outs[i], o)}
<1>1. /\ Len(tx.outs) = 3 /\ tx.outs[1] = out /\ ~IsExtension(out.script)
      /\ tx.outs[2].value = change /\ tx.outs[2].script = o.pkScript
      /\ tx.outs[3].value = 0 /\ IsExtension(tx.outs[3].script)
      /\ tx.outs[3].script.pad = 0 /\ tx.outs[3].script.packets = <<Packet(o, w)>>
      /\ packets = {3} /\ PacketEntry(tx) = {Entry(o, w)}
  BY FormFacts
<1>2. ~IsExtension(o.pkScript)
  BY VaultTree DEF IsExtension
<1>3. tx.outs[3].script # o.pkScript
  BY <1>1, <1>2
<1>4. changes = {2}
  BY <1>1, <1>3 DEF IsChange
<1>5. recipients = {1}
  BY <1>1 DEF IsRecipient, IsChange
<1>6. PacketOutput(tx, 3, o)
  <2>1. Packet(o, w).type = 1 /\ Packet(o, w).pad = 0
    BY DEF Packet
  <2>2. Entry(o, w).vin = 0 /\ Entry(o, w).script = o.auth
    BY DEF Entry
  <2>3. Len(tx.outs[3].script.packets) = 1 /\ tx.outs[3].script.packets[1] = Packet(o, w)
    BY <1>1
  <2> QED BY <1>1, <2>1, <2>2, <2>3 DEF PacketOutput
<1>7. ChangeOutput(tx, 2, o)
  BY <1>1 DEF ChangeOutput, RoutineForm
<1>8. RecipientOutput(tx, 1, o)
  <2>1. IsWitnessProgram(out.script) /\ out.value >= o.policy.dust
    BY DEF RoutineForm
  <2>2. ~IsOpReturn(out.script)
    BY <2>1 DEF IsOpReturn, IsWitnessProgram
  <2> QED BY <1>1, <2>1, <2>2 DEF RecipientOutput
<1>9. /\ \A i \in packets : PacketOutput(tx, i, o)
      /\ \A i \in changes : ChangeOutput(tx, i, o)
      /\ \A i \in recipients : RecipientOutput(tx, i, o)
      /\ \A S \in {packets, changes, recipients} : \E i \in S : S = {i}
  BY <1>1, <1>4, <1>5, <1>6, <1>7, <1>8
<1> QED BY <1>9 DEF OutputsClassified

LEMMA SignedClassified ==
  ASSUME NEW o \in Ops, NEW en \in Ops, NEW p, PSBTShape(p), LocalSigns(p, en),
         p.utxo.script = o.pkScript, NEW w, Signed(p, o, w),
         p.tx.outs[1].script # o.pkScript, p.tx.outs[1].script.kind # "p2a",
         ~(Len(p.leaves) > 1), FeerateFits(p, o.policy)
  PROVE  classifySpend(p, o)
<1> DEFINE out == p.tx.outs[1]
           change == p.tx.outs[2].value
           rate == o.policy.feerate * ScriptVBytes(p.tx)
<1>1. /\ RequireVerifiedPrevout(p) /\ p.leaves # <<>> /\ p.sighash = "default" /\ MoneyRange(p.utxo.value)
  BY DEF LocalSigns
<1>2. TxShape(p.tx) /\ IsTuple(p.leaves)
  BY DEF PSBTShape
<1>3. /\ RoutineForm(p.tx, out, change, o, w) /\ p.leaves[1] = o.routine
      /\ out.value <= o.policy.cap /\ ScriptFee(p, o.policy)
  BY DEF Signed
<1>4. p.leaves = <<o.routine>>
  <2>1. Len(p.leaves) \in Nat /\ p.leaves = [i \in 1 .. Len(p.leaves) |-> p.leaves[i]]
    BY <1>2 DEF IsTuple
  <2>2. Len(p.leaves) # 0
    <3>1. SUFFICES ASSUME Len(p.leaves) = 0 PROVE FALSE
      OBVIOUS
    <3>2. p.leaves = [i \in 1 .. 0 |-> p.leaves[i]]
      BY <2>1, <3>1
    <3>3. [i \in 1 .. 0 |-> p.leaves[i]] = <<>>
      OBVIOUS
    <3> QED BY <1>1, <3>2, <3>3
  <2>3. Len(p.leaves) = 1
    <3>1. PICK n : n = Len(p.leaves)
      OBVIOUS
    <3>2. n \in Nat /\ n # 0 /\ ~(n > 1)
      BY <2>1, <2>2, <3>1
    <3>3. n = 1
      BY <3>2
    <3> QED BY <3>1, <3>3
  <2> QED BY <1>2, <1>3, <2>3, TupleOfOne
<1>5. OutputsClassified(p.tx, o)
  BY <1>2, <1>3, FormClassified
<1>6. /\ p.tx.version = 2 /\ p.tx.locktime = 0 /\ p.tx.sequence = "final"
      /\ Len(p.tx.outs) = 3 /\ p.tx.outs[3].value = 0
      /\ out.value \in Int /\ OutSum(p.tx) = out.value + change /\ StrippedSize(p.tx) \in Nat
  BY <1>2, <1>3, FormFacts
<1>7. p.utxo.value \in Int /\ p.utxo.value <= MaxSatoshi /\ MaxSatoshi \in Nat /\ MaxInt64 \in Nat
      /\ 3 * MaxSatoshi <= MaxInt64
  BY <1>1, MoneyAssumption DEF MoneyRange
<1>8. /\ SpendFee(p) = p.utxo.value - out.value - change /\ SpendFee(p) \in Int
      /\ SpendFee(p) >= 0 /\ SpendFee(p) <= o.policy.feeCeiling /\ SpendFee(p) <= rate
  <2>1. FeeAgrees(p, out, change, o.policy)
    <3>1. p.utxo.value \in Int
      BY <1>7
    <3> QED BY <1>2, <1>3, <3>1, FormFee
  <2> QED BY <1>3, <2>1 DEF FeeAgrees
<1>9. out.value >= 0 /\ change >= 0 /\ change \in Int
  BY <1>3, <1>6, VaultPolicy DEF RoutineForm
<1>10. out.value <= MaxSatoshi /\ change <= MaxSatoshi
  <2> HIDE DEF out, change
  <2> QED BY <1>6, <1>7, <1>8, <1>9
<1>11. OutSum(p.tx) <= MaxInt64
  <2> HIDE DEF out, change
  <2> QED BY <1>6, <1>7, <1>9, <1>10
<1>12. \A i \in 1 .. Len(p.tx.outs) : MoneyRange(p.tx.outs[i].value)
  <2>1. MoneyRange(out.value) /\ MoneyRange(change) /\ MoneyRange(0)
    BY <1>6, <1>7, <1>9, <1>10 DEF MoneyRange
  <2> QED BY <1>6, <2>1
<1>13. classify(p, o)
  BY <1>1, <1>4, <1>5, <1>6, <1>8, <1>11, <1>12 DEF classify
<1>14. Int64(rate) = rate
  <2>1. rate \in Nat /\ rate <= MaxInt64
    BY <1>6, VBytesProduct DEF FeerateFits
  <2> HIDE DEF rate
  <2> QED BY <1>7, <2>1, Int64Fits
<1>15. enforceStaticPolicy(p, o)
  <2>1. estimatedVBytes(p.tx, o) = ScriptVBytes(p.tx)
    BY <1>6, VBytesAgree
  <2> QED BY <1>3, <1>8, <1>14, <2>1 DEF enforceStaticPolicy
<1> QED BY <1>13, <1>15 DEF classifySpend

-----------------------------------------------------------------------------
(***************************************************************************)
(* Writing the packet witness.                                             *)
(***************************************************************************)
\* What a signature is written into still decodes.
LEMMA DirectTuple ==
  ASSUME NEW c
  PROVE  /\ IsTuple(<<DirectItem(c)>>)
         /\ \A i \in DOMAIN <<DirectItem(c)>> : <<DirectItem(c)>>[i].len \in Nat
<1>1. Len(<<DirectItem(c)>>) = 1 /\ <<DirectItem(c)>>[1] = DirectItem(c) /\ DOMAIN <<DirectItem(c)>> = 1 .. 1
  OBVIOUS
<1>2. DirectItem(c).len = 64
  BY DEF DirectItem
<1>3. <<DirectItem(c)>> = [i \in 1 .. Len(<<DirectItem(c)>>) |-> <<DirectItem(c)>>[i]]
  BY <1>1
<1> QED BY <1>1, <1>2, <1>3 DEF IsTuple

LEMMA SingletonTuple ==
  ASSUME NEW x
  PROVE  IsTuple(<<x>>) /\ DOMAIN <<x>> = 1 .. 1 /\ <<x>>[1] = x
<1>1. Len(<<x>>) = 1 /\ <<x>>[1] = x /\ DOMAIN <<x>> = 1 .. 1
  OBVIOUS
<1>2. <<x>> = [i \in 1 .. Len(<<x>>) |-> <<x>>[i]]
  BY <1>1
<1> QED BY <1>1, <1>2 DEF IsTuple

LEMMA EntryWritten ==
  ASSUME NEW e, EntryShape(e), NEW w, IsTuple(w), \A i \in DOMAIN w : w[i].len \in Nat
  PROVE  EntryShape([vin |-> e.vin, script |-> e.script, witness |-> w])
<1>1. PICK f : f = [vin |-> e.vin, script |-> e.script, witness |-> w]
  OBVIOUS
<1>2. f.vin = e.vin /\ f.script = e.script /\ f.witness = w
  BY <1>1
<1>3. f = [vin |-> f.vin, script |-> f.script, witness |-> f.witness]
  BY <1>1, <1>2
<1>4. e.script # NULL /\ e.script.len \in Nat
  BY DEF EntryShape
<1>5. EntryShape(f)
  BY <1>2, <1>3, <1>4 DEF EntryShape
<1> QED BY <1>1, <1>5

LEMMA PacketWritten ==
  ASSUME NEW e, EntryShape(e)
  PROVE  PacketShape([type |-> 1, pad |-> 0, entries |-> <<e>>])
<1>1. PICK k : k = [type |-> 1, pad |-> 0, entries |-> <<e>>]
  OBVIOUS
<1>2. k.type = 1 /\ k.pad = 0 /\ k.entries = <<e>>
  BY <1>1
<1>3. k = [type |-> k.type, pad |-> k.pad, entries |-> k.entries]
  BY <1>1, <1>2
<1>4. IsTuple(k.entries) /\ \A i \in DOMAIN k.entries : EntryShape(k.entries[i])
  BY <1>2, SingletonTuple
<1>5. PacketShape(k)
  BY <1>2, <1>3, <1>4 DEF PacketShape
<1> QED BY <1>1, <1>5

LEMMA ExtensionWritten ==
  ASSUME NEW pkt, PacketShape(pkt)
  PROVE  ScriptShape([kind |-> "extension", pad |-> 0, packets |-> <<pkt>>])
<1>1. PICK s : s = [kind |-> "extension", pad |-> 0, packets |-> <<pkt>>]
  OBVIOUS
<1>2. s.kind = "extension" /\ s.pad = 0 /\ s.packets = <<pkt>>
  BY <1>1
<1>3. s = [kind |-> s.kind, pad |-> s.pad, packets |-> s.packets]
  BY <1>1, <1>2
<1>4. IsTuple(s.packets) /\ \A i \in DOMAIN s.packets : PacketShape(s.packets[i])
  BY <1>2, SingletonTuple
<1>5. ScriptShape(s)
  BY <1>2, <1>3, <1>4 DEF ScriptShape, IsExtension
<1> QED BY <1>1, <1>5

LEMMA OutputWritten ==
  ASSUME NEW v, v \in Int, NEW s, ScriptShape(s)
  PROVE  OutputShape(Output(v, s))
<1>1. PICK x : x = Output(v, s)
  OBVIOUS
<1>2. x.value = v /\ x.script = s /\ x = [value |-> x.value, script |-> x.script]
  BY <1>1 DEF Output
<1>3. OutputShape(x)
  BY <1>2 DEF OutputShape
<1> QED BY <1>1, <1>3

LEMMA PacketOutputWritten ==
  ASSUME NEW e, EntryShape(e), NEW w, IsTuple(w), \A i \in DOMAIN w : w[i].len \in Nat
  PROVE  OutputShape(Output(0, PacketScript(e.vin, e.script, w)))
<1>1. PICK f : f = [vin |-> e.vin, script |-> e.script, witness |-> w]
  OBVIOUS
<1>2. EntryShape(f)
  BY <1>1, EntryWritten
<1>3. PICK k : k = [type |-> 1, pad |-> 0, entries |-> <<f>>]
  OBVIOUS
<1>4. PacketShape(k)
  BY <1>2, <1>3, PacketWritten
<1>5. PICK s : s = [kind |-> "extension", pad |-> 0, packets |-> <<k>>]
  OBVIOUS
<1>6. ScriptShape(s)
  BY <1>4, <1>5, ExtensionWritten
<1>7. s = PacketScript(e.vin, e.script, w)
  BY <1>1, <1>3, <1>5 DEF PacketScript
<1>8. 0 \in Int
  OBVIOUS
<1> QED BY <1>6, <1>7, <1>8, OutputWritten

LEMMA FirstIsMember ==
  ASSUME NEW S \in SUBSET Nat, S # {}
  PROVE  FirstOf(S) \in S
<1>1. \E i \in S : \A j \in S : i <= j
  BY LeastNumber
<1> QED BY <1>1 DEF FirstOf

\* A tuple with one place written again.
LEMMA TupleExcept ==
  ASSUME NEW s, IsTuple(s), NEW k \in 1 .. Len(s), NEW x,
         NEW t, t = [s EXCEPT ![k] = x]
  PROVE  /\ IsTuple(t) /\ Len(t) = Len(s) /\ DOMAIN t = DOMAIN s /\ t[k] = x
         /\ \A i \in DOMAIN s : i # k => t[i] = s[i]
<1>1. PICK n \in Nat : n = Len(s)
  BY DEF IsTuple
<1>2. s = [i \in 1 .. n |-> s[i]]
  BY <1>1 DEF IsTuple
<1>3. DOMAIN s = 1 .. n /\ k \in 1 .. n
  BY <1>1, <1>2
<1>4. t = [i \in 1 .. n |-> IF i = k THEN x ELSE s[i]]
  BY <1>2, <1>3
<1>5. Len(t) = n
  BY <1>4
<1>6. t = [i \in 1 .. n |-> t[i]]
  BY <1>4
<1>7. IsTuple(t)
  BY <1>5, <1>6 DEF IsTuple
<1> QED BY <1>1, <1>3, <1>4, <1>5, <1>7

\* The entry that a witness is written to comes from the PSBT.
LEMMA EntryFound ==
  ASSUME NEW tx, TxShape(tx), NEW e, e \in PacketEntry(tx)
  PROVE  EntryShape(e) /\ FirstOf(Extensions(tx)) \in 1 .. Len(tx.outs)
<1> DEFINE k == FirstOf(Extensions(tx))
<1>1. IsTuple(tx.outs) /\ \A i \in DOMAIN tx.outs : OutputShape(tx.outs[i])
  BY DEF TxShape
<1>2. Len(tx.outs) \in Nat /\ DOMAIN tx.outs = 1 .. Len(tx.outs)
  <2>1. Len(tx.outs) \in Nat /\ tx.outs = [i \in 1 .. Len(tx.outs) |-> tx.outs[i]]
    BY <1>1 DEF IsTuple
  <2> QED BY <2>1
<1>3. PICK pkt \in FindEmulatorPacket(tx) : Len(pkt.entries) = 1 /\ e = pkt.entries[1]
  BY DEF PacketEntry
<1>4. Extensions(tx) # {}
  BY <1>3 DEF FindEmulatorPacket
<1>5. Extensions(tx) \subseteq 1 .. Len(tx.outs)
  BY DEF Extensions
<1>6. Extensions(tx) \in SUBSET Nat
  BY <1>2, <1>5
<1>7. k \in Extensions(tx)
  BY <1>4, <1>6, FirstIsMember
<1>8. k \in 1 .. Len(tx.outs) /\ IsExtension(tx.outs[k].script)
  BY <1>7 DEF Extensions
<1> HIDE DEF k
<1>9. pkt \in {tx.outs[k].script.packets[i] : i \in EmulatorPackets(tx.outs[k].script)}
  BY <1>3, <1>4 DEF FindEmulatorPacket, k
<1>10. PICK s : s = tx.outs[k].script
  OBVIOUS
<1>11. PICK i \in 1 .. Len(s.packets) : pkt = s.packets[i]
  BY <1>9, <1>10 DEF EmulatorPackets
<1>12. OutputShape(tx.outs[k])
  BY <1>1, <1>2, <1>8
<1>13. ScriptShape(s) /\ IsExtension(s)
  BY <1>8, <1>10, <1>12 DEF OutputShape
<1>14. IsTuple(s.packets) /\ \A j \in DOMAIN s.packets : PacketShape(s.packets[j])
  BY <1>13 DEF ScriptShape
<1>15. DOMAIN s.packets = 1 .. Len(s.packets)
  <2>1. Len(s.packets) \in Nat /\ s.packets = [j \in 1 .. Len(s.packets) |-> s.packets[j]]
    BY <1>14 DEF IsTuple
  <2> QED BY <2>1
<1>16. PacketShape(pkt)
  BY <1>11, <1>14, <1>15
<1>17. IsTuple(pkt.entries) /\ \A j \in DOMAIN pkt.entries : EntryShape(pkt.entries[j])
  BY <1>16 DEF PacketShape
<1>18. EntryShape(e)
  BY <1>3, <1>17, TupleOfOne
<1> QED BY <1>8, <1>18 DEF k

LEMMA WitnessWritten ==
  ASSUME NEW tx, TxShape(tx), NEW w, IsTuple(w), \A i \in DOMAIN w : w[i].len \in Nat,
         NEW tx2, tx2 \in SetPacketWitness(tx, w)
  PROVE  TxShape(tx2)
<1>1. PICK e \in PacketEntry(tx) :
        tx2 = [tx EXCEPT !.outs[FirstOf(Extensions(tx))] =
                             Output(0, PacketScript(e.vin, e.script, w))]
  BY DEF SetPacketWitness
<1>2. PICK k : k = FirstOf(Extensions(tx))
  OBVIOUS
<1>3. PICK x : x = Output(0, PacketScript(e.vin, e.script, w))
  OBVIOUS
<1>4. tx2 = [tx EXCEPT !.outs[k] = x]
  BY <1>1, <1>2, <1>3
<1>5. EntryShape(e) /\ k \in 1 .. Len(tx.outs)
  BY <1>2, EntryFound
<1>6. OutputShape(x)
  BY <1>3, <1>5, PacketOutputWritten
<1>7. /\ tx = [version |-> tx.version, locktime |-> tx.locktime, ins |-> tx.ins,
               outpoint |-> tx.outpoint, sequence |-> tx.sequence, outs |-> tx.outs]
      /\ IsTuple(tx.outs) /\ \A i \in DOMAIN tx.outs : OutputShape(tx.outs[i])
  BY DEF TxShape
<1>8. PICK t : t = [tx.outs EXCEPT ![k] = x]
  OBVIOUS
<1>9. tx2 = [tx EXCEPT !.outs = t]
  BY <1>4, <1>8
<1>10. tx2 = [version |-> tx.version, locktime |-> tx.locktime, ins |-> tx.ins,
              outpoint |-> tx.outpoint, sequence |-> tx.sequence, outs |-> t]
  BY <1>7, <1>9
<1>11. /\ IsTuple(t) /\ DOMAIN t = DOMAIN tx.outs /\ t[k] = x
       /\ \A i \in DOMAIN tx.outs : i # k => t[i] = tx.outs[i]
  BY <1>5, <1>7, <1>8, TupleExcept
<1>12. \A i \in DOMAIN t : OutputShape(t[i])
  BY <1>6, <1>7, <1>11
<1> QED BY <1>10, <1>11, <1>12 DEF TxShape

LEMMA PSBTWritten ==
  ASSUME NEW p, PSBTShape(p), NEW tx2, TxShape(tx2), NEW q, q = [p EXCEPT !.tx = tx2]
  PROVE  /\ PSBTShape(q)
         /\ q.tx = tx2 /\ q.utxo = p.utxo /\ q.sighash = p.sighash /\ q.leaves = p.leaves
         /\ q.prevs = p.prevs /\ q.final = p.final
<1>1. p = [tx |-> p.tx, utxo |-> p.utxo, sighash |-> p.sighash, leaves |-> p.leaves,
           prevs |-> p.prevs, final |-> p.final]
      /\ p.final \in BOOLEAN
      /\ (p.utxo # NULL => OutputShape(p.utxo)) /\ IsTuple(p.leaves)
  BY DEF PSBTShape
<1>2. q = [tx |-> tx2, utxo |-> p.utxo, sighash |-> p.sighash, leaves |-> p.leaves,
           prevs |-> p.prevs, final |-> p.final]
  BY <1>1
<1>3. q.tx = tx2 /\ q.utxo = p.utxo /\ q.sighash = p.sighash /\ q.leaves = p.leaves
      /\ q.prevs = p.prevs /\ q.final = p.final
  BY <1>2
<1> QED BY <1>1, <1>2, <1>3 DEF PSBTShape

\* The encoding of a PSBT is the PSBT itself, or it has lost its leaves.
LEMMA EncodedParts ==
  ASSUME NEW p, PSBTShape(p), NEW q, q = Encoded(p)
  PROVE  /\ PSBTShape(q) /\ q.tx = p.tx /\ q.utxo = p.utxo
         /\ ~p.final => q = p
         /\ p.final => q.leaves = <<>>
<1>1. CASE ~p.final
  BY <1>1 DEF Encoded
<1>2. CASE p.final
  <2>1. p = [tx |-> p.tx, utxo |-> p.utxo, sighash |-> p.sighash, leaves |-> p.leaves,
             prevs |-> p.prevs, final |-> p.final]
        /\ p.final \in BOOLEAN /\ TxShape(p.tx) /\ (p.utxo # NULL => OutputShape(p.utxo))
    BY DEF PSBTShape
  <2>2. q = [p EXCEPT !.leaves = <<>>, !.sighash = "default"]
    BY <1>2 DEF Encoded
  <2>3. q = [tx |-> p.tx, utxo |-> p.utxo, sighash |-> "default", leaves |-> <<>>,
             prevs |-> p.prevs, final |-> p.final]
    BY <2>1, <2>2
  <2>4. /\ q.tx = p.tx /\ q.utxo = p.utxo /\ q.sighash = "default" /\ q.leaves = <<>>
        /\ q.prevs = p.prevs /\ q.final = p.final
    BY <2>3
  <2>5. IsTuple(<<>>)
    BY DEF IsTuple
  <2> QED BY <1>2, <2>1, <2>3, <2>4, <2>5 DEF PSBTShape
<1> QED BY <1>1, <1>2

\* The answer of Bind is the same spend with the signature in the packet.
LEMMA FormWritten ==
  ASSUME NEW o \in Ops, NEW tx, TxShape(tx), NEW out, NEW change, NEW w,
         RoutineForm(tx, out, change, o, w), NEW c,
         NEW tx2, tx2 \in SetPacketWitness(tx, <<DirectItem(c)>>)
  PROVE  /\ TxShape(tx2)
         /\ tx2.outpoint = tx.outpoint
         /\ RoutineForm(tx2, out, change, o, <<DirectItem(c)>>)
<1>1. PICK v : v = <<DirectItem(c)>>
  OBVIOUS
<1>2. IsTuple(v) /\ \A i \in DOMAIN v : v[i].len \in Nat
  BY <1>1, DirectTuple
<1>3. tx2 \in SetPacketWitness(tx, v)
  BY <1>1
<1>4. TxShape(tx2)
  BY <1>2, <1>3, WitnessWritten
<1>5. PICK outpoint : outpoint = tx.outpoint
  OBVIOUS
<1>6. tx = RoutineTx(outpoint, out, change, o, w)
  BY <1>5 DEF RoutineForm
<1>7. ~IsExtension(out.script)
  BY DEF RoutineForm, IsExtension, IsWitnessProgram
<1>8. FirstOf(Extensions(tx)) = 3 /\ PacketEntry(tx) = {Entry(o, w)}
  BY <1>6, <1>7, RoutinePacket
<1>9. tx2 = [tx EXCEPT !.outs[3] = Output(0, PacketScript(0, o.auth, v))]
  BY <1>3, <1>8 DEF SetPacketWitness, Entry
<1>10. tx2 = RoutineTx(outpoint, out, change, o, v)
  <2>1. PICK x : x = Output(0, PacketScript(0, o.auth, v))
    OBVIOUS
  <2>2. tx.outs = RoutineOuts(out, change, o, w)
    BY <1>6 DEF RoutineTx, NewTx
  <2>3. \A a, b, d : [<<a, b, d>> EXCEPT ![3] = x] = <<a, b, x>>
    OBVIOUS
  <2>4. [tx.outs EXCEPT ![3] = x] = RoutineOuts(out, change, o, v)
    BY <2>1, <2>2, <2>3 DEF RoutineOuts
  <2>5. tx2 = [tx EXCEPT !.outs = [tx.outs EXCEPT ![3] = x]]
    BY <1>9, <2>1
  <2>6. tx2 = [tx EXCEPT !.outs = RoutineOuts(out, change, o, v)]
    BY <2>4, <2>5
  <2> QED BY <1>6, <2>6 DEF RoutineTx, NewTx
<1>11. tx2.outpoint = outpoint /\ tx2.outs[1] = out
  <2>1. tx2.outpoint = outpoint /\ tx2.outs = RoutineOuts(out, change, o, v)
    BY <1>10 DEF RoutineTx, NewTx
  <2>2. RoutineOuts(out, change, o, v)[1] = out
    BY DEF RoutineOuts
  <2> QED BY <2>1, <2>2
<1>12. EntryShape(Entry(o, v))
  <2>1. PICK e : e = Entry(o, w)
    OBVIOUS
  <2>2. EntryShape(e)
    BY <2>1 DEF RoutineForm
  <2>3. e.vin = 0 /\ e.script = o.auth
    BY <2>1 DEF Entry
  <2>4. EntryShape([vin |-> e.vin, script |-> e.script, witness |-> v])
    BY <1>2, <2>2, EntryWritten
  <2> QED BY <2>3, <2>4 DEF Entry
<1>13. RoutineForm(tx2, out, change, o, v)
  BY <1>10, <1>11, <1>12 DEF RoutineForm
<1> QED BY <1>1, <1>4, <1>5, <1>11, <1>13

LEMMA ProductGrows ==
  ASSUME NEW r \in Nat, NEW a \in Nat, NEW b \in Nat, a <= b
  PROVE  r * a <= r * b
<1>1. PICK d \in Nat : b = a + d
  <2>1. b - a \in Nat /\ b = a + (b - a)
    OBVIOUS
  <2> QED BY <2>1
<1>2. r * b = r * a + r * d
  BY <1>1
<1>3. r * d \in Nat /\ r * a \in Nat
  OBVIOUS
<1>4. PICK x, y \in Nat : x = r * a /\ y = r * d
  BY <1>3
<1> QED BY <1>2, <1>4

\* What Bind was given and what it encodes for its answer.
Answers(q, p, o) ==
    /\ PSBTShape(p) /\ classifySpend(p, o)
    /\ \E tx \in SetPacketWitness(p.tx, <<DirectItem(Challenge(p, o.routine))>>) :
          q = [p EXCEPT !.tx = tx]

\* The parts of an answer.
Rewritten(q, p, o, c) ==
    /\ PSBTShape(q)
    /\ q.utxo = p.utxo /\ q.sighash = p.sighash /\ q.leaves = p.leaves /\ q.prevs = p.prevs
    /\ q.final = p.final
    /\ q.tx.outpoint = p.tx.outpoint /\ p.tx.ins = 1 /\ q.tx.ins = 1
    /\ q.tx.outs[1] = p.tx.outs[1] /\ q.tx.outs[2].value = p.tx.outs[2].value
    /\ OutSum(q.tx) = OutSum(p.tx)
    /\ RoutineForm(q.tx, q.tx.outs[1], q.tx.outs[2].value, o, <<DirectItem(c)>>)
    /\ q.tx.outs[1].script # o.pkScript /\ q.tx.outs[1].script.kind # "p2a"
    /\ Challenge(q, o.routine) = c

LEMMA AnswerRewritten ==
  ASSUME NEW o \in Ops, NEW p, NEW q, Answers(q, p, o)
  PROVE  Rewritten(q, p, o, Challenge(p, o.routine))
<1>1. PICK c : c = Challenge(p, o.routine)
  OBVIOUS
<1>2. PSBTShape(p) /\ classify(p, o)
  BY DEF Answers, classifySpend
<1>3. PICK tx \in SetPacketWitness(p.tx, <<DirectItem(c)>>) : q = [p EXCEPT !.tx = tx]
  BY <1>1 DEF Answers
<1>4. TxShape(p.tx)
  BY <1>2 DEF PSBTShape
<1>5. PICK out, change : out = p.tx.outs[1] /\ change = p.tx.outs[2].value
  OBVIOUS
<1>6. PICK w : RoutineForm(p.tx, out, change, o, w) /\ out.script # o.pkScript
  <2>1. \E w : /\ RoutineForm(p.tx, p.tx.outs[1], p.tx.outs[2].value, o, w)
               /\ p.tx.outs[1].script # o.pkScript
    BY <1>2, ClassifiedForm
  <2> QED BY <1>5, <2>1
<1>7. out.script.kind # "p2a"
  <2>1. RecipientOutput(p.tx, 1, o)
    BY <1>2, OutputKinds
  <2> QED BY <1>5, <2>1 DEF RecipientOutput
<1>8. PICK v : v = <<DirectItem(c)>>
  OBVIOUS
<1>9. TxShape(tx) /\ tx.outpoint = p.tx.outpoint /\ RoutineForm(tx, out, change, o, v)
  BY <1>3, <1>4, <1>6, <1>8, FormWritten
<1>10. PSBTShape(q) /\ q.tx = tx /\ q.utxo = p.utxo /\ q.sighash = p.sighash /\ q.leaves = p.leaves
       /\ q.prevs = p.prevs /\ q.final = p.final
  BY <1>2, <1>3, <1>9, PSBTWritten
<1>11. p.tx.ins = 1 /\ OutSum(p.tx) = out.value + change
  BY <1>4, <1>6, FormFacts
<1>12. tx.ins = 1 /\ OutSum(tx) = out.value + change /\ tx.outs[1] = out /\ tx.outs[2].value = change
  BY <1>9, FormFacts
<1>13. Challenge(q, o.routine) = c
  <2>1. PICK outpoint : outpoint = p.tx.outpoint
    OBVIOUS
  <2>2. p.tx = RoutineTx(outpoint, out, change, o, w) /\ q.tx = RoutineTx(outpoint, out, change, o, v)
    BY <1>6, <1>9, <1>10, <2>1 DEF RoutineForm
  <2>3. ~IsExtension(out.script)
    BY <1>6 DEF RoutineForm, IsExtension, IsWitnessProgram
  <2>4. PICK leaf : leaf = o.routine
    OBVIOUS
  <2>5. Challenge(p, leaf) =
            [tx |-> RoutineTx(outpoint, out, change, o, <<>>), utxo |-> p.utxo, leaf |-> leaf]
    BY <2>2, <2>3, RoutineChallenge
  <2>6. Challenge(q, leaf) =
            [tx |-> RoutineTx(outpoint, out, change, o, <<>>), utxo |-> q.utxo, leaf |-> leaf]
    BY <2>2, <2>3, RoutineChallenge
  <2> QED BY <1>1, <1>10, <2>4, <2>5, <2>6
<1>14. Rewritten(q, p, o, c)
  BY <1>5, <1>6, <1>7, <1>8, <1>9, <1>10, <1>11, <1>12, <1>13 DEF Rewritten
<1> QED BY <1>1, <1>14

\* It passes the classifier again when it is no smaller than what came in and
\* the product with the fee rate fits.
LEMMA AnswerClassified ==
  ASSUME NEW o \in Ops, NEW p, NEW q, Answers(q, p, o),
         FeerateFits(q, o.policy), StrippedSize(p.tx) <= StrippedSize(q.tx)
  PROVE  Authorizable(q, o) /\ Challenge(q, o.routine) = Challenge(p, o.routine)
<1>1. PICK c : c = Challenge(p, o.routine)
  OBVIOUS
<1>2. Rewritten(q, p, o, c)
  BY <1>1, AnswerRewritten
<1>3. PSBTShape(p) /\ classify(p, o) /\ enforceStaticPolicy(p, o)
  BY DEF Answers, classifySpend
<1>4. PICK out, change, v : out = q.tx.outs[1] /\ change = q.tx.outs[2].value /\ v = <<DirectItem(c)>>
  OBVIOUS
<1>5. /\ PSBTShape(q)
      /\ q.utxo = p.utxo /\ q.sighash = p.sighash /\ q.leaves = p.leaves /\ q.prevs = p.prevs
      /\ q.tx.outpoint = p.tx.outpoint /\ p.tx.ins = 1 /\ q.tx.ins = 1
      /\ out = p.tx.outs[1] /\ change = p.tx.outs[2].value
      /\ OutSum(q.tx) = OutSum(p.tx)
      /\ RoutineForm(q.tx, out, change, o, v)
      /\ out.script # o.pkScript /\ out.script.kind # "p2a"
      /\ Challenge(q, o.routine) = c
  BY <1>2, <1>4 DEF Rewritten
<1>6. TxShape(p.tx) /\ TxShape(q.tx)
  BY <1>3, <1>5 DEF PSBTShape
<1>7. /\ q.tx.version = 2 /\ q.tx.locktime = 0 /\ q.tx.sequence = "final"
      /\ Len(q.tx.outs) = 3 /\ q.tx.outs[1] = out /\ q.tx.outs[2].value = change
      /\ q.tx.outs[3].value = 0 /\ PacketEntry(q.tx) = {Entry(o, v)}
      /\ StrippedSize(q.tx) \in Nat
  BY <1>5, <1>6, FormFacts
<1>8. StrippedSize(p.tx) \in Nat
  BY <1>5, <1>6, SizeNat
<1>9. /\ RequireVerifiedPrevout(p) /\ p.sighash = "default" /\ p.utxo.script = o.pkScript
      /\ MoneyRange(p.utxo.value) /\ p.leaves = <<o.routine>>
      /\ \A i \in 1 .. Len(p.tx.outs) : MoneyRange(p.tx.outs[i].value)
      /\ OutSum(p.tx) <= MaxInt64 /\ SpendFee(p) >= 0
  BY <1>3 DEF classify
<1>10. RequireVerifiedPrevout(q)
  BY <1>5, <1>9 DEF RequireVerifiedPrevout
<1>11. OutputsClassified(q.tx, o)
  BY <1>5, <1>6, FormClassified
<1>12. \A i \in 1 .. Len(q.tx.outs) : MoneyRange(q.tx.outs[i].value)
  <2>1. Len(p.tx.outs) = 3
    BY <1>3, OutputKinds
  <2>2. MoneyRange(out.value) /\ MoneyRange(change)
    BY <1>5, <1>9, <2>1
  <2>3. MoneyRange(0)
    BY MoneyAssumption DEF MoneyRange
  <2> QED BY <1>7, <2>2, <2>3
<1>13. SpendFee(q) = SpendFee(p)
  BY <1>5 DEF SpendFee
<1>14. classify(q, o)
  BY <1>5, <1>7, <1>9, <1>10, <1>11, <1>12, <1>13 DEF classify
<1>15. SpendFee(p) \in Int
  <2>1. out.value \in Int /\ OutSum(q.tx) = out.value + change
    BY <1>5, <1>6, FormFacts
  <2>2. change \in Int
    BY <1>5 DEF RoutineForm
  <2>3. p.utxo.value \in Int
    BY <1>9, MoneyAssumption DEF MoneyRange
  <2> QED BY <1>5, <2>1, <2>2, <2>3 DEF SpendFee
<1>16. PICK rate, a, b : rate = o.policy.feerate /\ a = ScriptVBytes(p.tx) /\ b = ScriptVBytes(q.tx)
  OBVIOUS
<1>17. estimatedVBytes(p.tx, o) = a /\ a \in Nat /\ estimatedVBytes(q.tx, o) = b /\ b \in Nat
  BY <1>7, <1>8, <1>16, VBytesAgree
<1>18. a <= b
  BY <1>7, <1>8, <1>16 DEF ScriptVBytes, RoutineWitnessBytes
<1>19. rate \in Nat
  BY <1>16, VaultPolicy
<1>20. rate * a \in Nat /\ rate * b \in Nat /\ rate * a <= rate * b
  BY <1>17, <1>18, <1>19, ProductGrows
<1>21. PICK x, y : x = rate * a /\ y = rate * b
  OBVIOUS
<1>22. x \in Nat /\ y \in Nat /\ x <= y
  BY <1>20, <1>21
<1>23. y <= MaxInt64
  BY <1>16, <1>21 DEF FeerateFits
<1>24. Int64(x) \in Int /\ Int64(x) <= x
  BY <1>22, Int64Below
<1>25. Int64(y) = y
  <2>1. y \in 0 .. MaxInt64
    BY <1>22, <1>23, MoneyAssumption
  <2> QED BY <2>1, Int64Fits
<1>26. p.tx.outs[1].value <= o.policy.cap /\ SpendFee(p) <= o.policy.feeCeiling /\ SpendFee(p) <= Int64(x)
  BY <1>3, <1>16, <1>17, <1>21 DEF enforceStaticPolicy
<1>27. SpendFee(p) <= Int64(y)
  BY <1>15, <1>22, <1>24, <1>25, <1>26
<1>28. enforceStaticPolicy(q, o)
  BY <1>5, <1>7, <1>13, <1>16, <1>17, <1>21, <1>26, <1>27 DEF enforceStaticPolicy
<1>29. DirectSigned(Entry(o, v).witness, Challenge(q, o.routine))
  BY <1>4, <1>5 DEF DirectSigned, Entry
<1> QED BY <1>1, <1>5, <1>7, <1>14, <1>28, <1>29 DEF Authorizable, classifySpend

-----------------------------------------------------------------------------
(***************************************************************************)
(* One challenge, one spend.                                               *)
(***************************************************************************)
LEMMA RoutineUnwitnessed ==
  ASSUME NEW o \in Ops, NEW outpoint, NEW out, NEW change, NEW w, ~IsExtension(out.script),
         NEW tx, tx = RoutineTx(outpoint, out, change, o, w)
  PROVE  Unwitnessed(tx) = RoutineTx(outpoint, out, change, o, <<>>)
<1>1. /\ tx.outs = RoutineOuts(out, change, o, w) /\ Len(tx.outs) = 3
      /\ tx.outs[3].script = [kind |-> "extension", pad |-> 0, packets |-> <<Packet(o, w)>>]
      /\ Extensions(tx) = {3}
  BY RoutineFields, RoutinePacket
<1>2. [Entry(o, w) EXCEPT !.witness = <<>>] = Entry(o, <<>>)
  BY DEF Entry
<1>3. Unsigned(Packet(o, w)) = Packet(o, <<>>)
  <2>1. [i \in 1 .. 1 |-> [<<Entry(o, w)>>[i] EXCEPT !.witness = <<>>]] = <<Entry(o, <<>>)>>
    BY <1>2
  <2>2. Packet(o, w).entries = <<Entry(o, w)>> /\ Len(Packet(o, w).entries) = 1
    BY DEF Packet
  <2>3. Unsigned(Packet(o, w)) = [Packet(o, w) EXCEPT !.entries = <<Entry(o, <<>>)>>]
    BY <2>1, <2>2 DEF Unsigned
  <2> QED BY <2>3 DEF Packet
<1>4. UnsignedScript(tx.outs[3].script) = PacketScript(0, o.auth, <<>>)
  <2>1. PICK s : s = tx.outs[3].script
    OBVIOUS
  <2>2. s = [kind |-> "extension", pad |-> 0, packets |-> <<Packet(o, w)>>]
    BY <1>1, <2>1
  <2>3. s.packets = <<Packet(o, w)>> /\ Len(s.packets) = 1
    BY <2>2
  <2>4. [i \in 1 .. 1 |-> Unsigned(<<Packet(o, w)>>[i])] = <<Packet(o, <<>>)>>
    BY <1>3
  <2>5. UnsignedScript(s) = [s EXCEPT !.packets = <<Packet(o, <<>>)>>]
    BY <2>3, <2>4 DEF UnsignedScript
  <2>6. UnsignedScript(s) = [kind |-> "extension", pad |-> 0, packets |-> <<Packet(o, <<>>)>>]
    BY <2>2, <2>5
  <2>7. PacketScript(0, o.auth, <<>>) = [kind |-> "extension", pad |-> 0, packets |-> <<Packet(o, <<>>)>>]
    BY DEF PacketScript, Packet, Entry
  <2> QED BY <2>1, <2>6, <2>7
<1>5. [tx.outs[3] EXCEPT !.script = UnsignedScript(@)] = Output(0, PacketScript(0, o.auth, <<>>))
  BY <1>1, <1>4 DEF RoutineOuts, Output
<1>6. IsExtension(tx.outs[3].script) /\ ~IsExtension(tx.outs[1].script) /\ ~IsExtension(tx.outs[2].script)
  BY <1>1 DEF Extensions
<1>7. [i \in 1 .. Len(tx.outs) |->
          IF IsExtension(tx.outs[i].script)
          THEN [tx.outs[i] EXCEPT !.script = UnsignedScript(@)]
          ELSE tx.outs[i]] = <<tx.outs[1], tx.outs[2], Output(0, PacketScript(0, o.auth, <<>>))>>
  BY <1>1, <1>5, <1>6
<1>8. <<tx.outs[1], tx.outs[2], Output(0, PacketScript(0, o.auth, <<>>))>> =
        RoutineOuts(out, change, o, <<>>)
  BY <1>1 DEF RoutineOuts
<1>9. Unwitnessed(tx) = [tx EXCEPT !.outs = RoutineOuts(out, change, o, <<>>)]
  BY <1>7, <1>8 DEF Unwitnessed
<1> QED BY <1>9 DEF RoutineTx, NewTx

\* The challenge holds the whole spend but for the witness.
LEMMA ChallengeHoldsSpend ==
  ASSUME NEW o \in Ops, NEW p, PSBTShape(p), classify(p, o)
  PROVE  Challenge(p, o.routine).tx = Unwitnessed(p.tx)
<1>1. PICK out, change, outpoint, tx :
        out = p.tx.outs[1] /\ change = p.tx.outs[2].value /\ outpoint = p.tx.outpoint /\ tx = p.tx
  OBVIOUS
<1>2. PICK w : RoutineForm(tx, out, change, o, w)
  <2>1. \E w : /\ RoutineForm(p.tx, p.tx.outs[1], p.tx.outs[2].value, o, w)
               /\ p.tx.outs[1].script # o.pkScript
    BY ClassifiedForm
  <2> QED BY <1>1, <2>1
<1>3. tx = RoutineTx(outpoint, out, change, o, w) /\ ~IsExtension(out.script)
  BY <1>1, <1>2 DEF RoutineForm, IsExtension, IsWitnessProgram
<1>4. Unwitnessed(tx) = RoutineTx(outpoint, out, change, o, <<>>)
  BY <1>3, RoutineUnwitnessed
<1>5. PICK leaf : leaf = o.routine
  OBVIOUS
<1>6. Challenge(p, leaf) =
        [tx |-> RoutineTx(outpoint, out, change, o, <<>>), utxo |-> p.utxo, leaf |-> leaf]
  <2>1. p.tx = RoutineTx(outpoint, out, change, o, w)
    BY <1>1, <1>3
  <2> QED BY <1>3, <2>1, RoutineChallenge
<1>7. Challenge(p, leaf).tx = RoutineTx(outpoint, out, change, o, <<>>)
  BY <1>6
<1> QED BY <1>1, <1>4, <1>5, <1>7

-----------------------------------------------------------------------------
(***************************************************************************)
(* The builders.                                                           *)
(***************************************************************************)
LEMMA PairTuple ==
  ASSUME NEW x, NEW y
  PROVE  /\ IsTuple(<<x, y>>) /\ Len(<<x, y>>) = 2 /\ DOMAIN <<x, y>> = 1 .. 2
         /\ <<x, y>>[1] = x /\ <<x, y>>[2] = y
<1>1. Len(<<x, y>>) = 2 /\ <<x, y>>[1] = x /\ <<x, y>>[2] = y /\ DOMAIN <<x, y>> = 1 .. 2
  OBVIOUS
<1>2. <<x, y>> = [i \in 1 .. Len(<<x, y>>) |-> <<x, y>>[i]]
  BY <1>1
<1> QED BY <1>1, <1>2 DEF IsTuple

LEMMA TripleTuple ==
  ASSUME NEW x, NEW y, NEW z
  PROVE  /\ IsTuple(<<x, y, z>>) /\ Len(<<x, y, z>>) = 3 /\ DOMAIN <<x, y, z>> = 1 .. 3
         /\ <<x, y, z>>[1] = x /\ <<x, y, z>>[2] = y /\ <<x, y, z>>[3] = z
<1>1. /\ Len(<<x, y, z>>) = 3 /\ <<x, y, z>>[1] = x /\ <<x, y, z>>[2] = y /\ <<x, y, z>>[3] = z
      /\ DOMAIN <<x, y, z>> = 1 .. 3
  OBVIOUS
<1>2. <<x, y, z>> = [i \in 1 .. Len(<<x, y, z>>) |-> <<x, y, z>>[i]]
  BY <1>1
<1> QED BY <1>1, <1>2 DEF IsTuple

\* A built PSBT decodes.
LEMMA BuiltShape ==
  ASSUME NEW outs, IsTuple(outs), \A i \in DOMAIN outs : OutputShape(outs[i]),
         NEW utxo, OutputShape(utxo), NEW outpoint, NEW sequence, NEW leaf, NEW prevs,
         NEW p, p = NewPSBT(NewTx(outpoint, sequence, outs), utxo, leaf, prevs)
  PROVE  PSBTShape(p) /\ p.tx.outs = outs /\ p.utxo = utxo
<1>1. PICK tx : tx = NewTx(outpoint, sequence, outs)
  OBVIOUS
<1>2. /\ tx.version = 2 /\ tx.locktime = 0 /\ tx.ins = 1 /\ tx.outpoint = outpoint
      /\ tx.sequence = sequence /\ tx.outs = outs
      /\ tx = [version |-> tx.version, locktime |-> tx.locktime, ins |-> tx.ins,
               outpoint |-> tx.outpoint, sequence |-> tx.sequence, outs |-> tx.outs]
  BY <1>1 DEF NewTx
<1>3. TxShape(tx)
  BY <1>2 DEF TxShape
<1>4. p = [tx |-> tx, utxo |-> utxo, sighash |-> "default", leaves |-> <<leaf>>, prevs |-> prevs,
           final |-> FALSE]
  BY <1>1 DEF NewPSBT
<1>5. /\ p.tx = tx /\ p.utxo = utxo /\ p.sighash = "default" /\ p.leaves = <<leaf>> /\ p.prevs = prevs
      /\ p.final = FALSE
      /\ p = [tx |-> p.tx, utxo |-> p.utxo, sighash |-> p.sighash, leaves |-> p.leaves,
              prevs |-> p.prevs, final |-> p.final]
  BY <1>4
<1>6. IsTuple(p.leaves)
  BY <1>5, SingletonTuple
<1> QED BY <1>2, <1>3, <1>5, <1>6 DEF PSBTShape

LEMMA PrevoutShape ==
  ASSUME NEW prev \in Prevs, NEW outpoint, NEW o \in Ops, NEW u, u \in CheckedPrevout(prev, outpoint, o)
  PROVE  OutputShape(u) /\ MoneyRange(u.value) /\ u.value \in Int
<1>1. PICK i \in 1 .. Len(prev.outs) : u = prev.outs[i] /\ MoneyRange(prev.outs[i].value)
  BY DEF CheckedPrevout
<1>2. IsTuple(prev.outs) /\ \A j \in DOMAIN prev.outs : OutputShape(prev.outs[j])
  BY RequestAssumption
<1>3. DOMAIN prev.outs = 1 .. Len(prev.outs)
  <2>1. Len(prev.outs) \in Nat /\ prev.outs = [j \in 1 .. Len(prev.outs) |-> prev.outs[j]]
    BY <1>2 DEF IsTuple
  <2> QED BY <2>1
<1>4. OutputShape(u) /\ MoneyRange(u.value)
  BY <1>1, <1>2, <1>3
<1> QED BY <1>4 DEF OutputShape

\* What a builder leaves for the change output.
LEMMA Remainder ==
  ASSUME NEW x, NEW amount, NEW fee, x \in Int, amount \in Int, fee \in Int,
         NEW c, c \in RemainingAfter(x, amount, fee)
  PROVE  c \in Int /\ x = amount + c + fee
<1>1. c = x - amount - fee
  BY DEF RemainingAfter
<1> QED BY <1>1

\* The request that a PSBT answers.
Conserves(p, path, amount, fee, o) ==
    /\ PSBTShape(p)
    /\ p.utxo.value = OutSum(p.tx) + fee
    /\ p.tx.outs[1].value = amount
    /\ \A i \in 2 .. Len(p.tx.outs) :
          IsChange(p.tx.outs[i], o) =>
              p.tx.outs[i].value >= IF path = "routine" THEN o.policy.dust ELSE DustSats

LEMMA VaultScriptShape ==
  ASSUME NEW o \in Ops
  PROVE  ScriptShape(o.pkScript)
<1>1. o.pkScript.kind = "p2tr" /\ o.pkScript.len = 34
  BY VaultTree
<1> QED BY <1>1 DEF ScriptShape, IsExtension

LEMMA SumOne ==
  ASSUME NEW tx, NEW x, tx.outs = <<x>>, x.value \in Int
  PROVE  OutSum(tx) = x.value
<1> DEFINE s == [i \in 1 .. Len(tx.outs) |-> tx.outs[i].value]
<1>1. Len(tx.outs) = 1 /\ tx.outs[1] = x
  OBVIOUS
<1>2. Len(s) = 1 /\ s[1] = x.value
  <2>1. s = [i \in 1 .. 1 |-> tx.outs[i].value]
    BY <1>1
  <2> QED BY <1>1, <2>1
<1>3. OutSum(tx) = Total(s)
  BY DEF OutSum
<1> HIDE DEF s
<1>4. Total(s) = s[1]
  BY <1>2, TotalOne
<1> QED BY <1>2, <1>3, <1>4

LEMMA SumTwo ==
  ASSUME NEW tx, NEW x, NEW y, tx.outs = <<x, y>>, x.value \in Int, y.value \in Int
  PROVE  OutSum(tx) = x.value + y.value
<1> DEFINE s == [i \in 1 .. Len(tx.outs) |-> tx.outs[i].value]
<1>1. Len(tx.outs) = 2 /\ tx.outs[1] = x /\ tx.outs[2] = y
  OBVIOUS
<1>2. Len(s) = 2 /\ s[1] = x.value /\ s[2] = y.value
  <2>1. s = [i \in 1 .. 2 |-> tx.outs[i].value]
    BY <1>1
  <2> QED BY <1>1, <2>1
<1>3. OutSum(tx) = Total(s)
  BY DEF OutSum
<1> HIDE DEF s
<1>4. Total(s) = s[1] + s[2]
  BY <1>2, TotalTwo
<1> QED BY <1>2, <1>3, <1>4

LEMMA RequestValues ==
  ASSUME NEW dest \in Dests, NEW amount \in Amounts, NEW fee \in Fees
  PROVE  /\ amount \in Int /\ fee \in Int
         /\ OutputShape(Output(amount, dest)) /\ Output(amount, dest).value = amount
<1>1. amount \in Int /\ fee \in Int /\ ScriptShape(dest)
  BY RequestAssumption
<1>2. OutputShape(Output(amount, dest))
  BY <1>1, OutputWritten
<1>3. Output(amount, dest).value = amount
  BY DEF Output
<1> QED BY <1>1, <1>2, <1>3

LEMMA ChangeShape ==
  ASSUME NEW o \in Ops, NEW change, change \in Int
  PROVE  /\ OutputShape(Output(change, o.pkScript))
         /\ Output(change, o.pkScript).value = change
<1>1. OutputShape(Output(change, o.pkScript))
  BY VaultScriptShape, OutputWritten
<1> QED BY <1>1 DEF Output

LEMMA RoutineBuilt ==
  ASSUME NEW o \in Ops, NEW prev \in Prevs, NEW outpoint, NEW dest \in Dests,
         NEW amount \in Amounts, NEW fee \in Fees,
         NEW p, p \in BuildRoutineSpend(o, prev, outpoint, dest, amount, fee)
  PROVE  Conserves(p, "routine", amount, fee, o)
<1>1. PICK utxo, change :
        /\ utxo \in CheckedPrevout(prev, outpoint, o)
        /\ change \in RemainingAfter(utxo.value, amount, fee)
        /\ change >= o.policy.dust
        /\ p = NewPSBT(NewTx(outpoint, "final",
                          <<Output(amount, dest), Output(change, o.pkScript),
                            Output(0, PacketScript(0, o.auth, <<>>))>>),
                       utxo, o.routine, <<prev>>)
  BY DEF BuildRoutineSpend
<1>2. /\ amount \in Int /\ fee \in Int
      /\ OutputShape(Output(amount, dest)) /\ Output(amount, dest).value = amount
  BY RequestValues
<1>3. OutputShape(utxo) /\ utxo.value \in Int
  BY <1>1, PrevoutShape
<1>4. change \in Int /\ utxo.value = amount + change + fee
  BY <1>1, <1>2, <1>3, Remainder
<1>5. /\ OutputShape(Output(change, o.pkScript)) /\ Output(change, o.pkScript).value = change
  BY <1>4, ChangeShape
<1>6. PICK x, y, z : /\ x = Output(amount, dest) /\ y = Output(change, o.pkScript)
                     /\ z = Output(0, PacketScript(0, o.auth, <<>>))
  OBVIOUS
<1>7. OutputShape(z)
  <2>1. PICK e : e = Entry(o, <<>>)
    OBVIOUS
  <2>2. e.vin = 0 /\ e.script = o.auth /\ e.witness = <<>>
        /\ e = [vin |-> e.vin, script |-> e.script, witness |-> e.witness]
    BY <2>1 DEF Entry
  <2>3. PICK none : none = <<>>
    OBVIOUS
  <2>4. IsTuple(none) /\ \A i \in DOMAIN none : none[i].len \in Nat
    <3>1. Len(none) = 0 /\ DOMAIN none = {} /\ none = [i \in 1 .. 0 |-> none[i]]
      BY <2>3
    <3> QED BY <3>1 DEF IsTuple
  <2>5. o.auth # NULL /\ o.auth.len \in Nat
    BY VaultPolicy
  <2>6. EntryShape(e)
    BY <2>2, <2>3, <2>4, <2>5 DEF EntryShape
  <2>7. OutputShape(Output(0, PacketScript(e.vin, e.script, none)))
    BY <2>4, <2>6, PacketOutputWritten
  <2> QED BY <1>6, <2>2, <2>3, <2>7
<1>8. z.value = 0 /\ z.script # o.pkScript
  <2>1. o.pkScript.kind = "p2tr"
    BY VaultTree
  <2>2. z.value = 0 /\ z.script.kind = "extension"
    BY <1>6 DEF Output, PacketScript
  <2> QED BY <2>1, <2>2
<1>9. PICK outs : outs = <<x, y, z>>
  OBVIOUS
<1>10. /\ IsTuple(outs) /\ Len(outs) = 3 /\ DOMAIN outs = 1 .. 3
       /\ outs[1] = x /\ outs[2] = y /\ outs[3] = z
  BY <1>9, TripleTuple
<1>11. \A i \in DOMAIN outs : OutputShape(outs[i])
  BY <1>2, <1>5, <1>6, <1>7, <1>10
<1>12. PSBTShape(p) /\ p.tx.outs = outs /\ p.utxo = utxo
  <2>1. PICK leaf, prevs : leaf = o.routine /\ prevs = <<prev>>
    OBVIOUS
  <2>2. p = NewPSBT(NewTx(outpoint, "final", outs), utxo, leaf, prevs)
    BY <1>1, <1>6, <1>9, <2>1
  <2> QED BY <1>3, <1>10, <1>11, <2>2, BuiltShape
<1>13. OutSum(p.tx) = amount + change
  <2>1. PICK tx, s : tx = p.tx /\ s = [i \in 1 .. Len(tx.outs) |-> tx.outs[i].value]
    OBVIOUS
  <2>2. s = [i \in 1 .. 3 |-> outs[i].value]
    BY <1>10, <1>12, <2>1
  <2>3. Len(s) = 3 /\ s[1] = amount /\ s[2] = change /\ s[3] = 0
    BY <1>2, <1>5, <1>6, <1>8, <1>10, <2>2
  <2>4. Total(s) = s[1] + s[2] + s[3]
    BY <1>2, <1>4, <2>3, TotalThree
  <2>5. OutSum(tx) = Total(s)
    BY <2>1 DEF OutSum
  <2> QED BY <1>2, <1>4, <2>1, <2>3, <2>4, <2>5
<1>14. p.utxo.value = OutSum(p.tx) + fee
  BY <1>2, <1>4, <1>12, <1>13
<1>15. p.tx.outs[1].value = amount
  BY <1>2, <1>6, <1>10, <1>12
<1>16. \A i \in 2 .. Len(p.tx.outs) : IsChange(p.tx.outs[i], o) => p.tx.outs[i].value >= o.policy.dust
  BY <1>1, <1>5, <1>6, <1>8, <1>10, <1>12 DEF IsChange
<1> QED BY <1>12, <1>14, <1>15, <1>16 DEF Conserves

LEMMA AdminBuilt ==
  ASSUME NEW o \in Ops, NEW prev \in Prevs, NEW outpoint, NEW dest \in Dests,
         NEW amount \in Amounts, NEW fee \in Fees,
         NEW p, p \in AdminSpend(o, prev, outpoint, dest, amount, fee)
  PROVE  Conserves(p, "admin", amount, fee, o)
<1>1. PICK utxo, change :
        /\ utxo \in CheckedPrevout(prev, outpoint, o)
        /\ change \in RemainingAfter(utxo.value, amount, fee)
        /\ change = 0 \/ change >= DustSats
        /\ p = NewPSBT(NewTx(outpoint, "final", AdminOuts(o, dest, amount, change)),
                       utxo, o.admin, <<prev>>)
  BY DEF AdminSpend
<1>2. /\ amount \in Int /\ fee \in Int
      /\ OutputShape(Output(amount, dest)) /\ Output(amount, dest).value = amount
  BY RequestValues
<1>3. OutputShape(utxo) /\ utxo.value \in Int
  BY <1>1, PrevoutShape
<1>4. change \in Int /\ utxo.value = amount + change + fee
  BY <1>1, <1>2, <1>3, Remainder
<1>5. /\ OutputShape(Output(change, o.pkScript)) /\ Output(change, o.pkScript).value = change
  BY <1>4, ChangeShape
<1>6. PICK x, y, leaf, prevs : /\ x = Output(amount, dest) /\ y = Output(change, o.pkScript)
                               /\ leaf = o.admin /\ prevs = <<prev>>
  OBVIOUS
<1>7. CASE change = 0
  <2>1. p = NewPSBT(NewTx(outpoint, "final", <<x>>), utxo, leaf, prevs)
    <3>1. AdminOuts(o, dest, amount, change) = <<x>>
      BY <1>6, <1>7 DEF AdminOuts
    <3> QED BY <1>1, <1>6, <3>1
  <2>2. PICK outs : outs = <<x>>
    OBVIOUS
  <2>3. IsTuple(outs) /\ DOMAIN outs = 1 .. 1 /\ outs[1] = x /\ Len(outs) = 1
    BY <2>2, SingletonTuple
  <2>4. \A i \in DOMAIN outs : OutputShape(outs[i])
    BY <1>2, <1>6, <2>3
  <2>5. PSBTShape(p) /\ p.tx.outs = outs /\ p.utxo = utxo
    BY <1>3, <2>1, <2>2, <2>3, <2>4, BuiltShape
  <2>6. OutSum(p.tx) = amount
    <3>1. PICK tx : tx = p.tx
      OBVIOUS
    <3>2. tx.outs = <<x>> /\ x.value = amount
      BY <1>2, <1>6, <2>2, <2>5, <3>1
    <3>3. OutSum(tx) = x.value
      BY <1>2, <3>2, SumOne
    <3> QED BY <3>1, <3>2, <3>3
  <2>7. p.utxo.value = OutSum(p.tx) + fee
    BY <1>2, <1>4, <1>7, <2>5, <2>6
  <2>8. p.tx.outs[1].value = amount /\ Len(p.tx.outs) = 1
    BY <1>2, <1>6, <2>3, <2>5
  <2>9. \A i \in 2 .. Len(p.tx.outs) : FALSE
    BY <2>8
  <2> QED BY <2>5, <2>7, <2>8, <2>9 DEF Conserves
<1>8. CASE change # 0
  <2>1. p = NewPSBT(NewTx(outpoint, "final", <<x, y>>), utxo, leaf, prevs)
    <3>1. AdminOuts(o, dest, amount, change) = <<x, y>>
      BY <1>6, <1>8 DEF AdminOuts
    <3> QED BY <1>1, <1>6, <3>1
  <2>2. PICK outs : outs = <<x, y>>
    OBVIOUS
  <2>3. IsTuple(outs) /\ DOMAIN outs = 1 .. 2 /\ outs[1] = x /\ outs[2] = y /\ Len(outs) = 2
    BY <2>2, PairTuple
  <2>4. \A i \in DOMAIN outs : OutputShape(outs[i])
    BY <1>2, <1>5, <1>6, <2>3
  <2>5. PSBTShape(p) /\ p.tx.outs = outs /\ p.utxo = utxo
    BY <1>3, <2>1, <2>2, <2>3, <2>4, BuiltShape
  <2>6. OutSum(p.tx) = amount + change
    <3>1. PICK tx : tx = p.tx
      OBVIOUS
    <3>2. tx.outs = <<x, y>> /\ x.value = amount /\ y.value = change
      BY <1>2, <1>5, <1>6, <2>2, <2>5, <3>1
    <3>3. OutSum(tx) = x.value + y.value
      BY <1>2, <1>4, <3>2, SumTwo
    <3> QED BY <3>1, <3>2, <3>3
  <2>7. p.utxo.value = OutSum(p.tx) + fee
    BY <1>2, <1>4, <2>5, <2>6
  <2>8. p.tx.outs[1].value = amount /\ Len(p.tx.outs) = 2 /\ p.tx.outs[2].value = change
    BY <1>2, <1>5, <1>6, <2>3, <2>5
  <2>9. \A i \in 2 .. Len(p.tx.outs) : p.tx.outs[i].value >= DustSats
    BY <1>1, <1>8, <2>8
  <2> QED BY <2>5, <2>7, <2>8, <2>9 DEF Conserves
<1> QED BY <1>7, <1>8

LEMMA RecoveryBuilt ==
  ASSUME NEW o \in Ops, NEW prev \in Prevs, NEW outpoint, NEW dest \in Dests,
         NEW amount \in Amounts, NEW fee \in Fees,
         NEW p, p \in RecoverySpend(o, prev, outpoint, dest, amount, fee)
  PROVE  Conserves(p, "recovery", amount, fee, o)
<1>1. PICK utxo \in CheckedPrevout(prev, outpoint, o) :
        /\ 0 \in RemainingAfter(utxo.value, amount, fee)
        /\ p = NewPSBT(NewTx(outpoint, "csv", <<Output(amount, dest)>>), utxo, o.recovery, <<>>)
  BY DEF RecoverySpend
<1>2. /\ amount \in Int /\ fee \in Int
      /\ OutputShape(Output(amount, dest)) /\ Output(amount, dest).value = amount
  BY RequestValues
<1>3. OutputShape(utxo) /\ utxo.value \in Int
  BY <1>1, PrevoutShape
<1>4. utxo.value = amount + fee
  <2>1. PICK c : c = 0
    OBVIOUS
  <2>2. utxo.value = amount + c + fee
    BY <1>1, <1>2, <1>3, <2>1, Remainder
  <2> QED BY <1>2, <2>1, <2>2
<1>5. PICK x, leaf, prevs : x = Output(amount, dest) /\ leaf = o.recovery /\ prevs = <<>>
  OBVIOUS
<1>6. PICK outs : outs = <<x>>
  OBVIOUS
<1>7. IsTuple(outs) /\ DOMAIN outs = 1 .. 1 /\ outs[1] = x /\ Len(outs) = 1
  BY <1>6, SingletonTuple
<1>8. \A i \in DOMAIN outs : OutputShape(outs[i])
  BY <1>2, <1>5, <1>7
<1>9. PSBTShape(p) /\ p.tx.outs = outs /\ p.utxo = utxo
  <2>1. p = NewPSBT(NewTx(outpoint, "csv", outs), utxo, leaf, prevs)
    BY <1>1, <1>5, <1>6
  <2> QED BY <1>3, <1>7, <1>8, <2>1, BuiltShape
<1>10. OutSum(p.tx) = amount
  <2>1. PICK tx : tx = p.tx
    OBVIOUS
  <2>2. tx.outs = <<x>> /\ x.value = amount
    BY <1>2, <1>5, <1>6, <1>9, <2>1
  <2>3. OutSum(tx) = x.value
    BY <1>2, <2>2, SumOne
  <2> QED BY <2>1, <2>2, <2>3
<1>11. p.utxo.value = OutSum(p.tx) + fee
  BY <1>2, <1>4, <1>9, <1>10
<1>12. p.tx.outs[1].value = amount /\ Len(p.tx.outs) = 1
  BY <1>2, <1>5, <1>7, <1>9
<1>13. \A i \in 2 .. Len(p.tx.outs) : FALSE
  BY <1>12
<1> QED BY <1>9, <1>11, <1>12, <1>13 DEF Conserves

\* Bind keeps what was asked for: of the outputs it writes only the packet's.
LEMMA AnswerConserves ==
  ASSUME NEW o \in Ops, NEW p, NEW q, Answers(q, p, o), NEW path, NEW amount, NEW fee,
         Conserves(p, path, amount, fee, o)
  PROVE  Conserves(q, path, amount, fee, o)
<1>1. PICK c : c = Challenge(p, o.routine)
  OBVIOUS
<1>2. Rewritten(q, p, o, c)
  BY <1>1, AnswerRewritten
<1>3. PICK out, change, v : out = q.tx.outs[1] /\ change = q.tx.outs[2].value /\ v = <<DirectItem(c)>>
  OBVIOUS
<1>4. /\ PSBTShape(q) /\ q.utxo = p.utxo /\ out = p.tx.outs[1] /\ change = p.tx.outs[2].value
      /\ OutSum(q.tx) = OutSum(p.tx) /\ RoutineForm(q.tx, out, change, o, v)
  BY <1>2, <1>3 DEF Rewritten
<1>5. TxShape(q.tx)
  BY <1>4 DEF PSBTShape
<1>6. /\ Len(q.tx.outs) = 3 /\ q.tx.outs[2].script = o.pkScript /\ q.tx.outs[2].value = change
      /\ IsExtension(q.tx.outs[3].script)
  BY <1>4, <1>5, FormFacts
<1>7. Len(p.tx.outs) = 3 /\ p.tx.outs[2].script = o.pkScript
  <2>1. classify(p, o)
    BY DEF Answers, classifySpend
  <2> QED BY <2>1, OutputKinds
<1>8. ~IsChange(q.tx.outs[3], o)
  BY <1>6, VaultTree DEF IsChange, IsExtension
<1>9. /\ p.utxo.value = OutSum(p.tx) + fee /\ p.tx.outs[1].value = amount
      /\ change >= IF path = "routine" THEN o.policy.dust ELSE DustSats
  BY <1>4, <1>7 DEF Conserves, IsChange
<1>10. \A i \in 2 .. Len(q.tx.outs) :
          IsChange(q.tx.outs[i], o) =>
              q.tx.outs[i].value >= IF path = "routine" THEN o.policy.dust ELSE DustSats
  <2> SUFFICES ASSUME NEW i \in 2 .. 3, IsChange(q.tx.outs[i], o)
               PROVE  q.tx.outs[i].value >= IF path = "routine" THEN o.policy.dust ELSE DustSats
    BY <1>6
  <2>1. i = 2
    BY <1>8
  <2> QED BY <1>6, <1>9, <2>1
<1>11. q.utxo.value = OutSum(q.tx) + fee /\ q.tx.outs[1].value = amount
  BY <1>3, <1>4, <1>9
<1> QED BY <1>4, <1>10, <1>11 DEF Conserves

LEMMA EncodedConserves ==
  ASSUME NEW o, NEW p, NEW q, q = Encoded(p), NEW path, NEW amount, NEW fee,
         Conserves(p, path, amount, fee, o)
  PROVE  Conserves(q, path, amount, fee, o)
<1>1. PSBTShape(p)
  BY DEF Conserves
<1>2. PSBTShape(q) /\ q.tx = p.tx /\ q.utxo = p.utxo
  BY <1>1, EncodedParts
<1> QED BY <1>2 DEF Conserves

-----------------------------------------------------------------------------
(***************************************************************************)
(* The inductive invariant.                                                *)
(***************************************************************************)
\* Every PSBT decodes; what was authorized still is authorizable; an answer of
\* Bind that nobody has changed comes from the spend the user confirmed, and
\* is that spend when no final field hid a part of it; and a built PSBT that
\* nobody has changed is what was asked for.
DraftInv ==
    /\ op \in Ops
    /\ psbt # NULL => PSBTShape(psbt)
    /\ authorized # NULL => PSBTShape(authorized) /\ Authorizable(authorized, op)
    /\ bound # NULL =>
          /\ ~bound.final => Answers(psbt, bound, op)
          /\ Challenge(bound, op.routine) \in proofs
    /\ asked # NULL => Conserves(psbt, asked.path, asked.amount, asked.fee, op)

\* A new PSBT with what it was asked for.
LEMMA BuiltInv ==
  ASSUME DraftInv, NEW p, NEW path, NEW amount, NEW fee, Conserves(p, path, amount, fee, op),
         Hold(p), Request(path, amount, fee), bound' = NULL,
         UNCHANGED <<op, edits, proofs, authorized>>
  PROVE  DraftInv'
<1>1. psbt' = p /\ asked' = [path |-> path, amount |-> amount, fee |-> fee]
      /\ op' = op /\ authorized' = authorized
  BY DEF Hold, Request
<1>2. asked'.path = path /\ asked'.amount = amount /\ asked'.fee = fee
  BY <1>1
<1>3. PSBTShape(p)
  BY DEF Conserves
<1>4. op' \in Ops
  BY <1>1 DEF DraftInv
<1>5. psbt' # NULL => PSBTShape(psbt')
  BY <1>1, <1>3
<1>6. authorized' # NULL => PSBTShape(authorized') /\ Authorizable(authorized', op')
  BY <1>1 DEF DraftInv
<1>7. Conserves(psbt', asked'.path, asked'.amount, asked'.fee, op')
  BY <1>1, <1>2
<1> QED BY <1>4, <1>5, <1>6, <1>7 DEF DraftInv

LEMMA DraftStep ==
  ASSUME DraftInv, [Next]_vars
  PROVE  DraftInv'
<1>0. op \in Ops
  BY DEF DraftInv
<1>1. ASSUME NEW prev \in Prevs, NEW vout \in 0 .. 1, NEW dest \in Dests,
             NEW amount \in Amounts, NEW fee \in Fees, Draft(prev, vout, dest, amount, fee)
      PROVE  DraftInv'
  <2>1. PICK outpoint : outpoint = OutPointOf(prev, vout)
    OBVIOUS
  <2>2. PICK p \in BuildRoutineSpend(op, prev, outpoint, dest, amount, fee) : Hold(p)
    BY <1>1, <2>1 DEF Draft
  <2>3. Conserves(p, "routine", amount, fee, op)
    BY <1>0, <2>2, RoutineBuilt
  <2>4. Request("routine", amount, fee) /\ bound' = NULL /\ UNCHANGED <<op, edits, proofs, authorized>>
    BY <1>1 DEF Draft
  <2> QED BY <2>2, <2>3, <2>4, BuiltInv
<1>2. ASSUME NEW prev \in Prevs, NEW vout \in 0 .. 1, NEW dest \in Dests,
             NEW amount \in Amounts, NEW fee \in Fees, BuildAdmin(prev, vout, dest, amount, fee)
      PROVE  DraftInv'
  <2>1. PICK outpoint : outpoint = OutPointOf(prev, vout)
    OBVIOUS
  <2>2. PICK p \in AdminSpend(op, prev, outpoint, dest, amount, fee) : Hold(p)
    BY <1>2, <2>1 DEF BuildAdmin
  <2>3. Conserves(p, "admin", amount, fee, op)
    BY <1>0, <2>2, AdminBuilt
  <2>4. Request("admin", amount, fee) /\ bound' = NULL /\ UNCHANGED <<op, edits, proofs, authorized>>
    BY <1>2 DEF BuildAdmin
  <2> QED BY <2>2, <2>3, <2>4, BuiltInv
<1>3. ASSUME NEW prev \in Prevs, NEW vout \in 0 .. 1, NEW dest \in Dests,
             NEW amount \in Amounts, NEW fee \in Fees, BuildRecovery(prev, vout, dest, amount, fee)
      PROVE  DraftInv'
  <2>1. PICK outpoint : outpoint = OutPointOf(prev, vout)
    OBVIOUS
  <2>2. PICK p \in RecoverySpend(op, prev, outpoint, dest, amount, fee) : Hold(p)
    BY <1>3, <2>1 DEF BuildRecovery
  <2>3. Conserves(p, "recovery", amount, fee, op)
    BY <1>0, <2>2, RecoveryBuilt
  <2>4. Request("recovery", amount, fee) /\ bound' = NULL /\ UNCHANGED <<op, edits, proofs, authorized>>
    BY <1>3 DEF BuildRecovery
  <2> QED BY <2>2, <2>3, <2>4, BuiltInv
<1>4. ASSUME Edit PROVE DraftInv'
  <2>1. /\ PSBTShape(psbt') /\ asked' = NULL /\ bound' = NULL /\ op' = op /\ authorized' = authorized
    BY <1>4 DEF Edit
  <2> QED BY <2>1 DEF DraftInv
<1>5. ASSUME Preflight PROVE DraftInv'
  <2>1. /\ proofs \subseteq proofs'
        /\ op' = op /\ asked' = asked /\ psbt' = psbt /\ bound' = bound /\ authorized' = authorized
    BY <1>5 DEF Preflight
  <2> QED BY <2>1 DEF DraftInv
<1>6. ASSUME Bind PROVE DraftInv'
  <2>1. PICK c : c = Challenge(psbt, op.routine)
    OBVIOUS
  <2>2. /\ psbt # NULL /\ classifySpend(psbt, op) /\ c \in proofs
        /\ \E tx \in SetPacketWitness(psbt.tx, <<DirectItem(c)>>) :
              psbt' = Encoded([psbt EXCEPT !.tx = tx])
        /\ bound' = psbt /\ op' = op /\ asked' = asked /\ proofs' = proofs /\ authorized' = authorized
    BY <1>6, <2>1 DEF Bind
  <2>3. PSBTShape(psbt)
    BY <2>2 DEF DraftInv
  <2>4. PICK q : q = psbt'
    OBVIOUS
  <2>t. PICK tx \in SetPacketWitness(psbt.tx, <<DirectItem(c)>>) :
             psbt' = Encoded([psbt EXCEPT !.tx = tx])
    BY <2>2
  <2>w. PICK written : written = [psbt EXCEPT !.tx = tx]
    OBVIOUS
  <2>a. q = Encoded(written)
    BY <2>4, <2>t, <2>w
  <2>5. Answers(written, psbt, op)
    BY <2>1, <2>2, <2>3, <2>w DEF Answers
  <2>b. PSBTShape(written) /\ written.final = psbt.final
    <3>1. Rewritten(written, psbt, op, Challenge(psbt, op.routine))
      BY <1>0, <2>5, AnswerRewritten
    <3> QED BY <3>1 DEF Rewritten
  <2>6. PSBTShape(q) /\ (~written.final => q = written)
    BY <2>a, <2>b, EncodedParts
  <2>7. asked # NULL => Conserves(q, asked.path, asked.amount, asked.fee, op)
    <3> SUFFICES ASSUME asked # NULL PROVE Conserves(q, asked.path, asked.amount, asked.fee, op)
      OBVIOUS
    <3>1. PICK path, amount, fee : path = asked.path /\ amount = asked.amount /\ fee = asked.fee
      OBVIOUS
    <3>2. Conserves(psbt, path, amount, fee, op)
      BY <3>1 DEF DraftInv
    <3>3. Conserves(written, path, amount, fee, op)
      BY <1>0, <2>5, <3>2, AnswerConserves
    <3>4. Conserves(q, path, amount, fee, op)
      BY <2>a, <3>3, EncodedConserves
    <3> QED BY <3>1, <3>4
  <2>8. op' \in Ops /\ (psbt' # NULL => PSBTShape(psbt'))
    BY <1>0, <2>2, <2>4, <2>6
  <2>9. authorized' # NULL => PSBTShape(authorized') /\ Authorizable(authorized', op')
    BY <2>2 DEF DraftInv
  <2>10. (~bound'.final => Answers(psbt', bound', op')) /\ Challenge(bound', op'.routine) \in proofs'
    <3>1. ~psbt.final => Answers(q, psbt, op)
      BY <2>5, <2>b, <2>6
    <3> QED BY <2>1, <2>2, <2>4, <3>1
  <2>11. asked' # NULL => Conserves(psbt', asked'.path, asked'.amount, asked'.fee, op')
    BY <2>2, <2>4, <2>7
  <2> QED BY <2>8, <2>9, <2>10, <2>11 DEF DraftInv
<1>7. ASSUME SelfBind PROVE DraftInv'
  <2>1. PICK c : c = Challenge(psbt, psbt.leaves[1])
    OBVIOUS
  <2>2. PICK w : w = <<DirectItem(c)>>
    OBVIOUS
  <2>3. PICK tx \in SetPacketWitness(psbt.tx, w) : psbt' = [psbt EXCEPT !.tx = tx]
    BY <1>7, <2>1, <2>2 DEF SelfBind
  <2>4. /\ psbt # NULL /\ asked' = NULL /\ bound' = NULL /\ op' = op /\ authorized' = authorized
    BY <1>7 DEF SelfBind
  <2>5. PSBTShape(psbt) /\ TxShape(psbt.tx)
    BY <2>4 DEF DraftInv, PSBTShape
  <2>6. IsTuple(w) /\ \A i \in DOMAIN w : w[i].len \in Nat
    BY <2>2, DirectTuple
  <2>7. TxShape(tx)
    BY <2>3, <2>5, <2>6, WitnessWritten
  <2>8. PICK q : q = psbt'
    OBVIOUS
  <2>9. PSBTShape(q)
    BY <2>3, <2>5, <2>7, <2>8, PSBTWritten
  <2> QED BY <2>4, <2>8, <2>9 DEF DraftInv
<1>8. ASSUME Authorize PROVE DraftInv'
  <2>1. /\ psbt # NULL /\ Authorizable(psbt, op) /\ authorized' = psbt
        /\ op' = op /\ asked' = asked /\ psbt' = psbt /\ proofs' = proofs /\ bound' = bound
    BY <1>8 DEF Authorize
  <2> QED BY <2>1 DEF DraftInv
<1>9. ASSUME UNCHANGED vars PROVE DraftInv'
  <2>1. /\ op' = op /\ asked' = asked /\ psbt' = psbt /\ proofs' = proofs /\ bound' = bound
        /\ authorized' = authorized
    BY <1>9 DEF vars
  <2> QED BY <2>1 DEF DraftInv
<1> QED BY <1>1, <1>2, <1>3, <1>4, <1>5, <1>6, <1>7, <1>8, <1>9 DEF Next

\* Each step of the calls, and of whoever holds the PSBT between them, keeps
\* the invariant.
THEOREM DraftInvariant == Spec => []DraftInv
<1>1. Init => DraftInv
  BY DEF Init, DraftInv
<1>2. DraftInv /\ [Next]_vars => DraftInv'
  BY DraftStep
<1> QED BY <1>1, <1>2, PTL DEF Spec

-----------------------------------------------------------------------------
(***************************************************************************)
(* The properties.                                                         *)
(***************************************************************************)
\* Of what Authorize reserves allowance for, the authorization script and
\* LocalSigner accept exactly the PSBTs without a final script sig or witness,
\* for every vault, every policy and every change a client makes.
THEOREM AuthorizedSigned == Spec => []AuthorizedIsSigned
<1>1. DraftInv => AuthorizedIsSigned
  <2> SUFFICES ASSUME DraftInv, authorized # NULL
               PROVE  LocalSigns(Encoded(authorized), op) <=> ~authorized.final
    BY DEF AuthorizedIsSigned
  <2>1. PICK p, q, o : p = authorized /\ q = Encoded(p) /\ o = op
    OBVIOUS
  <2>2. o \in Ops /\ PSBTShape(p) /\ Authorizable(p, o)
    BY <2>1 DEF DraftInv
  <2>3. (~p.final => q = p) /\ (p.final => q.leaves = <<>>)
    BY <2>1, <2>2, EncodedParts
  <2>4. LocalSigns(p, o)
    BY <2>2, AuthorizableSigned
  <2>5. LocalSigns(q, o) => q.leaves # <<>>
    BY DEF LocalSigns
  <2>6. LocalSigns(q, o) <=> ~p.final
    BY <2>3, <2>4, <2>5
  <2> QED BY <2>1, <2>6
<1> QED BY <1>1, DraftInvariant, PTL

\* The authorization script alone bounds what can leave a vault by the cap and
\* the fee ceiling of the vault that is spent, whatever the PSBT looks like
\* and whichever vault is enrolled.
THEOREM ScriptLossBounded == Spec => []ScriptBoundsLoss
<1>1. DraftInv => ScriptBoundsLoss
  <2> SUFFICES ASSUME DraftInv, psbt # NULL, LocalSigns(psbt, op),
                      NEW o \in Ops, psbt.utxo.script = o.pkScript
               PROVE  /\ psbt.utxo.value - Returned(psbt) <= o.policy.cap + o.policy.feeCeiling
                      /\ Returned(psbt) >= o.policy.dust
    BY DEF ScriptBoundsLoss
  <2>1. PICK p, en : p = psbt /\ en = op
    OBVIOUS
  <2>2. PSBTShape(p) /\ en \in Ops /\ LocalSigns(p, en) /\ p.utxo.script = o.pkScript
    BY <2>1 DEF DraftInv
  <2>3. PICK w : Signed(p, o, w)
    BY <2>2, SignedForm
  <2>4. TxShape(p.tx)
    BY <2>2 DEF PSBTShape
  <2>5. p.utxo.value \in Int
    BY <2>2, MoneyAssumption DEF LocalSigns, MoneyRange
  <2>6. /\ p.utxo.value - Returned(p) <= o.policy.cap + o.policy.feeCeiling
        /\ Returned(p) >= o.policy.dust
    BY <2>2, <2>3, <2>4, <2>5, SignedBounds
  <2> QED BY <2>1, <2>6
<1> QED BY <1>1, DraftInvariant, PTL

\* The classifier and the authorization script decide alike, but for the four
\* named cases in which the script is the more generous one.
THEOREM ScriptAndClassifierAgree == Spec => []ScriptAgrees
<1>1. DraftInv => ScriptAgrees
  <2> SUFFICES ASSUME DraftInv, psbt # NULL, LocalSigns(psbt, op),
                      NEW o \in Ops, psbt.utxo.script = o.pkScript,
                      psbt.tx.outs[1].script # o.pkScript, psbt.tx.outs[1].script.kind # "p2a",
                      ~(Len(psbt.leaves) > 1), FeerateFits(psbt, o.policy)
               PROVE  classifySpend(psbt, o)
    BY DEF ScriptAgrees
  <2>1. PICK p, en : p = psbt /\ en = op
    OBVIOUS
  <2>2. PSBTShape(p) /\ en \in Ops /\ LocalSigns(p, en) /\ p.utxo.script = o.pkScript
    BY <2>1 DEF DraftInv
  <2>3. PICK w : Signed(p, o, w)
    BY <2>2, SignedForm
  <2>4. /\ p.tx.outs[1].script # o.pkScript /\ p.tx.outs[1].script.kind # "p2a"
        /\ ~(Len(p.leaves) > 1) /\ FeerateFits(p, o.policy)
    BY <2>1
  <2>5. classifySpend(p, o)
    BY <2>2, <2>3, <2>4, SignedClassified
  <2> QED BY <2>1, <2>5
<1> QED BY <1>1, DraftInvariant, PTL

\* The answer of Bind passes Authorize with the confirmation it was bound to,
\* when it is no smaller than what came in, the fee rate's product fits and no
\* final field came with it.
THEOREM BoundAuthorizable == Spec => []BoundIsAuthorizable
<1>1. DraftInv => BoundIsAuthorizable
  <2> SUFFICES ASSUME DraftInv, bound # NULL, ~bound.final, FeerateFits(psbt, op.policy),
                      StrippedSize(bound.tx) <= StrippedSize(psbt.tx)
               PROVE  Authorizable(psbt, op) /\ Challenge(psbt, op.routine) \in proofs
    BY DEF BoundIsAuthorizable
  <2>1. PICK p, q, o : p = bound /\ q = psbt /\ o = op
    OBVIOUS
  <2>2. o \in Ops /\ Answers(q, p, o) /\ Challenge(p, o.routine) \in proofs
    BY <2>1 DEF DraftInv
  <2>3. FeerateFits(q, o.policy) /\ StrippedSize(p.tx) <= StrippedSize(q.tx)
    BY <2>1
  <2>4. Authorizable(q, o) /\ Challenge(q, o.routine) = Challenge(p, o.routine)
    BY <2>2, <2>3, AnswerClassified
  <2> QED BY <2>1, <2>2, <2>4
<1> QED BY <1>1, DraftInvariant, PTL

\* A confirmed challenge stands for one transaction up to the packet witness,
\* whatever encodings and edits the client tries.
THEOREM OneSpendPerChallenge == Spec => []ChallengeIsOneSpend
<1>1. DraftInv => ChallengeIsOneSpend
  <2> SUFFICES ASSUME DraftInv, authorized # NULL, psbt # NULL, classifySpend(psbt, op),
                      Challenge(psbt, op.routine) = Challenge(authorized, op.routine)
               PROVE  Unwitnessed(psbt.tx) = Unwitnessed(authorized.tx)
    BY DEF ChallengeIsOneSpend
  <2>1. PICK p, a, o : p = psbt /\ a = authorized /\ o = op
    OBVIOUS
  <2>2. o \in Ops /\ PSBTShape(p) /\ PSBTShape(a) /\ classify(p, o) /\ classify(a, o)
    BY <2>1 DEF DraftInv, Authorizable, classifySpend
  <2>3. Challenge(p, o.routine).tx = Unwitnessed(p.tx)
    BY <2>2, ChallengeHoldsSpend
  <2>4. Challenge(a, o.routine).tx = Unwitnessed(a.tx)
    BY <2>2, ChallengeHoldsSpend
  <2> QED BY <2>1, <2>3, <2>4
<1> QED BY <1>1, DraftInvariant, PTL

\* Every builder spends exactly what it was asked to and leaves no dust, for
\* every input, amount and fee; Bind keeps it so.
THEOREM BuildersExact == Spec => []BuildersConserve
<1>1. DraftInv => BuildersConserve
  BY DEF DraftInv, Conserves, BuildersConserve
<1> QED BY <1>1, DraftInvariant, PTL
=============================================================================
