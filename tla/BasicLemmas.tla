---------------------------- MODULE BasicLemmas ----------------------------
(***************************************************************************)
(* What the proofs of several modules use: induction over the numbers in   *)
(* the form the provers can apply, for sets, where a theorem about         *)
(* operators could not be instantiated; recursive functions; the sum of a  *)
(* table column; division; sequences.                                      *)
(***************************************************************************)
EXTENDS OutflowSum, Sequences, FiniteSetTheorems, WellFoundedInduction, TLAPS

\* A set of numbers has a least one.
LEMMA LeastNumber ==
    ASSUME NEW T \in SUBSET Nat, T # {}
    PROVE  \E m \in T : \A k \in T : m <= k
<1> DEFINE R == OpToRel(<, Nat)
<1>1. IsWellFoundedOn(R, Nat)
  BY NatLessThanWellFounded
<1>2. \A x, y \in Nat : <<x, y>> \in R <=> x < y
  BY DEF OpToRel
<1> HIDE DEF R
<1>3. PICK x \in T : \A y \in T : ~ (<<y, x>> \in R)
  BY <1>1, WFMin
<1>4. ASSUME NEW k \in T PROVE x <= k
  <2>1. x \in Nat /\ k \in Nat /\ ~ (<<k, x>> \in R)
    BY <1>3
  <2>2. ~ (k < x)
    BY <1>2, <2>1
  <2> QED BY <2>1, <2>2
<1> QED BY <1>4

\* A set that has 0, and with each number the next one, has them all.
LEMMA SetInduction ==
    ASSUME NEW S, 0 \in S, \A n \in Nat : n \in S => n + 1 \in S
    PROVE  Nat \subseteq S
<1> SUFFICES ASSUME Nat \ S # {} PROVE FALSE
  OBVIOUS
<1>1. PICK m \in Nat \ S : \A k \in Nat \ S : m <= k
  <2> DEFINE T == Nat \ S
  <2>1. T \in SUBSET Nat /\ T # {}
    OBVIOUS
  <2> HIDE DEF T
  <2>2. \E m \in T : \A k \in T : m <= k
    BY <2>1, LeastNumber
  <2> QED BY <2>2 DEF T
<1>2. m # 0 /\ m - 1 \in Nat /\ (m - 1) + 1 = m
  OBVIOUS
<1>3. m - 1 \notin S
  BY <1>2
<1> QED BY <1>1, <1>2, <1>3

\* The least number of a set, as a definition chooses it.
LEMMA LeastIs ==
  ASSUME NEW S \in SUBSET Nat, S # {}
  PROVE  LET m == CHOOSE n \in S : \A k \in S : n <= k
         IN m \in S /\ \A k \in S : m <= k
BY LeastNumber

-----------------------------------------------------------------------------
(***************************************************************************)
(* Functions defined by recursion.                                         *)
(***************************************************************************)
\* The first n + 1 powers.
Powers(f, n) == \A k \in 0 .. n : f[k] = IF k = 0 THEN 1 ELSE 2 * f[k - 1]

\* There is a table of the first powers of two, however many are asked for.
LEMMA PowersExist ==
  ASSUME NEW n \in Nat
  PROVE  \E f : Powers(f, n)
<1> DEFINE S == {m \in Nat : \E f : Powers(f, m)}
<1>1. 0 \in S
  <2>1. Powers([k \in {0} |-> 1], 0)
    BY DEF Powers
  <2> QED BY <2>1
<1>2. ASSUME NEW m \in Nat, m \in S PROVE m + 1 \in S
  <2>1. PICK f : Powers(f, m)
    BY <1>2
  <2> DEFINE g == [k \in 0 .. m + 1 |-> IF k = m + 1 THEN 2 * f[m] ELSE f[k]]
  <2>2. \A k \in 0 .. m : f[k] = IF k = 0 THEN 1 ELSE 2 * f[k - 1]
    BY <2>1 DEF Powers
  <2>3. ASSUME NEW k \in 0 .. m + 1 PROVE g[k] = IF k = 0 THEN 1 ELSE 2 * g[k - 1]
    <3>1. CASE k = m + 1
      BY <3>1
    <3>2. CASE k \in 0 .. m
      BY <2>2, <3>2
    <3> QED BY <3>1, <3>2
  <2>4. Powers(g, m + 1)
    BY <2>3 DEF Powers
  <2> HIDE DEF g
  <2> QED BY <2>4
<1> HIDE DEF S
<1>3. Nat \subseteq S
  BY <1>1, <1>2, SetInduction
<1> QED BY <1>3 DEF S

\* Two tables of powers agree where both have entries.
LEMMA PowersUnique ==
  ASSUME NEW n \in Nat, NEW m \in Nat, NEW f, NEW g, Powers(f, n), Powers(g, m)
  PROVE  \A k \in 0 .. n : k <= m => f[k] = g[k]
<1> DEFINE S == {k \in Nat : k <= n /\ k <= m => f[k] = g[k]}
<1>1. 0 \in S
  BY DEF Powers
<1>2. ASSUME NEW k \in Nat, k \in S PROVE k + 1 \in S
  BY <1>2 DEF Powers
<1> HIDE DEF S
<1>3. Nat \subseteq S
  BY <1>1, <1>2, SetInduction
<1> QED BY <1>3 DEF S

\* A table whose entries are computed each from the one before exists.
Steps(G, n, T) == \A k \in 1 .. n : \A x \in T : G[<<k, x>>] \in T
Iterates(f, G, n, T, b) ==
    f \in [0 .. n -> T] /\ f[0] = b /\ \A k \in 1 .. n : f[k] = G[<<k, f[k - 1]>>]

LEMMA Iteration ==
  ASSUME NEW n \in Nat, NEW T, NEW b \in T, NEW G, Steps(G, n, T)
  PROVE  \E f : Iterates(f, G, n, T, b)
<1> USE DEF Steps
<1> DEFINE P(f, m) == f \in [0 .. m -> T] /\ f[0] = b /\ \A k \in 1 .. m : f[k] = G[<<k, f[k - 1]>>]
           S == {m \in Nat : m <= n => \E f : P(f, m)}
<1>1. 0 \in S
  <2>1. P([k \in 0 .. 0 |-> b], 0)
    OBVIOUS
  <2> QED BY <2>1
<1>2. ASSUME NEW m \in Nat, m \in S, m + 1 <= n PROVE m + 1 \in S
  <2>1. PICK f : P(f, m)
    BY <1>2
  <2> DEFINE g == [k \in 0 .. m + 1 |-> IF k = m + 1 THEN G[<<k, f[m]>>] ELSE f[k]]
  <2>2. f[m] \in T /\ G[<<m + 1, f[m]>>] \in T
    BY <1>2, <2>1
  <2>3. g \in [0 .. m + 1 -> T] /\ g[0] = b
    BY <2>1, <2>2
  <2>4. ASSUME NEW k \in 1 .. m + 1 PROVE g[k] = G[<<k, g[k - 1]>>]
    <3>1. CASE k = m + 1
      BY <3>1
    <3>2. CASE k \in 1 .. m
      BY <2>1, <3>2
    <3> QED BY <3>1, <3>2
  <2>5. P(g, m + 1)
    BY <2>3, <2>4
  <2>6. \E h : P(h, m + 1)
    <3> HIDE DEF g, P
    <3> QED BY <2>5
  <2> QED BY <2>6
<1>3. ASSUME NEW m \in Nat, m \in S PROVE m + 1 \in S
  <2>1. CASE m + 1 <= n
    BY <1>2, <1>3, <2>1
  <2>2. CASE ~(m + 1 <= n)
    BY <2>2
  <2> QED BY <2>1, <2>2
<1>4. Nat \subseteq S
  <2> HIDE DEF S
  <2> QED BY <1>1, <1>3, SetInduction
<1>5. \E f : P(f, n)
  <2> HIDE DEF P
  <2> QED BY <1>4
<1> QED BY <1>5 DEF Iterates

\* Every table with that property has its entries in T.
LEMMA IterationType ==
  ASSUME NEW n \in Nat, NEW T, NEW f, f[0] \in T,
         \A k \in 1 .. n : f[k - 1] \in T => f[k] \in T
  PROVE  \A k \in 0 .. n : f[k] \in T
<1> DEFINE S == {m \in Nat : m <= n => f[m] \in T}
<1>1. 0 \in S
  OBVIOUS
<1>2. ASSUME NEW m \in Nat, m \in S PROVE m + 1 \in S
  <2>1. CASE m + 1 <= n
    <3>1. m + 1 \in 1 .. n /\ (m + 1) - 1 = m /\ f[m] \in T
      BY <1>2, <2>1
    <3> QED BY <3>1
  <2> QED BY <2>1
<1>3. Nat \subseteq S
  <2> HIDE DEF S
  <2> QED BY <1>1, <1>2, SetInduction
<1> QED BY <1>3

-----------------------------------------------------------------------------
(***************************************************************************)
(* The sum of a table column.                                              *)
(***************************************************************************)
\* The satoshis depend only on the column's values in the rows summed, so a
\* change to other rows or other columns leaves a vault's spending alone.
LEMMA SatsExtensional ==
    ASSUME NEW f, NEW g, NEW K, \A k \in K : f[k] = g[k]
    PROVE  Sats(f, K) = Sats(g, K)
BY DEF Sats

\* The sum over no rows is zero: a fresh ledger has spent nothing.
LEMMA SumEmpty ==
    ASSUME NEW f
    PROVE  IsFiniteSet(Sats(f, {})) /\ SumOver(f, {}) = 0
<1>1. Sats(f, {}) = {}
  BY DEF Sats
<1> QED
  BY <1>1, FS_EmptySet DEF SumOver

\* One more row adds exactly its own value: what INSERT does to the SUM that
\* the next reservation reads.
LEMMA SumInsert ==
    ASSUME NEW f, NEW g, NEW K, NEW k, k \notin K,
           \A x \in K : g[x] = f[x],
           g[k] \in Nat,
           IsFiniteSet(Sats(f, K))
    PROVE  /\ IsFiniteSet(Sats(g, K \cup {k}))
           /\ SumOver(g, K \cup {k}) = SumOver(f, K) + g[k]
<1> DEFINE Old == Sats(f, K)
           New == {k} \X (1..g[k])
<1>1. Sats(g, K \cup {k}) = Old \cup New
  <2>1. Sats(g, K) = Old
    BY SatsExtensional
  <2>2. Sats(g, K \cup {k}) = Sats(g, K) \cup New
    BY SMTT(30) DEF Sats
  <2> QED BY <2>1, <2>2
<1>2. Old \cap New = {}
  BY DEF Sats
<1>3. IsFiniteSet(New) /\ Cardinality(New) = g[k]
  <2>1. IsFiniteSet(1..g[k]) /\ Cardinality(1..g[k]) = g[k]
    <3>1. 1 \in Int /\ g[k] \in Int
      OBVIOUS
    <3>2. /\ IsFiniteSet(1..g[k])
          /\ Cardinality(1..g[k]) = IF 1 > g[k] THEN 0 ELSE g[k] - 1 + 1
      BY <3>1, FS_Interval, Zenon
    <3>3. (IF 1 > g[k] THEN 0 ELSE g[k] - 1 + 1) = g[k]
      OBVIOUS
    <3> QED
      BY <3>2, <3>3, Zenon
  <2>2. IsFiniteSet({k}) /\ Cardinality({k}) = 1
    BY FS_Singleton
  <2>3. /\ IsFiniteSet({k} \X (1..g[k]))
        /\ Cardinality({k} \X (1..g[k])) = Cardinality({k}) * Cardinality(1..g[k])
    BY <2>1, <2>2, FS_Product, Zenon
  <2> QED
    BY <2>1, <2>2, <2>3
<1>4. Cardinality(Old) \in Nat
  BY FS_CardinalityType
<1>5. Cardinality(Old \cap New) = 0
  BY <1>2, FS_EmptySet
<1>6. /\ IsFiniteSet(Old \cup New)
      /\ Cardinality(Old \cup New) = Cardinality(Old) + Cardinality(New) - Cardinality(Old \cap New)
  BY <1>3, FS_Union
<1>7. SumOver(f, K) = Cardinality(Old) /\ SumOver(g, K \cup {k}) = Cardinality(Old \cup New)
  BY <1>1 DEF SumOver
<1>8. IsFiniteSet(Sats(g, K \cup {k}))
  BY <1>1, <1>6, Zenon
<1> HIDE DEF Old, New
<1>9. SumOver(g, K \cup {k}) = SumOver(f, K) + g[k]
  BY <1>3, <1>4, <1>5, <1>6, <1>7
<1> QED
  BY <1>8, <1>9, Zenon

\* One row's value grows by one and so does the sum: an opcode that an input
\* executes counts once in the work of the request.
LEMMA SumIncrement ==
    ASSUME NEW f, NEW g, NEW K, NEW k \in K, f[k] \in Nat, g[k] = f[k] + 1,
           \A x \in K : x # k => g[x] = f[x],
           IsFiniteSet(Sats(f, K))
    PROVE  /\ IsFiniteSet(Sats(g, K))
           /\ SumOver(g, K) = SumOver(f, K) + 1
<1> DEFINE new == <<k, g[k]>>
<1>1. Sats(g, K) = Sats(f, K) \cup {new}
  <2>1. \A x \in K : \A n : n \in 1 .. g[x] <=> n \in 1 .. f[x] \/ (x = k /\ n = g[k])
    OBVIOUS
  <2>2. \A z : z \in Sats(g, K) <=> \E x \in K : \E n \in 1 .. g[x] : z = <<x, n>>
    BY DEF Sats
  <2>3. \A z : z \in Sats(f, K) <=> \E x \in K : \E n \in 1 .. f[x] : z = <<x, n>>
    BY DEF Sats
  <2> QED
    BY <2>1, <2>2, <2>3
<1>2. new \notin Sats(f, K)
  BY DEF Sats
<1> HIDE DEF new
<1>3. /\ IsFiniteSet(Sats(f, K) \cup {new})
      /\ Cardinality(Sats(f, K) \cup {new}) = Cardinality(Sats(f, K)) + 1
  BY <1>2, FS_AddElement
<1> QED
  BY <1>1, <1>3 DEF SumOver

\* The same for a table that already has the row: the sum takes it in.
LEMMA SumOneMore ==
  ASSUME NEW f, NEW K, NEW k, k \notin K, f[k] \in Nat, IsFiniteSet(Sats(f, K))
  PROVE  IsFiniteSet(Sats(f, K \cup {k})) /\ SumOver(f, K \cup {k}) = SumOver(f, K) + f[k]
<1>1. \A p, q, A, x :
         /\ x \notin A
         /\ \A y \in A : q[y] = p[y]
         /\ q[x] \in Nat
         /\ IsFiniteSet(Sats(p, A))
         => /\ IsFiniteSet(Sats(q, A \cup {x}))
            /\ SumOver(q, A \cup {x}) = SumOver(p, A) + q[x]
  BY SumInsert
<1> QED BY <1>1

-----------------------------------------------------------------------------
(***************************************************************************)
(* Products and division.                                                  *)
(***************************************************************************)
\* Products of naturals keep the order of their factors.
LEMMA TimesMonotone ==
  ASSUME NEW i \in Nat, NEW b \in Nat, NEW l \in Nat, i <= b
  PROVE  i * l <= l * b
<1>1. b - i \in Nat
  OBVIOUS
<1>2. (b - i) * l \in Nat
  BY <1>1
<1>3. l * b = i * l + (b - i) * l
  OBVIOUS
<1>4. i * l \in Nat
  OBVIOUS
<1> QED BY <1>2, <1>3, <1>4

\* A factor common to two summands.
LEMMA Distribute ==
  ASSUME NEW a \in Int, NEW b \in Int, NEW c \in Int, NEW d \in Int
  PROVE  (a + b) * c * d = a * c * d + b * c * d
OBVIOUS

\* The two halves of a division.
LEMMA Division ==
  ASSUME NEW a \in Int, NEW b \in Nat \ {0}
  PROVE  a = b * (a \div b) + (a % b) /\ a % b \in 0 .. b - 1 /\ a \div b \in Int
OBVIOUS

\* Only one quotient and one remainder make up a number.
LEMMA DivisionUnique ==
  ASSUME NEW q \in Int, NEW b \in Nat \ {0}, NEW r \in 0 .. b - 1
  PROVE  (q * b + r) \div b = q /\ (q * b + r) % b = r
OBVIOUS

-----------------------------------------------------------------------------
(***************************************************************************)
(* Sequences.                                                              *)
(***************************************************************************)
\* What a sequence over a set holds.
LEMMA EltOfSeq ==
  ASSUME NEW S, NEW s \in Seq(S), NEW n \in 1 .. Len(s)
  PROVE  s[n] \in S
OBVIOUS

\* Sequences of one length with the same entries are one sequence.
LEMMA SameSeq ==
  ASSUME NEW S, NEW s \in Seq(S), NEW t \in Seq(S),
         Len(s) = Len(t), \A i \in 1 .. Len(s) : s[i] = t[i]
  PROVE  s = t
OBVIOUS

\* The entries of two sequences joined.
LEMMA ConcatIs ==
  ASSUME NEW T, NEW p \in Seq(T), NEW q \in Seq(T)
  PROVE  /\ p \o q \in Seq(T) /\ Len(p \o q) = Len(p) + Len(q)
         /\ \A k \in 1 .. Len(p) : (p \o q)[k] = p[k]
         /\ \A k \in 1 .. Len(q) : (p \o q)[Len(p) + k] = q[k]
OBVIOUS

\* The length of two sequences joined.
LEMMA JoinedLength ==
  ASSUME NEW T, NEW s \in Seq(T), NEW t \in Seq(T)
  PROVE  Len(s \o t) = Len(s) + Len(t)
OBVIOUS

\* Appending stays over the set.
LEMMA AppendInSeq ==
  ASSUME NEW S, NEW s \in Seq(S), NEW x \in S
  PROVE  Append(s, x) \in Seq(S)
OBVIOUS

\* Appending is joining with a sequence of one.
LEMMA AppendIs ==
  ASSUME NEW T, NEW s \in Seq(T), NEW e \in T
  PROVE  s \o <<e>> = Append(s, e)
<1>1. s \o <<e>> \in Seq(T) /\ Append(s, e) \in Seq(T)
  OBVIOUS
<1>2. Len(s \o <<e>>) = Len(s) + 1 /\ Len(Append(s, e)) = Len(s) + 1
  OBVIOUS
<1>3. \A k \in 1 .. Len(s) + 1 : (s \o <<e>>)[k] = Append(s, e)[k]
  OBVIOUS
<1> QED BY <1>1, <1>2, <1>3, SameSeq

\* The entries of a sequence one longer.
LEMMA AppendedIs ==
  ASSUME NEW T, NEW s \in Seq(T), NEW x \in T
  PROVE  /\ Append(s, x) \in Seq(T) /\ Len(Append(s, x)) = Len(s) + 1
         /\ \A i \in 1 .. Len(s) : Append(s, x)[i] = s[i]
         /\ Append(s, x)[Len(s) + 1] = x
OBVIOUS

\* A triple is a pair with one appended, and the pair its first two.
LEMMA TripleIs ==
  ASSUME NEW x, NEW y, NEW z
  PROVE  /\ Append(<<x, y>>, z) = <<x, y, z>>
         /\ SubSeq(<<x, y, z>>, 1, 2) = <<x, y>>
<1> DEFINE T == {x, y, z}
           a == <<x, y>>
           b == <<x, y, z>>
<1>1. a \in Seq(T) /\ Len(a) = 2 /\ a[1] = x /\ a[2] = y
  OBVIOUS
<1>2. b \in Seq(T) /\ Len(b) = 3 /\ b[1] = x /\ b[2] = y /\ b[3] = z
  OBVIOUS
<1>3. z \in T
  OBVIOUS
<1> HIDE DEF T, a, b
<1>4. Append(a, z) = b
  <2>0. /\ Append(a, z) \in Seq(T) /\ Len(Append(a, z)) = Len(a) + 1
        /\ \A i \in 1 .. Len(a) : Append(a, z)[i] = a[i]
        /\ Append(a, z)[Len(a) + 1] = z
    BY <1>1, <1>3, AppendedIs
  <2> DEFINE c == Append(a, z)
  <2> HIDE DEF c
  <2>1. c \in Seq(T) /\ Len(c) = 3 /\ c[1] = x /\ c[2] = y /\ c[3] = z
    BY <1>1, <2>0 DEF c
  <2>2. \A i \in 1 .. 3 : c[i] = b[i]
    <3> SUFFICES ASSUME NEW i \in 1 .. 3 PROVE c[i] = b[i]
      OBVIOUS
    <3>1. i = 1 \/ i = 2 \/ i = 3
      OBVIOUS
    <3> QED BY <1>2, <2>1, <3>1
  <2> QED BY <1>2, <2>1, <2>2, SameSeq DEF c
<1>5. SubSeq(b, 1, 2) = a
  <2>1. SubSeq(b, 1, 2) \in Seq(T) /\ Len(SubSeq(b, 1, 2)) = 2
    BY <1>2
  <2>2. \A i \in 1 .. 2 : SubSeq(b, 1, 2)[i] = a[i]
    <3> SUFFICES ASSUME NEW i \in 1 .. 2 PROVE SubSeq(b, 1, 2)[i] = a[i]
      OBVIOUS
    <3>1. i = 1 \/ i = 2
      OBVIOUS
    <3>2. SubSeq(b, 1, 2)[i] = b[i]
      BY <1>2
    <3> QED BY <1>1, <1>2, <3>1, <3>2
  <2> QED BY <1>1, <2>1, <2>2, SameSeq
<1> QED BY <1>4, <1>5 DEF a, b

\* Sequences of one entry.
LEMMA Singles ==
  ASSUME NEW T, NEW S, S \subseteq T
  PROVE  {<<x>> : x \in S} \subseteq Seq(T)
<1>1. ASSUME NEW x \in S PROVE <<x>> \in Seq(T)
  OBVIOUS
<1> QED BY <1>1
=============================================================================
