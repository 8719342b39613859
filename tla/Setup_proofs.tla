---------------------------- MODULE Setup_proofs ----------------------------
(***************************************************************************)
(* Proofs about the setup programs, for any components, registries,        *)
(* stacks, checkouts, machines and agendas:                                *)
(*   - the lists they work through: what is kept of a list (Places), lists *)
(*     flattened, joined, and moved from "to do" to "done";                *)
(*   - the depth-first order of the host configuration;                    *)
(*   - an invariant per program, and SetupInv, their conjunction;          *)
(*   - every property of the run Setup.                                    *)
(***************************************************************************)
EXTENDS Setup, FiniteSetTheorems, SequenceTheorems, WellFoundedInduction, TLAPS

LEMMA LeastExists ==
  ASSUME NEW S \in SUBSET Nat, S # {}
  PROVE  \E n \in S : \A m \in S : n <= m
<1>1. \E n \in S : \A m \in S : ~(<<m, n>> \in OpToRel(<, Nat))
  BY NatLessThanWellFounded, WFMin
<1>2. \A m, n \in Nat : m < n => <<m, n>> \in OpToRel(<, Nat)
  BY DEF OpToRel
<1>3. PICK n \in S : \A m \in S : ~(<<m, n>> \in OpToRel(<, Nat))
  BY <1>1
<1>4. \A m \in S : ~(m < n)
  BY <1>2, <1>3
<1> QED
  BY <1>4

\* Induction, with the numbers a formula holds of given as a set.
LEMMA Induct ==
  ASSUME NEW S \in SUBSET Nat, 0 \in S, \A n \in S : n + 1 \in S
  PROVE  S = Nat
<1> SUFFICES ASSUME Nat \ S # {} PROVE FALSE
  OBVIOUS
<1>1. PICK n \in Nat \ S : \A m \in Nat \ S : n <= m
  <2>1. Nat \ S \in SUBSET Nat
    OBVIOUS
  <2> QED
    BY <2>1, LeastExists
<1>2. n # 0 /\ n - 1 \in Nat
  BY <1>1
<1>3. n - 1 \in S
  BY <1>1, <1>2
<1> QED
  BY <1>1, <1>2, <1>3

\* How many of the places are not behind k.
Rank(places, k) == Cardinality({j \in places : j <= k})

LEMMA PlacesFinite ==
  ASSUME NEW n \in Nat, NEW S \in SUBSET (1..n)
  PROVE  /\ IsFiniteSet(S) /\ Cardinality(S) \in Nat
         /\ \A T \in SUBSET S : IsFiniteSet(T) /\ Cardinality(T) \in Nat /\ Cardinality(T) <= Cardinality(S)
<1>1. IsFiniteSet(1..n)
  BY FS_Interval
<1>2. IsFiniteSet(S)
  BY <1>1, FS_Subset
<1>3. Cardinality(S) \in Nat
  BY <1>2, FS_CardinalityType
<1>4. ASSUME NEW T \in SUBSET S
      PROVE  IsFiniteSet(T) /\ Cardinality(T) \in Nat /\ Cardinality(T) <= Cardinality(S)
  BY <1>2, FS_Subset, FS_CardinalityType
<1> QED
  BY <1>2, <1>3, <1>4

LEMMA RankReached ==
  ASSUME NEW n \in Nat, NEW S \in SUBSET (1..n), NEW i \in 1..Cardinality(S)
  PROVE  \E k \in S : Rank(S, k) = i
<1> DEFINE Reached(m) == \A P \in SUBSET (1..m) : \A p \in 1..Cardinality(P) : \E k \in P : Rank(P, k) = p
           N == {m \in Nat : Reached(m)}
<1>1. 0 \in N
  <2>1. ASSUME NEW P \in SUBSET (1..0) PROVE Cardinality(P) = 0
    <3>1. P = {}
      OBVIOUS
    <3> QED
      BY <3>1, FS_EmptySet
  <2> QED
    BY <2>1
<1>2. ASSUME NEW m \in N PROVE m + 1 \in N
  <2> SUFFICES ASSUME NEW P \in SUBSET (1..(m + 1)), NEW p \in 1..Cardinality(P)
               PROVE  \E k \in P : Rank(P, k) = p
    OBVIOUS
  <2>1. CASE m + 1 \notin P
    <3>1. P \in SUBSET (1..m)
      BY <2>1
    <3> QED
      BY <3>1, <1>2
  <2>2. CASE m + 1 \in P
    <3> DEFINE Q == P \ {m + 1}
    <3>1. Q \in SUBSET (1..m)
      OBVIOUS
    <3>2. IsFiniteSet(Q) /\ Cardinality(Q) \in Nat
      BY <3>1, PlacesFinite
    <3>3. Cardinality(P) = Cardinality(Q) + 1
      <4>1. P = Q \union {m + 1} /\ m + 1 \notin Q
        BY <2>2
      <4> HIDE DEF Q
      <4> QED
        BY <3>2, <4>1, FS_AddElement
    <3>4. CASE p = Cardinality(P)
      <4>1. {j \in P : j <= m + 1} = P
        <5>1. \A j \in P : j <= m + 1
          OBVIOUS
        <5> QED
          BY <5>1
      <4> QED
        BY <2>2, <3>4, <4>1 DEF Rank
    <3>5. CASE p # Cardinality(P)
      <4>1. p \in 1..Cardinality(Q)
        BY <3>2, <3>3, <3>5
      <4>2. PICK k \in Q : Rank(Q, k) = p
        BY <3>1, <4>1, <1>2
      <4>3. {j \in P : j <= k} = {j \in Q : j <= k}
        OBVIOUS
      <4> QED
        BY <4>2, <4>3 DEF Rank
    <3> QED
      BY <3>4, <3>5
  <2> QED
    BY <2>1, <2>2
<1>3. N = Nat
  <2>1. N \in SUBSET Nat
    OBVIOUS
  <2> HIDE DEF N
  <2> QED
    BY <1>1, <1>2, <2>1, Induct
<1> QED
  BY <1>3

LEMMA PlaceFacts ==
  ASSUME NEW n \in Nat, NEW S \in SUBSET (1..n)
  PROVE  /\ Cardinality(S) \in Nat
         /\ \A i \in 1..Cardinality(S) : Place(S, i) \in S
         /\ \A i, j \in 1..Cardinality(S) : i < j => Place(S, i) < Place(S, j)
         /\ \A k \in S : \E i \in 1..Cardinality(S) : Place(S, i) = k
<1>1. Cardinality(S) \in Nat
  BY PlacesFinite
<1>2. ASSUME NEW i \in 1..Cardinality(S)
      PROVE  Place(S, i) \in S /\ Rank(S, Place(S, i)) = i
  <2>1. Place(S, i) = CHOOSE k \in S : Rank(S, k) = i
    BY DEF Place, Rank
  <2>2. \E k \in S : Rank(S, k) = i
    BY RankReached
  <2> QED
    BY <2>1, <2>2
<1>3. ASSUME NEW a \in S, NEW b \in S, a < b
      PROVE  Rank(S, a) < Rank(S, b)
  <2> DEFINE A == {j \in S : j <= a}
             B == {j \in S : j <= b}
  <2>1. B \subseteq S /\ A \subseteq S /\ b \notin A /\ A \union {b} \subseteq B
    <3>1. a \in Nat /\ b \in Nat /\ a <= b /\ ~(b <= a)
      BY <1>3
    <3>2. \A j \in S : j <= a => j <= b
      BY <3>1
    <3>3. A \subseteq B /\ B \subseteq S
      BY <3>2
    <3>4. b \in B /\ b \notin A
      BY <3>1
    <3> HIDE DEF A, B
    <3> QED
      BY <3>3, <3>4
  <2> HIDE DEF A, B
  <2>2. IsFiniteSet(A) /\ IsFiniteSet(B) /\ Cardinality(A) \in Nat /\ Cardinality(B) \in Nat
    BY <2>1, PlacesFinite
  <2>3. Cardinality(A \union {b}) = Cardinality(A) + 1
    BY <2>1, <2>2, FS_AddElement
  <2>4. Cardinality(A \union {b}) <= Cardinality(B)
    BY <2>1, <2>2, FS_Subset
  <2> QED
    BY <2>2, <2>3, <2>4 DEF Rank, A, B
<1>4. ASSUME NEW k \in S PROVE Rank(S, k) \in 1..Cardinality(S)
  <2> DEFINE K == {j \in S : j <= k}
  <2>1. K \in SUBSET S /\ k \in K
    OBVIOUS
  <2> HIDE DEF K
  <2>2. Cardinality(K) \in Nat /\ Cardinality(K) <= Cardinality(S) /\ IsFiniteSet(K)
    BY <2>1, PlacesFinite
  <2>3. Cardinality(K) # 0
    BY <2>1, <2>2, FS_EmptySet
  <2> QED
    BY <1>1, <2>2, <2>3 DEF Rank, K
<1>5. ASSUME NEW i \in 1..Cardinality(S), NEW j \in 1..Cardinality(S), i < j
      PROVE  Place(S, i) < Place(S, j)
  <2> DEFINE a == Place(S, i)
             b == Place(S, j)
  <2>1. a \in S /\ b \in S /\ Rank(S, a) = i /\ Rank(S, b) = j
    BY <1>2
  <2> HIDE DEF a, b
  <2>2. i \in Nat /\ j \in Nat /\ a \in Nat /\ b \in Nat
    BY <1>1, <2>1
  <2>3. ~(b < a) /\ a # b
    BY <1>3, <1>5, <2>1, <2>2
  <2>4. a < b
    BY <2>2, <2>3
  <2> QED
    BY <2>4 DEF a, b
<1>6. ASSUME NEW k \in S
      PROVE  \E i \in 1..Cardinality(S) : Place(S, i) = k
  <2> DEFINE i == Rank(S, k)
             p == Place(S, i)
  <2>1. i \in 1..Cardinality(S)
    BY <1>4
  <2>2. p \in S /\ Rank(S, p) = i
    BY <1>2, <2>1
  <2> HIDE DEF p
  <2>3. ~(p < k) /\ ~(k < p)
    BY <1>1, <1>3, <2>1, <2>2
  <2>4. p = k
    BY <2>2, <2>3
  <2> QED
    BY <2>1, <2>4 DEF p
<1> QED
  BY <1>1, <1>2, <1>5, <1>6

\* What is kept of a list: those elements, in the list's order.
LEMMA AmongFacts ==
  ASSUME NEW T, NEW q \in Seq(T), NEW S \in SUBSET DOMAIN q
  PROVE  /\ Among(q, S) \in Seq(T)
         /\ ToSet(Among(q, S)) = {q[k] : k \in S}
         /\ \E at \in [DOMAIN Among(q, S) -> S] :
              /\ \A i \in DOMAIN at : Among(q, S)[i] = q[at[i]]
              /\ \A i, j \in DOMAIN at : i < j => at[i] < at[j]
              /\ \A k \in S : \E i \in DOMAIN at : at[i] = k
<1> DEFINE n == Cardinality(S)
           at == [i \in 1..n |-> Place(S, i)]
           a == Among(q, S)
<1>1. Len(q) \in Nat /\ DOMAIN q = 1..Len(q) /\ S \in SUBSET (1..Len(q))
  OBVIOUS
<1>2. /\ n \in Nat
      /\ \A i \in 1..n : Place(S, i) \in S
      /\ \A i, j \in 1..n : i < j => Place(S, i) < Place(S, j)
      /\ \A k \in S : \E i \in 1..n : Place(S, i) = k
  BY <1>1, PlaceFacts
<1> HIDE DEF n
<1>3. a = [i \in 1..n |-> q[Place(S, i)]]
  BY DEF Among, n
<1>4. a \in Seq(T) /\ DOMAIN a = 1..n
  <2>1. \A i \in 1..n : q[Place(S, i)] \in T
    BY <1>1, <1>2
  <2> QED
    BY <1>2, <1>3, <2>1
<1>5. /\ at \in [DOMAIN a -> S]
      /\ \A i \in DOMAIN at : a[i] = q[at[i]]
      /\ \A i, j \in DOMAIN at : i < j => at[i] < at[j]
      /\ \A k \in S : \E i \in DOMAIN at : at[i] = k
  <2> HIDE DEF a
  <2> QED
    BY <1>2, <1>3, <1>4
<1>6. ToSet(a) = {q[k] : k \in S}
  <2> HIDE DEF a, at
  <2>1. \A x \in ToSet(a) : \E i \in DOMAIN a : x = a[i]
    BY DEF ToSet
  <2>2. \A i \in DOMAIN a : a[i] \in ToSet(a)
    BY DEF ToSet
  <2>3. DOMAIN at = DOMAIN a
    BY <1>5
  <2> QED
    BY <1>5, <2>1, <2>2, <2>3
<1> QED
  <2> HIDE DEF a, at
  <2>1. a \in Seq(T)
    BY <1>4
  <2> QED
    BY <1>5, <1>6, <2>1 DEF a

LEMMA ThoseFacts ==
  ASSUME NEW T, NEW q \in Seq(T), NEW S
  PROVE  /\ Those(q, S) \in Seq(S \intersect T)
         /\ ToSet(Those(q, S)) = ToSet(q) \intersect S
<1> DEFINE P == {i \in DOMAIN q : q[i] \in S}
<1>1. P \in SUBSET DOMAIN q
  OBVIOUS
<1>2. Among(q, P) \in Seq(T) /\ ToSet(Among(q, P)) = {q[k] : k \in P}
  BY <1>1, AmongFacts
<1>3. {q[k] : k \in P} = ToSet(q) \intersect S
  BY DEF ToSet
<1>4. Those(q, S) \in Seq(T) /\ ToSet(Those(q, S)) = ToSet(q) \intersect S
  BY <1>2, <1>3 DEF Those
<1>5. \A i \in DOMAIN Those(q, S) : Those(q, S)[i] \in S \intersect T
  <2>1. \A i \in DOMAIN Those(q, S) : Those(q, S)[i] \in ToSet(Those(q, S))
    BY DEF ToSet
  <2> QED
    BY <1>4, <2>1
<1> QED
  BY <1>4, <1>5

-----------------------------------------------------------------------------

\* Induction up to n.
LEMMA UpTo ==
  ASSUME NEW n \in Nat, NEW S, 0 \in S, \A i \in 1..n : i - 1 \in S => i \in S
  PROVE  0..n \subseteq S
<1> DEFINE N == {m \in Nat : m <= n => m \in S}
<1>1. 0 \in N
  OBVIOUS
<1>2. ASSUME NEW m \in N PROVE m + 1 \in N
  <2> SUFFICES ASSUME m + 1 <= n PROVE m + 1 \in S
    OBVIOUS
  <2>1. m + 1 \in 1..n /\ (m + 1) - 1 = m /\ m <= n
    OBVIOUS
  <2>2. m \in S
    BY <2>1
  <2> QED
    BY <2>1, <2>2
<1>3. N = Nat
  <2>1. N \in SUBSET Nat
    OBVIOUS
  <2> HIDE DEF N
  <2> QED
    BY <1>1, <1>2, <2>1, Induct
<1> QED
  BY <1>3

\* One value after the other, each from the one before.
OneByOne(V, a, n, step, r) ==
  r \in [0..n -> V] /\ r[0] = a /\ \A i \in 1..n : r[i] = step[i][r[i - 1]]

LEMMA Recursion ==
  ASSUME NEW V, NEW a \in V, NEW n \in Nat, NEW step \in [1..n -> [V -> V]]
  PROVE  \E r : OneByOne(V, a, n, step, r)
<1> DEFINE Runs(r, m) == r \in [0..m -> V] /\ r[0] = a /\ \A i \in 1..m : r[i] = step[i][r[i - 1]]
           S == {m \in 0..n : \E r : Runs(r, m)}
<1>1. 0 \in S
  <2>1. Runs([i \in 0..0 |-> a], 0)
    OBVIOUS
  <2>2. 0 \in 0..n
    OBVIOUS
  <2> HIDE DEF Runs
  <2> QED
    BY <2>1, <2>2
<1>2. ASSUME NEW m \in 1..n, m - 1 \in S PROVE m \in S
  <2>1. PICK r : Runs(r, m - 1)
    BY <1>2
  <2> DEFINE s == [i \in 0..m |-> IF i = m THEN step[m][r[m - 1]] ELSE r[i]]
  <2>2. /\ m \in Nat /\ m - 1 \in 0..(m - 1) /\ 0 \in 0..(m - 1) /\ m \in 0..m
        /\ \A i \in 0..m : i # m => i \in 0..(m - 1)
        /\ \A i \in 1..m : i # m => i \in 1..(m - 1) /\ i - 1 \in 0..(m - 1) /\ i - 1 # m
        /\ \A i \in 1..m : i \in 0..m /\ i - 1 \in 0..m
        /\ m - 1 # m /\ m # 0 /\ 0 \in 0..m
    OBVIOUS
  <2>3. r[m - 1] \in V /\ step[m][r[m - 1]] \in V
    BY <2>1, <2>2
  <2>4. s \in [0..m -> V]
    BY <2>1, <2>2, <2>3
  <2>5. s[0] = a
    BY <2>1, <2>2
  <2>6. ASSUME NEW i \in 1..m PROVE s[i] = step[i][s[i - 1]]
    <3>1. CASE i = m
      <4>1. s[i] = step[m][r[m - 1]] /\ s[i - 1] = r[m - 1]
        BY <2>2, <3>1
      <4> HIDE DEF s
      <4> QED
        BY <3>1, <4>1
    <3>2. CASE i # m
      <4>1. s[i] = r[i] /\ s[i - 1] = r[i - 1] /\ i \in 1..(m - 1)
        BY <2>2, <3>2
      <4> HIDE DEF s
      <4> QED
        BY <2>1, <4>1
    <3> QED
      BY <3>1, <3>2
  <2>7. Runs(s, m)
    BY <2>4, <2>5, <2>6
  <2> HIDE DEF s, Runs
  <2> QED
    BY <2>2, <2>7
<1>3. 0..n \subseteq S
  <2> HIDE DEF S
  <2> QED
    BY <1>1, <1>2, UpTo
<1> QED
  <2>1. n \in S
    BY <1>3
  <2>2. PICK r : Runs(r, n)
    BY <2>1
  <2> QED
    BY <2>2 DEF OneByOne

\* Every element of m comes from a section of ss that m has as it is.
MadeOf(ss, m) ==
  \A p \in DOMAIN m : \E k \in DOMAIN ss, o \in Nat :
    /\ p - o \in DOMAIN ss[k]
    /\ \A q \in DOMAIN ss[k] : o + q \in DOMAIN m /\ m[o + q] = ss[k][q]

\* m has every section of ss.
HasSections(m, ss) ==
  \A k \in DOMAIN ss : \E o \in Nat : \A q \in DOMAIN ss[k] :
    o + q \in DOMAIN m /\ m[o + q] = ss[k][q]

\* The lists of a list one behind the other: where each of them stands.
LEMMA FlattenFacts ==
  ASSUME NEW T, NEW ss \in Seq(Seq(T))
  PROVE  FlattenSeq(ss) \in Seq(T) /\ MadeOf(ss, FlattenSeq(ss)) /\ HasSections(FlattenSeq(ss), ss)
<1> DEFINE n == Len(ss)
           Laid(r, k, o) == \A q \in DOMAIN ss[k] : o + q \in DOMAIN r /\ r[o + q] = ss[k][q]
           Covers(r, m) == \A p \in DOMAIN r : \E k \in 1..m : \E o \in Nat : p - o \in DOMAIN ss[k] /\ Laid(r, k, o)
           Holds(r, m) == \A k \in 1..m : \E o \in Nat : Laid(r, k, o)
           Good(r, m) == r \in Seq(T) /\ Covers(r, m) /\ Holds(r, m)
<1>1. n \in Nat /\ DOMAIN ss = 1..n /\ \A k \in 1..n : ss[k] \in Seq(T)
  OBVIOUS
<1>2. Good(<<>>, 0)
  OBVIOUS
<1> HIDE DEF n
<1>3. ASSUME NEW m \in 1..n, NEW r, Good(r, m - 1)
      PROVE  Good(r \o ss[m], m)
  <2> DEFINE s == ss[m]
             t == r \o s
  <2>1. /\ r \in Seq(T) /\ s \in Seq(T) /\ Len(r) \in Nat /\ Len(s) \in Nat
        /\ DOMAIN r = 1..Len(r) /\ DOMAIN s = 1..Len(s)
    BY <1>1, <1>3
  <2> HIDE DEF s
  <2>2. /\ t \in Seq(T) /\ Len(t) = Len(r) + Len(s) /\ DOMAIN t = 1..(Len(r) + Len(s))
        /\ \A i \in DOMAIN r : i \in DOMAIN t /\ t[i] = r[i]
        /\ \A q \in DOMAIN s : Len(r) + q \in DOMAIN t /\ t[Len(r) + q] = s[q]
        /\ \A i \in DOMAIN t : i \in DOMAIN r \/ i - Len(r) \in DOMAIN s
    BY <2>1
  <2> HIDE DEF t
  <2>3. Laid(t, m, Len(r))
    BY <2>2 DEF s
  <2>4. ASSUME NEW k \in 1..(m - 1), NEW o \in Nat, Laid(r, k, o)
        PROVE  Laid(t, k, o)
    BY <2>2, <2>4
  <2>5. \A k \in 1..m : k \in 1..(m - 1) \/ k = m
    BY <1>1
  <2>6. Holds(t, m)
    <3> SUFFICES ASSUME NEW k \in 1..m PROVE \E o \in Nat : Laid(t, k, o)
      OBVIOUS
    <3>1. CASE k = m
      BY <2>1, <2>3, <3>1
    <3>2. CASE k \in 1..(m - 1)
      <4>1. PICK o \in Nat : Laid(r, k, o)
        BY <1>3, <3>2
      <4>2. Laid(t, k, o)
        BY <2>4, <3>2, <4>1
      <4> HIDE DEF Laid
      <4> QED
        BY <4>2
    <3> QED
      BY <2>5, <3>1, <3>2
  <2>7. Covers(t, m)
    <3> SUFFICES ASSUME NEW p \in DOMAIN t
                 PROVE  \E k \in 1..m : \E o \in Nat : p - o \in DOMAIN ss[k] /\ Laid(t, k, o)
      OBVIOUS
    <3>1. CASE p \in DOMAIN r
      <4>1. PICK k \in 1..(m - 1) : \E o \in Nat : p - o \in DOMAIN ss[k] /\ Laid(r, k, o)
        BY <1>3, <3>1
      <4>2. PICK o \in Nat : p - o \in DOMAIN ss[k] /\ Laid(r, k, o)
        BY <4>1
      <4>3. k \in 1..m
        BY <1>1
      <4>4. Laid(t, k, o)
        <5> HIDE DEF Laid
        <5> QED
          BY <2>4, <4>2
      <4> HIDE DEF Laid
      <4> QED
        BY <4>2, <4>3, <4>4
    <3>2. CASE p - Len(r) \in DOMAIN s
      <4>1. p - Len(r) \in DOMAIN ss[m] /\ m \in 1..m
        BY <3>2, <1>1 DEF s
      <4> HIDE DEF Laid
      <4> QED
        BY <2>1, <2>3, <4>1
    <3> QED
      BY <2>2, <3>1, <3>2
  <2> QED
    BY <2>2, <2>6, <2>7 DEF t, s
<1> HIDE DEF Covers, Holds, Laid
<1>4. Good(FlattenSeq(ss), n)
  <2>1. CASE n = 0
    <3>1. FlattenSeq(ss) = ss
      BY <2>1 DEF FlattenSeq, n
    <3>2. ss = <<>>
      BY <1>1, <2>1 DEF n
    <3> QED
      BY <1>2, <2>1, <3>1, <3>2
  <2>2. CASE n # 0
    <3> DEFINE Eq(f) == f = [i \in 1..n |-> IF i = 1 THEN ss[i] ELSE f[i - 1] \o ss[i]]
               F == CHOOSE f : Eq(f)
               step == [i \in 1..n |-> [r \in Seq(T) |-> r \o ss[i]]]
    <3>1. step \in [1..n -> [Seq(T) -> Seq(T)]] /\ <<>> \in Seq(T)
      BY <1>1
    <3>2. \A i \in 1..n : \A r \in Seq(T) : step[i][r] = r \o ss[i]
      OBVIOUS
    <3> HIDE DEF step
    <3> DEFINE V == Seq(T)
               e == <<>>
    <3>3. PICK r \in [0..n -> Seq(T)] : r[0] = <<>> /\ \A i \in 1..n : r[i] = step[i][r[i - 1]]
      <4>1. e \in V /\ step \in [1..n -> [V -> V]]
        BY <3>1
      <4> HIDE DEF V, e
      <4>2. n \in Nat /\ e \in V
        BY <1>1, <4>1
      <4>3. \E r : OneByOne(V, e, n, step, r)
        BY <4>1, <4>2, Recursion
      <4> QED
        BY <4>3 DEF V, e, OneByOne
    <3>4. \A i \in 1..n : i - 1 \in 0..n /\ i \in 0..n /\ r[i - 1] \in Seq(T) /\ r[i] = r[i - 1] \o ss[i]
      <4>1. \A i \in 1..n : i - 1 \in 0..n /\ i \in 0..n
        BY <1>1
      <4> QED
        BY <3>2, <3>3, <4>1
    <3> DEFINE f == [i \in 1..n |-> r[i]]
    <3>5. Eq(f)
      <4>1. ASSUME NEW i \in 1..n
            PROVE  r[i] = IF i = 1 THEN ss[i] ELSE f[i - 1] \o ss[i]
        <5>1. CASE i = 1
          <6>1. 1 \in 1..n /\ ss[1] \in Seq(T)
            BY <1>1, <5>1
          <6>2. r[1] = r[1 - 1] \o ss[1]
            BY <3>4, <6>1
          <6>3. r[1] = <<>> \o ss[1]
            <7>1. 1 - 1 = 0
              OBVIOUS
            <7>2. r[1 - 1] = <<>>
              BY <3>3, <7>1
            <7> QED
              BY <6>2, <7>2
          <6>4. <<>> \o ss[1] = ss[1]
            BY <6>1
          <6>5. r[1] = ss[1]
            BY <6>3, <6>4
          <6> QED
            BY <5>1, <6>5
        <5>2. CASE i # 1
          <6>1. i - 1 \in 1..n
            BY <1>1, <5>2
          <6>2. f[i - 1] = r[i - 1]
            BY <6>1
          <6> QED
            BY <3>4, <5>2, <6>2
        <5> QED
          BY <5>1, <5>2
      <4> QED
        BY <4>1
    <3>6. Eq(F)
      <4> HIDE DEF f, Eq
      <4> QED
        BY <3>5
    <3>7. FlattenSeq(ss) = F[n]
      BY <2>2 DEF FlattenSeq, n
    <3> HIDE DEF F
    <3> DEFINE S == {m \in 0..n : m = 0 \/ Good(F[m], m)}
    <3>8. ASSUME NEW m \in 1..n, m - 1 \in S PROVE m \in S
      <4>1. CASE m = 1
        <5>1. F[1] = ss[1] /\ ss[1] \in Seq(T)
          BY <1>1, <3>6, <4>1
        <5>2. Good(<<>> \o ss[1], 1)
          <6>1. 1 \in 1..n /\ 1 - 1 = 0
            BY <4>1
          <6> HIDE DEF Good
          <6>2. Good(<<>>, 1 - 1)
            BY <1>2, <6>1
          <6> QED
            BY <1>3, <6>1, <6>2
        <5>3. <<>> \o ss[1] = ss[1]
          BY <5>1
        <5> QED
          BY <4>1, <5>1, <5>2, <5>3
      <4>2. CASE m # 1
        <5>1. m - 1 # 0 /\ m \in 0..n
          BY <1>1, <4>2
        <5>2. F[m] = F[m - 1] \o ss[m]
          BY <3>6, <4>2
        <5>3. Good(F[m - 1], m - 1)
          BY <3>8, <5>1
        <5>4. Good(F[m - 1] \o ss[m], m)
          BY <1>3, <5>3
        <5> HIDE DEF Good
        <5> QED
          BY <5>1, <5>2, <5>4
      <4> QED
        BY <4>1, <4>2
    <3>9. 0..n \subseteq S
      <4>1. 0 \in S
        BY <1>1
      <4> HIDE DEF S
      <4> QED
        BY <1>1, <3>8, <4>1, UpTo
    <3> HIDE DEF Good
    <3> QED
      BY <1>1, <2>2, <3>7, <3>9
  <2> QED
    BY <2>1, <2>2
<1> DEFINE r == FlattenSeq(ss)
<1>5. r \in Seq(T) /\ Covers(r, n) /\ Holds(r, n)
  BY <1>4
<1> HIDE DEF r
<1>6. MadeOf(ss, r)
  BY <1>1, <1>5 DEF MadeOf, Covers, Laid
<1>7. HasSections(r, ss)
  BY <1>1, <1>5 DEF HasSections, Holds, Laid
<1> QED
  BY <1>5, <1>6, <1>7 DEF r

-----------------------------------------------------------------------------

Args == Order \X Feature \X SUBSET Feature

\* What the visits leave in result, one after the other.
VisitsEach(visit, result, features, visiting, u) ==
  /\ u \in [0..Len(features) -> Order]
  /\ u[0] = result
  /\ \A i \in 1..Len(features) : u[i] = visit[<<u[i - 1], features[i], visiting>>]
  /\ visitAll(visit, result, features, visiting) = u[Len(features)]

LEMMA VisitAllFacts ==
  ASSUME NEW visit \in [Args -> Order], NEW result \in Order, NEW features \in Seq(Feature),
         NEW visiting \in SUBSET Feature
  PROVE  \E u : VisitsEach(visit, result, features, visiting, u)
<1> DEFINE n == Len(features)
           Eq(u) == u = [i \in 0..n |-> IF i = 0 THEN result
                                                 ELSE visit[<<u[i - 1], features[i], visiting>>]]
           U == CHOOSE u : Eq(u)
           step == [i \in 1..n |-> [r \in Order |-> visit[<<r, features[i], visiting>>]]]
<1>1. n \in Nat /\ \A i \in 1..n : features[i] \in Feature
  OBVIOUS
<1>2. visitAll(visit, result, features, visiting) = U[n]
  BY DEF visitAll
<1> HIDE DEF n
<1>3. \A i \in 1..n : \A r \in Order : visit[<<r, features[i], visiting>>] \in Order
  BY <1>1 DEF Args
<1>4. /\ step \in [1..n -> [Order -> Order]]
      /\ \A i \in 1..n : \A r \in Order : step[i][r] = visit[<<r, features[i], visiting>>]
  BY <1>3
<1> HIDE DEF step
<1>5. PICK r \in [0..n -> Order] : r[0] = result /\ \A i \in 1..n : r[i] = step[i][r[i - 1]]
  <2>1. n \in Nat
    BY <1>1
  <2>2. step \in [1..n -> [Order -> Order]]
    BY <1>4
  <2>3. \E r : OneByOne(Order, result, n, step, r)
    BY <2>1, <2>2, Recursion
  <2> QED
    BY <2>3 DEF OneByOne
<1>6. \A i \in 1..n : i - 1 \in 0..n /\ i \in 0..n /\ i # 0
  BY <1>1
<1>7. \A i \in 0..n : i = 0 \/ i \in 1..n
  BY <1>1
<1>8. Eq(r)
  <2>1. \A i \in 1..n : r[i] = visit[<<r[i - 1], features[i], visiting>>]
    BY <1>4, <1>5, <1>6
  <2>2. r = [i \in 0..n |-> r[i]]
    BY <1>5
  <2> QED
    BY <1>5, <1>7, <2>1, <2>2
<1>9. Eq(U)
  <2> HIDE DEF Eq
  <2> QED
    BY <1>8
<1> HIDE DEF U
<1>10. /\ DOMAIN U = 0..n /\ U[0] = result
       /\ \A i \in 1..n : U[i] = visit[<<U[i - 1], features[i], visiting>>]
  BY <1>1, <1>6, <1>9
<1> DEFINE S == {m \in 0..n : U[m] \in Order}
<1>11. 0..n \subseteq S
  <2>1. 0 \in S
    BY <1>1, <1>10
  <2>2. \A i \in 1..n : i - 1 \in S => i \in S
    BY <1>3, <1>6, <1>10
  <2> HIDE DEF S
  <2> QED
    BY <1>1, <2>1, <2>2, UpTo
<1>12. U \in [0..n -> Order]
  <2>1. U = [i \in 0..n |-> U[i]]
    BY <1>9
  <2>2. \A i \in 0..n : U[i] \in Order
    BY <1>11
  <2> QED
    BY <2>1, <2>2
<1> QED
  BY <1>2, <1>10, <1>12 DEF n, VisitsEach

Visited(inner, requires, selected, result, f, visiting) ==
  LET after == visitAll(inner, result, Those(requires[f], selected), visiting \union {f})
  IN IF result = Cycle \/ f \in visiting THEN Cycle
     ELSE IF f \in ToSet(result) THEN result
     ELSE IF after = Cycle THEN Cycle ELSE Append(after, f)

\* What a visit requires of the selection, as visited.
LEMMA NeededFacts ==
  ASSUME NEW requires \in [Feature -> Seq(Feature)], NEW selected \in SUBSET Feature, NEW f \in Feature
  PROVE  /\ Those(requires[f], selected) \in Seq(selected)
         /\ Those(requires[f], selected) \in Seq(Feature)
         /\ ToSet(Those(requires[f], selected)) = ToSet(requires[f]) \intersect selected
<1>1. requires[f] \in Seq(Feature)
  OBVIOUS
<1>2. Those(requires[f], selected) \in Seq(selected \intersect Feature)
  BY <1>1, ThoseFacts
<1>3. ToSet(Those(requires[f], selected)) = ToSet(requires[f]) \intersect selected
  BY <1>1, ThoseFacts
<1>4. selected \intersect Feature = selected
  OBVIOUS
<1>5. Those(requires[f], selected) \in Seq(selected)
  BY <1>2, <1>4
<1> HIDE DEF Those
<1>6. Those(requires[f], selected) \in Seq(Feature)
  BY <1>5
<1> QED
  BY <1>3, <1>5, <1>6

LEMMA VisitByFacts ==
  ASSUME NEW requires \in [Feature -> Seq(Feature)], NEW selected \in SUBSET Feature,
         NEW inner \in [Args -> Order]
  PROVE  /\ visitBy(inner, requires, selected) \in [Args -> Order]
         /\ \A result \in Order, f \in Feature, visiting \in SUBSET Feature :
              visitBy(inner, requires, selected)[<<result, f, visiting>>]
                = Visited(inner, requires, selected, result, f, visiting)
<1> DEFINE V(result, f, visiting) == Visited(inner, requires, selected, result, f, visiting)
<1>1. visitBy(inner, requires, selected) = [x \in Args |-> V(x[1], x[2], x[3])]
  BY DEF visitBy, Visited, Args
<1>2. ASSUME NEW result \in Order, NEW f \in Feature, NEW visiting \in SUBSET Feature
      PROVE  V(result, f, visiting) \in Order
  <2> DEFINE fs == Those(requires[f], selected)
             after == visitAll(inner, result, fs, visiting \union {f})
  <2>1. fs \in Seq(Feature)
    BY NeededFacts
  <2> HIDE DEF fs
  <2>2. after \in Order
    <3>1. visiting \union {f} \in SUBSET Feature
      OBVIOUS
    <3>2. PICK u \in [0..Len(fs) -> Order] : after = u[Len(fs)]
      <4> DEFINE W == visiting \union {f}
      <4>1. W \in SUBSET Feature
        BY <3>1
      <4> HIDE DEF W
      <4>2. \E u : VisitsEach(inner, result, fs, W, u)
        BY <2>1, <4>1, VisitAllFacts
      <4> QED
        BY <4>2 DEF W, VisitsEach
    <3>3. Len(fs) \in 0..Len(fs)
      BY <2>1
    <3> QED
      BY <3>2, <3>3
  <2>3. after # Cycle => after \in Seq(Feature)
    BY <2>2 DEF Order
  <2>4. after # Cycle => Append(after, f) \in Order
    BY <2>3 DEF Order
  <2>5. Cycle \in Order
    BY DEF Order
  <2>6. V(result, f, visiting) = IF result = Cycle \/ f \in visiting THEN Cycle
                                 ELSE IF f \in ToSet(result) THEN result
                                 ELSE IF after = Cycle THEN Cycle ELSE Append(after, f)
    BY DEF Visited, fs
  <2> HIDE DEF after, V
  <2> QED
    BY <2>4, <2>5, <2>6
<1> HIDE DEF V
<1>3. \A x \in Args : x[1] \in Order /\ x[2] \in Feature /\ x[3] \in SUBSET Feature
  BY DEF Args
<1>4. \A x \in Args : V(x[1], x[2], x[3]) \in Order
  BY <1>2, <1>3
<1>5. ASSUME NEW result \in Order, NEW f \in Feature, NEW visiting \in SUBSET Feature
      PROVE  visitBy(inner, requires, selected)[<<result, f, visiting>>] = V(result, f, visiting)
  <2>1. <<result, f, visiting>> \in Args
    BY DEF Args
  <2> QED
    BY <1>1, <2>1
<1> QED
  BY <1>1, <1>4, <1>5 DEF V

LEMMA VisitsFacts ==
  ASSUME NEW requires \in [Feature -> Seq(Feature)], NEW selected \in SUBSET Feature
  PROVE  LET v == visits(requires, selected)
         IN  /\ v \in [0..Features -> [Args -> Order]]
             /\ v[0] = [x \in Args |-> Cycle]
             /\ \A n \in 1..Features : v[n] = visitBy(v[n - 1], requires, selected)
<1> DEFINE none == [x \in Args |-> Cycle]
           By(w) == visitBy(w, requires, selected)
           Eq(v) == v = [n \in 0..Features |-> IF n = 0 THEN none ELSE By(v[n - 1])]
           v == visits(requires, selected)
           V == [Args -> Order]
           step == [n \in 1..Features |-> [w \in V |-> By(w)]]
<1>1. Features \in Nat
  BY HostSetupAssumption
<1>2. v = CHOOSE w : Eq(w)
  BY DEF visits, Args
<1>3. none \in V
  BY DEF Order
<1>4. \A w \in V : By(w) \in V
  BY VisitByFacts
<1> HIDE DEF v, none, By, V
<1>5. /\ step \in [1..Features -> [V -> V]]
      /\ \A n \in 1..Features : \A w \in V : step[n][w] = By(w)
  BY <1>4
<1> HIDE DEF step
<1>6. PICK r \in [0..Features -> V] : r[0] = none /\ \A n \in 1..Features : r[n] = step[n][r[n - 1]]
  <2>1. step \in [1..Features -> [V -> V]]
    BY <1>5
  <2>2. \E r : OneByOne(V, none, Features, step, r)
    BY <1>1, <1>3, <2>1, Recursion
  <2> QED
    BY <2>2 DEF OneByOne
<1>7. \A i \in 1..Features : i - 1 \in 0..Features /\ i \in 0..Features /\ i # 0
  BY <1>1
<1>8. \A i \in 0..Features : i = 0 \/ i \in 1..Features
  BY <1>1
<1>9. Eq(r)
  <2>1. \A i \in 1..Features : r[i] = By(r[i - 1])
    BY <1>5, <1>6, <1>7
  <2>2. r = [i \in 0..Features |-> r[i]]
    BY <1>6
  <2> QED
    BY <1>6, <1>8, <2>1, <2>2
<1>10. Eq(v)
  <2> HIDE DEF Eq
  <2> QED
    BY <1>2, <1>9
<1>11. DOMAIN v = 0..Features /\ v[0] = none /\ \A i \in 1..Features : v[i] = By(v[i - 1])
  BY <1>1, <1>7, <1>10
<1> DEFINE S == {m \in 0..Features : v[m] \in V}
<1>12. 0..Features \subseteq S
  <2>1. 0 \in S
    BY <1>1, <1>3, <1>11
  <2>2. \A i \in 1..Features : i - 1 \in S => i \in S
    BY <1>4, <1>7, <1>11
  <2> HIDE DEF S
  <2> QED
    BY <1>1, <2>1, <2>2, UpTo
<1>13. v \in [0..Features -> V]
  <2>1. v = [i \in 0..Features |-> v[i]]
    BY <1>10
  <2>2. \A i \in 0..Features : v[i] \in V
    BY <1>12
  <2> QED
    BY <2>1, <2>2
<1> QED
  BY <1>11, <1>13 DEF v, V, none, By

-----------------------------------------------------------------------------

\* An order so far: of selected features, each once, behind what it requires.
Sound(requires, selected, order) ==
  /\ order \in Seq(Feature)
  /\ ToSet(order) \subseteq selected
  /\ \A i, j \in DOMAIN order : i # j => order[i] # order[j]
  /\ \A i \in DOMAIN order : \A d \in ToSet(requires[order[i]]) \intersect selected :
       \E j \in DOMAIN order : j < i /\ order[j] = d

\* What f requires of the selection is in, and f comes next.
Appended(requires, selected, order, f, new) ==
  /\ f \notin ToSet(order)
  /\ \A d \in ToSet(requires[f]) \intersect selected : d \in ToSet(order)
  /\ new = Append(order, f)

LEMMA AppendSound ==
  ASSUME NEW requires, NEW selected \in SUBSET Feature, NEW order, Sound(requires, selected, order),
         NEW f \in selected, NEW new, Appended(requires, selected, order, f, new)
  PROVE  Sound(requires, selected, new) /\ ToSet(new) = ToSet(order) \union {f}
<1> DEFINE n == Len(order)
<1>1. /\ order \in Seq(Feature) /\ n \in Nat /\ DOMAIN order = 1..n
      /\ new \in Seq(Feature) /\ DOMAIN new = 1..(n + 1)
      /\ \A i \in 1..n : i \in 1..(n + 1) /\ new[i] = order[i]
      /\ new[n + 1] = f
  BY DEF Sound, Appended
<1> HIDE DEF n
<1>2. \A i \in 1..(n + 1) : i \in 1..n \/ i = n + 1
  BY <1>1
<1>3. ToSet(new) = ToSet(order) \union {f}
  <2>1. n + 1 \in 1..(n + 1)
    BY <1>1
  <2> QED
    BY <1>1, <1>2, <2>1 DEF ToSet
<1>4. \A i \in 1..n : order[i] # f
  BY <1>1 DEF Appended, ToSet
<1>5. \A i, j \in DOMAIN new : i # j => new[i] # new[j]
  BY <1>1, <1>2, <1>4 DEF Sound
<1>6. ASSUME NEW i \in DOMAIN new, NEW d \in ToSet(requires[new[i]]) \intersect selected
      PROVE  \E j \in DOMAIN new : j < i /\ new[j] = d
  <2>1. CASE i \in 1..n
    <3>1. PICK j \in DOMAIN order : j < i /\ order[j] = d
      BY <1>1, <1>6, <2>1 DEF Sound
    <3> QED
      BY <1>1, <3>1
  <2>2. CASE i = n + 1
    <3>1. d \in ToSet(order)
      BY <1>1, <1>6, <2>2 DEF Appended
    <3>2. PICK j \in 1..n : order[j] = d
      BY <1>1, <3>1 DEF ToSet
    <3>3. j < n + 1
      BY <1>1
    <3> QED
      BY <1>1, <2>2, <3>2, <3>3
  <2> QED
    BY <1>1, <1>2, <2>1, <2>2
<1>7. Sound(requires, selected, new)
  BY <1>1, <1>3, <1>5, <1>6 DEF Sound
<1> QED
  BY <1>3, <1>7

\* From one order to the next: what is in stays in, and nothing that is being
\* visited comes in.
Leads(requires, selected, order, new, visiting) ==
  new # Cycle => /\ Sound(requires, selected, new)
                 /\ ToSet(order) \subseteq ToSet(new)
                 /\ \A g \in visiting : g \in ToSet(new) => g \in ToSet(order)

GoodVisit(visit, requires, selected) ==
  /\ visit \in [Args -> Order]
  /\ \A f \in Feature, visiting \in SUBSET Feature : visit[<<Cycle, f, visiting>>] = Cycle
  /\ \A order : \A f \in selected, visiting \in SUBSET Feature :
       Sound(requires, selected, order) =>
         /\ Leads(requires, selected, order, visit[<<order, f, visiting>>], visiting)
         /\ visit[<<order, f, visiting>>] # Cycle => f \in ToSet(visit[<<order, f, visiting>>])

LEMMA VisitAllSound ==
  ASSUME NEW requires, NEW selected \in SUBSET Feature, NEW visit, GoodVisit(visit, requires, selected),
         NEW order, Sound(requires, selected, order), NEW fs \in Seq(selected),
         NEW visiting \in SUBSET Feature
  PROVE  LET new == visitAll(visit, order, fs, visiting)
         IN  /\ Leads(requires, selected, order, new, visiting)
             /\ new # Cycle => ToSet(fs) \subseteq ToSet(new)
<1> DEFINE n == Len(fs)
<1>1. n \in Nat /\ DOMAIN fs = 1..n /\ fs \in Seq(Feature) /\ \A i \in 1..n : fs[i] \in selected
  OBVIOUS
<1>2. order \in Order
  BY DEF Sound, Order
<1>3. PICK u : VisitsEach(visit, order, fs, visiting, u)
  <2>1. visit \in [Args -> Order]
    BY DEF GoodVisit
  <2>2. fs \in Seq(Feature)
    BY <1>1
  <2> QED
    BY <1>2, <2>1, <2>2, VisitAllFacts
<1>4. /\ u[0] = order
      /\ \A i \in 1..n : u[i] = visit[<<u[i - 1], fs[i], visiting>>]
      /\ visitAll(visit, order, fs, visiting) = u[n]
  BY <1>3 DEF VisitsEach
<1> HIDE DEF n
<1> DEFINE Has(m) == /\ Leads(requires, selected, order, u[m], visiting)
                     /\ u[m] # Cycle => \A j \in 1..m : fs[j] \in ToSet(u[m])
           S == {m \in 0..n : Has(m)}
<1>5. Has(0)
  <2>1. Leads(requires, selected, order, order, visiting)
    BY DEF Leads
  <2>2. \A j \in 1..0 : FALSE
    OBVIOUS
  <2> QED
    BY <1>4, <2>1, <2>2
<1>6. ASSUME NEW m \in 1..n, Has(m - 1) PROVE Has(m)
  <2> DEFINE old == u[m - 1]
             new == u[m]
  <2>1. new = visit[<<old, fs[m], visiting>>] /\ fs[m] \in selected /\ fs[m] \in Feature
    BY <1>1, <1>4
  <2>2. /\ Leads(requires, selected, order, old, visiting)
        /\ old # Cycle => \A j \in 1..(m - 1) : fs[j] \in ToSet(old)
    BY <1>6
  <2> HIDE DEF old, new
  <2>3. CASE old = Cycle
    <3>1. new = Cycle
      BY <2>1, <2>3 DEF GoodVisit
    <3> QED
      BY <3>1 DEF Leads, new
  <2>4. CASE old # Cycle
    <3>1. Sound(requires, selected, old)
      BY <2>2, <2>4 DEF Leads
    <3>2. /\ Leads(requires, selected, old, new, visiting)
          /\ new # Cycle => fs[m] \in ToSet(new)
      BY <2>1, <3>1 DEF GoodVisit
    <3>3. Leads(requires, selected, order, new, visiting)
      BY <2>2, <2>4, <3>2 DEF Leads
    <3>4. ASSUME new # Cycle, NEW j \in 1..m PROVE fs[j] \in ToSet(new)
      <4>1. j \in 1..(m - 1) \/ j = m
        BY <1>1
      <4>2. ToSet(old) \subseteq ToSet(new)
        BY <3>2, <3>4 DEF Leads
      <4> QED
        BY <2>2, <2>4, <3>2, <3>4, <4>1, <4>2
    <3> QED
      BY <3>3, <3>4 DEF new
  <2> QED
    BY <2>3, <2>4
<1>7. 0..n \subseteq S
  <2> HIDE DEF Has
  <2>1. 0 \in S
    BY <1>1, <1>5
  <2>2. ASSUME NEW m \in 1..n, m - 1 \in S PROVE m \in S
    <3>1. m \in 0..n
      BY <1>1
    <3> QED
      BY <1>6, <2>2, <3>1
  <2> HIDE DEF S
  <2> QED
    BY <1>1, <2>1, <2>2, UpTo
<1>8. Has(n)
  BY <1>1, <1>7
<1>9. u[n] # Cycle => ToSet(fs) \subseteq ToSet(u[n])
  <2>1. \A x \in ToSet(fs) : \E j \in 1..n : x = fs[j]
    BY <1>1 DEF ToSet
  <2> QED
    BY <1>8, <2>1
<1> QED
  BY <1>4, <1>8, <1>9

LEMMA VisitBySound ==
  ASSUME NEW requires \in [Feature -> Seq(Feature)], NEW selected \in SUBSET Feature,
         NEW inner, GoodVisit(inner, requires, selected)
  PROVE  GoodVisit(visitBy(inner, requires, selected), requires, selected)
<1> DEFINE v == visitBy(inner, requires, selected)
<1>1. inner \in [Args -> Order]
  BY DEF GoodVisit
<1>2. /\ v \in [Args -> Order]
      /\ \A result \in Order, f \in Feature, visiting \in SUBSET Feature :
           v[<<result, f, visiting>>] = Visited(inner, requires, selected, result, f, visiting)
  BY <1>1, VisitByFacts
<1> HIDE DEF v
<1>3. ASSUME NEW f \in Feature, NEW visiting \in SUBSET Feature
      PROVE  v[<<Cycle, f, visiting>>] = Cycle
  <2>1. Cycle \in Order
    BY DEF Order
  <2> QED
    BY <1>2, <2>1 DEF Visited
<1>4. ASSUME NEW order, NEW f \in selected, NEW visiting \in SUBSET Feature,
             Sound(requires, selected, order), v[<<order, f, visiting>>] # Cycle
      PROVE  LET new == v[<<order, f, visiting>>]
             IN  /\ Sound(requires, selected, new)
                 /\ ToSet(order) \subseteq ToSet(new)
                 /\ \A g \in visiting : g \in ToSet(new) => g \in ToSet(order)
                 /\ f \in ToSet(new)
  <2> DEFINE fs == Those(requires[f], selected)
             W == visiting \union {f}
             after == visitAll(inner, order, fs, W)
             new == v[<<order, f, visiting>>]
  <2>1. order \in Order /\ f \in Feature
    BY <1>4 DEF Sound, Order
  <2>2. new = IF order = Cycle \/ f \in visiting THEN Cycle
              ELSE IF f \in ToSet(order) THEN order
              ELSE IF after = Cycle THEN Cycle ELSE Append(after, f)
    BY <1>2, <2>1 DEF Visited
  <2>3. fs \in Seq(selected) /\ ToSet(fs) = ToSet(requires[f]) \intersect selected
    BY <2>1, NeededFacts
  <2>4. W \in SUBSET Feature /\ f \in W /\ visiting \subseteq W
    BY <2>1
  <2> HIDE DEF fs, W
  <2>5. /\ Leads(requires, selected, order, after, W)
        /\ after # Cycle => ToSet(fs) \subseteq ToSet(after)
    BY <1>4, <2>3, <2>4, VisitAllSound
  <2>6. new # Cycle
    BY <1>4
  <2> HIDE DEF after, new
  <2>7. CASE f \in ToSet(order)
    <3>1. new = order
      BY <2>2, <2>6, <2>7
    <3> QED
      BY <1>4, <2>7, <3>1 DEF new
  <2>8. CASE f \notin ToSet(order)
    <3>1. new = Append(after, f) /\ after # Cycle /\ f \notin visiting
      BY <2>2, <2>6, <2>8
    <3>2. /\ Sound(requires, selected, after)
          /\ ToSet(order) \subseteq ToSet(after)
          /\ \A g \in W : g \in ToSet(after) => g \in ToSet(order)
          /\ ToSet(fs) \subseteq ToSet(after)
      BY <2>5, <3>1 DEF Leads
    <3>3. f \notin ToSet(after)
      BY <2>4, <2>8, <3>2
    <3>4. Sound(requires, selected, new) /\ ToSet(new) = ToSet(after) \union {f}
      <4>1. \A d \in ToSet(requires[f]) \intersect selected : d \in ToSet(after)
        BY <2>3, <3>2
      <4>2. Sound(requires, selected, after)
        BY <3>2
      <4>3. Appended(requires, selected, after, f, new)
        BY <3>1, <3>3, <4>1 DEF Appended
      <4> QED
        BY <4>2, <4>3, AppendSound
    <3> QED
      BY <2>4, <3>1, <3>2, <3>4 DEF new
  <2> QED
    BY <2>7, <2>8
<1>5. GoodVisit(v, requires, selected)
  BY <1>2, <1>3, <1>4 DEF GoodVisit, Leads
<1> QED
  BY <1>5 DEF v

LEMMA VisitsSound ==
  ASSUME NEW requires \in [Feature -> Seq(Feature)], NEW selected \in SUBSET Feature
  PROVE  GoodVisit(visits(requires, selected)[Features], requires, selected)
<1> DEFINE v == visits(requires, selected)
           S == {n \in 0..Features : GoodVisit(v[n], requires, selected)}
<1>1. Features \in Nat
  BY HostSetupAssumption
<1>2. /\ v \in [0..Features -> [Args -> Order]]
      /\ v[0] = [x \in Args |-> Cycle]
      /\ \A n \in 1..Features : v[n] = visitBy(v[n - 1], requires, selected)
  BY VisitsFacts
<1> HIDE DEF v
<1>3. GoodVisit(v[0], requires, selected)
  <2>1. 0 \in 0..Features
    BY <1>1
  <2>2. v[0] \in [Args -> Order]
    BY <1>2, <2>1
  <2>3. \A f \in Feature, visiting \in SUBSET Feature : \A result \in Order :
          v[0][<<result, f, visiting>>] = Cycle
    <3>1. \A f \in Feature, visiting \in SUBSET Feature : \A result \in Order :
            <<result, f, visiting>> \in Args
      BY DEF Args
    <3> QED
      BY <1>2, <3>1
  <2>4. Cycle \in Order
    BY DEF Order
  <2>5. \A order : Sound(requires, selected, order) => order \in Order
    BY DEF Sound, Order
  <2> QED
    BY <2>2, <2>3, <2>4, <2>5 DEF GoodVisit, Leads
<1>4. \A n \in 1..Features : n - 1 \in S => n \in S
  <2>1. ASSUME NEW n \in 1..Features, GoodVisit(v[n - 1], requires, selected)
        PROVE  GoodVisit(v[n], requires, selected)
    BY <1>2, <2>1, VisitBySound
  <2>2. \A n \in 1..Features : n \in 0..Features
    BY <1>1
  <2> QED
    BY <2>1, <2>2
<1>5. 0 \in S
  BY <1>1, <1>3
<1>6. 0..Features \subseteq S
  <2> HIDE DEF S
  <2> QED
    BY <1>1, <1>4, <1>5, UpTo
<1>7. Features \in S
  BY <1>1, <1>6
<1> QED
  BY <1>7 DEF v

\* The selected features, smallest first.
LEMMA SelectedFacts ==
  ASSUME NEW selected \in SUBSET Feature
  PROVE  LET fs == Those([f \in Feature |-> f], selected)
         IN  fs \in Seq(selected) /\ fs \in Seq(Feature) /\ ToSet(fs) = selected
<1> DEFINE q == [f \in Feature |-> f]
           fs == Those(q, selected)
<1>1. Features \in Nat
  BY HostSetupAssumption
<1>2. q \in Seq(Feature) /\ ToSet(q) = Feature
  <2>1. q \in Seq(Feature)
    BY <1>1 DEF Feature
  <2>2. ToSet(q) = Feature
    BY DEF ToSet
  <2> QED
    BY <2>1, <2>2
<1> HIDE DEF q
<1>3. fs \in Seq(selected \intersect Feature) /\ ToSet(fs) = ToSet(q) \intersect selected
  BY <1>2, ThoseFacts
<1>4. selected \intersect Feature = selected /\ Feature \intersect selected = selected
  OBVIOUS
<1> HIDE DEF fs
<1>5. fs \in Seq(selected) /\ ToSet(fs) = selected
  BY <1>2, <1>3, <1>4
<1>6. fs \in Seq(Feature)
  BY <1>5
<1> QED
  BY <1>5, <1>6 DEF fs, q

\* A list that is found is in order.
LEMMA FoundIsOrdered ==
  ASSUME NEW requires \in [Feature -> Seq(Feature)], NEW selected \in SUBSET Feature,
         ordered_features(requires, selected) # Cycle
  PROVE  /\ ordered_features(requires, selected) \in Seq(Feature)
         /\ Ordered(requires, selected, ordered_features(requires, selected))
<1> DEFINE order == ordered_features(requires, selected)
           visit == visits(requires, selected)[Features]
           fs == Those([f \in Feature |-> f], selected)
           e == <<>>
           none == {}
<1>1. GoodVisit(visit, requires, selected)
  BY VisitsSound
<1>2. fs \in Seq(selected) /\ ToSet(fs) = selected
  BY SelectedFacts
<1>3. order = visitAll(visit, e, fs, none)
  BY DEF ordered_features
<1>4. Sound(requires, selected, e)
  BY DEF Sound, ToSet
<1>5. none \in SUBSET Feature
  OBVIOUS
<1> HIDE DEF visit, fs, e, none, order
<1>6. /\ Leads(requires, selected, e, order, none)
      /\ order # Cycle => ToSet(fs) \subseteq ToSet(order)
  BY <1>1, <1>2, <1>3, <1>4, <1>5, VisitAllSound
<1>7. order # Cycle
  BY DEF order
<1>8. Sound(requires, selected, order) /\ ToSet(order) = selected
  BY <1>2, <1>6, <1>7 DEF Leads, Sound
<1>9. ASSUME NEW i \in DOMAIN order, NEW j \in DOMAIN order, order[j] \in ToSet(requires[order[i]])
      PROVE  j < i
  <2>1. order[j] \in selected
    BY <1>8 DEF ToSet
  <2>2. PICK k \in DOMAIN order : k < i /\ order[k] = order[j]
    BY <1>8, <1>9, <2>1 DEF Sound
  <2>3. k = j
    BY <1>8, <2>2 DEF Sound
  <2> QED
    BY <2>2, <2>3
<1>10. order \in Seq(Feature) /\ Ordered(requires, selected, order)
  BY <1>8, <1>9 DEF Ordered, Sound
<1> QED
  BY <1>10 DEF order

\* A visit of s[p] finds no cycle if all that is being visited stands behind s[p].
Finds(visit, s, n) ==
  \A p \in DOMAIN s : \A order \in Seq(Feature), visiting \in SUBSET Feature :
    p <= n /\ (\A q \in DOMAIN s : s[q] \in visiting => p < q)
      => visit[<<order, s[p], visiting>>] # Cycle

LEMMA VisitByFinds ==
  ASSUME NEW requires \in [Feature -> Seq(Feature)], NEW selected \in SUBSET Feature,
         NEW s \in Seq(selected), Ordered(requires, selected, s),
         NEW n \in Nat, NEW inner \in [Args -> Order], Finds(inner, s, n)
  PROVE  Finds(visitBy(inner, requires, selected), s, n + 1)
<1> SUFFICES ASSUME NEW p \in DOMAIN s, NEW order \in Seq(Feature), NEW visiting \in SUBSET Feature,
                    p <= n + 1, \A q \in DOMAIN s : s[q] \in visiting => p < q
             PROVE  visitBy(inner, requires, selected)[<<order, s[p], visiting>>] # Cycle
  BY DEF Finds
<1> DEFINE f == s[p]
           fs == Those(requires[f], selected)
           W == visiting \union {f}
           after == visitAll(inner, order, fs, W)
<1>1. p \in Nat /\ DOMAIN s \subseteq Nat /\ f \in selected /\ f \in Feature /\ f \notin visiting
  OBVIOUS
<1>2. order \in Order /\ order # Cycle
  BY HostSetupAssumption DEF Order
<1>3. visitBy(inner, requires, selected)[<<order, f, visiting>>]
        = IF order = Cycle \/ f \in visiting THEN Cycle
          ELSE IF f \in ToSet(order) THEN order
          ELSE IF after = Cycle THEN Cycle ELSE Append(after, f)
  <2>1. visitBy(inner, requires, selected)[<<order, f, visiting>>]
          = Visited(inner, requires, selected, order, f, visiting)
    <3>1. \A result \in Order, g \in Feature, ws \in SUBSET Feature :
            visitBy(inner, requires, selected)[<<result, g, ws>>]
              = Visited(inner, requires, selected, result, g, ws)
      BY VisitByFacts
    <3> HIDE DEF f
    <3> QED
      BY <1>1, <1>2, <3>1
  <2> QED
    BY <2>1 DEF Visited
<1>4. fs \in Seq(Feature) /\ ToSet(fs) = ToSet(requires[f]) \intersect selected
  BY <1>1, NeededFacts
<1>5. W \in SUBSET Feature
  BY <1>1
<1>6. \A q, k \in DOMAIN s : s[q] = s[k] => q = k
  BY DEF Ordered
<1>7. \A k \in DOMAIN s : s[k] \in ToSet(requires[s[p]]) => k < p
  BY DEF Ordered
<1>8. \A d \in selected : \E k \in DOMAIN s : s[k] = d
  BY DEF Ordered, ToSet
<1>9. \A q \in DOMAIN s : s[q] \in W => p <= q
  BY <1>1, <1>6
<1> HIDE DEF fs, W
<1>10. PICK u : VisitsEach(inner, order, fs, W, u)
  BY <1>2, <1>4, <1>5, VisitAllFacts
<1>11. /\ u \in [0..Len(fs) -> Order]
       /\ u[0] = order
       /\ \A i \in 1..Len(fs) : u[i] = inner[<<u[i - 1], fs[i], W>>]
       /\ after = u[Len(fs)]
  BY <1>10 DEF VisitsEach
<1> HIDE DEF after
<1>12. Len(fs) \in Nat /\ DOMAIN fs = 1..Len(fs)
  BY <1>4
<1> DEFINE L == Len(fs)
           S == {m \in 0..L : u[m] # Cycle}
<1>13. ASSUME NEW m \in 1..L, u[m - 1] # Cycle
       PROVE  u[m] # Cycle
  <2>1. m - 1 \in 0..L
    BY <1>12
  <2>2. u[m - 1] \in Seq(Feature)
    BY <1>11, <1>13, <2>1 DEF Order
  <2>3. fs[m] \in ToSet(requires[f]) /\ fs[m] \in selected
    <3>1. fs[m] \in ToSet(fs)
      BY <1>12 DEF ToSet
    <3> QED
      BY <1>4, <3>1
  <2>4. PICK k \in DOMAIN s : s[k] = fs[m]
    BY <1>8, <2>3
  <2>5. k < p
    BY <1>7, <2>3, <2>4
  <2>6. k <= n /\ \A q \in DOMAIN s : s[q] \in W => k < q
    <3>1. \A q \in DOMAIN s : p <= q => k < q
      BY <1>1, <2>4, <2>5
    <3>2. k <= n
      BY <1>1, <2>4, <2>5
    <3> QED
      BY <1>9, <3>1, <3>2
  <2>7. inner[<<u[m - 1], s[k], W>>] # Cycle
    BY <1>5, <2>2, <2>6 DEF Finds
  <2> QED
    BY <1>11, <2>4, <2>7
<1>14. 0..L \subseteq S
  <2>1. 0 \in S
    BY <1>2, <1>11, <1>12
  <2>2. \A m \in 1..L : m - 1 \in S => m \in S
    BY <1>12, <1>13
  <2> HIDE DEF S
  <2> QED
    BY <1>12, <2>1, <2>2, UpTo
<1>15. after # Cycle /\ after \in Seq(Feature)
  <2>1. L \in 0..L
    BY <1>12
  <2>2. after # Cycle
    BY <1>11, <1>14, <2>1
  <2> QED
    BY <1>11, <2>1, <2>2 DEF Order
<1>16. Append(after, f) # Cycle
  <2>1. Append(after, f) \in Seq(Feature)
    BY <1>1, <1>15
  <2> QED
    BY <2>1, HostSetupAssumption
<1> QED
  BY <1>1, <1>2, <1>3, <1>15, <1>16

LEMMA VisitsFind ==
  ASSUME NEW requires \in [Feature -> Seq(Feature)], NEW selected \in SUBSET Feature,
         NEW s \in Seq(selected), Ordered(requires, selected, s)
  PROVE  Finds(visits(requires, selected)[Features], s, Features)
<1> DEFINE v == visits(requires, selected)
           S == {n \in 0..Features : Finds(v[n], s, n)}
<1>1. Features \in Nat
  BY HostSetupAssumption
<1>2. /\ v \in [0..Features -> [Args -> Order]]
      /\ \A n \in 1..Features : v[n] = visitBy(v[n - 1], requires, selected)
  BY VisitsFacts
<1> HIDE DEF v
<1>3. Finds(v[0], s, 0)
  <2>1. \A p \in DOMAIN s : ~(p <= 0)
    OBVIOUS
  <2> QED
    BY <2>1 DEF Finds
<1>4. ASSUME NEW n \in 1..Features, Finds(v[n - 1], s, n - 1)
      PROVE  Finds(v[n], s, n)
  <2> DEFINE k == n - 1
  <2>1. k \in Nat /\ k \in 0..Features /\ k + 1 = n
    BY <1>1
  <2>2. v[k] \in [Args -> Order] /\ Finds(v[k], s, k)
    BY <1>2, <1>4, <2>1
  <2>3. v[n] = visitBy(v[k], requires, selected)
    BY <1>2
  <2> HIDE DEF k
  <2>4. Finds(visitBy(v[k], requires, selected), s, k + 1)
    BY <2>1, <2>2, VisitByFinds
  <2> QED
    BY <2>1, <2>3, <2>4
<1>5. 0..Features \subseteq S
  <2>1. 0 \in S
    BY <1>1, <1>3
  <2>2. \A n \in 1..Features : n - 1 \in S => n \in S
    BY <1>1, <1>4
  <2> HIDE DEF S
  <2> QED
    BY <1>1, <2>1, <2>2, UpTo
<1>6. Features \in S
  BY <1>1, <1>5
<1> QED
  BY <1>6 DEF v

\* An order is no longer than there are features.
LEMMA OrderLength ==
  ASSUME NEW requires, NEW selected \in SUBSET Feature,
         NEW s \in Seq(selected), Ordered(requires, selected, s)
  PROVE  Len(s) <= Features
<1>1. Features \in Nat /\ Len(s) \in Nat /\ DOMAIN s = 1..Len(s)
  BY HostSetupAssumption
<1>2. s \in [1..Len(s) -> Feature]
  OBVIOUS
<1>3. s \in Injection(1..Len(s), Feature)
  BY <1>1, <1>2 DEF Ordered, Injection, IsInjective
<1>4. IsFiniteSet(Feature) /\ Cardinality(Feature) = Features
  <2>1. Feature = 1..Features
    BY DEF Feature
  <2>3. IsFiniteSet(1..Features) /\ Cardinality(1..Features) = Features
    <3>1. 1 \in Int /\ Features \in Int
      BY <1>1
    <3>2. /\ IsFiniteSet(1..Features)
          /\ Cardinality(1..Features) = IF 1 > Features THEN 0 ELSE Features - 1 + 1
      BY <3>1, FS_Interval
    <3>3. (IF 1 > Features THEN 0 ELSE Features - 1 + 1) = Features
      BY <1>1
    <3> QED
      BY <3>2, <3>3
  <2> QED
    BY <2>1, <2>3
<1>5. Cardinality(1..Len(s)) <= Cardinality(Feature)
  BY <1>3, <1>4, FS_Injection
<1>6. Cardinality(1..Len(s)) = Len(s)
  BY <1>1, FS_Interval
<1> QED
  BY <1>4, <1>5, <1>6

\* A selection that can be put in order is.
LEMMA OrderedIsFound ==
  ASSUME NEW requires \in [Feature -> Seq(Feature)], NEW selected \in SUBSET Feature,
         NEW s \in Seq(selected), Ordered(requires, selected, s)
  PROVE  ordered_features(requires, selected) # Cycle
<1> DEFINE visit == visits(requires, selected)[Features]
           fs == Those([f \in Feature |-> f], selected)
           e == <<>>
           none == {}
           L == Len(fs)
<1>1. Finds(visit, s, Features) /\ visit \in [Args -> Order]
  <2>1. Features \in 0..Features
    BY HostSetupAssumption
  <2> QED
    BY <2>1, VisitsFind, VisitsFacts
<1>2. fs \in Seq(selected) /\ fs \in Seq(Feature)
  BY SelectedFacts
<1>3. ordered_features(requires, selected) = visitAll(visit, e, fs, none)
  BY DEF ordered_features
<1>4. e \in Order /\ e # Cycle /\ none \in SUBSET Feature /\ \A g : g \notin none
  <2>1. e \in Seq(Feature)
    OBVIOUS
  <2>2. \A g : g \notin none
    OBVIOUS
  <2> HIDE DEF e
  <2> QED
    BY <2>1, <2>2, HostSetupAssumption DEF Order
<1> HIDE DEF visit, fs, e, none
<1>5. PICK u : VisitsEach(visit, e, fs, none, u)
  BY <1>1, <1>2, <1>4, VisitAllFacts
<1>6. /\ u \in [0..L -> Order]
      /\ u[0] = e
      /\ \A i \in 1..L : u[i] = visit[<<u[i - 1], fs[i], none>>]
      /\ visitAll(visit, e, fs, none) = u[L]
  BY <1>5 DEF VisitsEach
<1>7. L \in Nat /\ \A i \in 1..L : fs[i] \in selected
  BY <1>2
<1> HIDE DEF L
<1>8. \A p \in DOMAIN s : p <= Features
  <2>1. \A p \in DOMAIN s : p \in Nat /\ p <= Len(s) /\ Len(s) \in Nat
    OBVIOUS
  <2> QED
    BY <2>1, OrderLength, HostSetupAssumption
<1> DEFINE S == {m \in 0..L : u[m] # Cycle}
<1>9. ASSUME NEW m \in 1..L, u[m - 1] # Cycle
      PROVE  u[m] # Cycle
  <2>1. u[m - 1] \in Seq(Feature)
    <3>1. m - 1 \in 0..L
      BY <1>7
    <3> QED
      BY <1>6, <1>9, <3>1 DEF Order
  <2>2. PICK p \in DOMAIN s : s[p] = fs[m]
    BY <1>7 DEF Ordered, ToSet
  <2>3. visit[<<u[m - 1], s[p], none>>] # Cycle
    BY <1>1, <1>4, <1>8, <2>1 DEF Finds
  <2> QED
    BY <1>6, <2>2, <2>3
<1>10. 0..L \subseteq S
  <2>1. 0 \in S
    BY <1>4, <1>6, <1>7
  <2>2. \A m \in 1..L : m - 1 \in S => m \in S
    BY <1>7, <1>9
  <2> HIDE DEF S
  <2> QED
    BY <1>7, <2>1, <2>2, UpTo
<1>11. u[L] # Cycle
  BY <1>7, <1>10
<1> QED
  BY <1>3, <1>6, <1>11

\* For every registry and every selection, the depth-first search of
\* ordered_features (bootstrap_aux_defs.py) reports a cycle exactly when the
\* selection cannot be put in order, and else returns every selected feature
\* once, behind what it requires of the selection.
THEOREM OrderIsTopological ==
  ASSUME NEW requires \in [Feature -> Seq(Feature)], NEW selected \in SUBSET Feature
  PROVE  LET order == ordered_features(requires, selected)
         IN  IF order = Cycle
             THEN \A s \in Seq(selected) : ~Ordered(requires, selected, s)
             ELSE order \in Seq(Feature) /\ Ordered(requires, selected, order)
BY FoundIsOrdered, OrderedIsFound

-----------------------------------------------------------------------------

\* What a run of the host configuration has been through, and what is left.
Through(a) ==
  [i \in 1..(Len(a.results) + Len(a.todo)) |->
     IF i <= Len(a.results) THEN a.results[i].feature ELSE a.todo[i - Len(a.results)]]

Behind(requires, q) ==
  \A i \in DOMAIN q : \A d \in ToSet(requires[q[i]]) :
    d \in ToSet(q) => \E j \in DOMAIN q : j < i /\ q[j] = d

HostRun ==
  [pc : {"idle", "running"}, todo : Seq(Feature), results : Seq([feature : Feature, success : BOOLEAN]),
   rc : Nat, requires : [Feature -> Seq(Feature)], uid : Nat, owner : BOOLEAN]

\* A run's list stays in order, and only its last result can be a failure, with
\* nothing left behind it.
HostInv ==
  /\ aux \in HostRun
  /\ Behind(aux.requires, Through(aux))
  /\ \A i \in 1..Len(aux.results) : aux.results[i].success \/ (i = Len(aux.results) /\ aux.todo = <<>>)

\* An initial part of a list in order is in order.
LEMMA PrefixBehind ==
  ASSUME NEW requires, NEW n \in Nat, NEW m \in Nat, m <= n, NEW q, NEW p,
         DOMAIN q = 1..n, DOMAIN p = 1..m, \A i \in 1..m : p[i] = q[i], Behind(requires, q)
  PROVE  Behind(requires, p)
<1> SUFFICES ASSUME NEW i \in 1..m, NEW d \in ToSet(requires[p[i]]), d \in ToSet(p)
             PROVE  \E j \in DOMAIN p : j < i /\ p[j] = d
  BY DEF Behind
<1>1. \A k \in 1..m : k \in 1..n /\ k \in Nat
  OBVIOUS
<1>2. d \in ToSet(q)
  BY <1>1 DEF ToSet
<1>3. PICK j \in 1..n : j < i /\ q[j] = d
  BY <1>1, <1>2 DEF Behind
<1>4. j \in 1..m
  BY <1>1, <1>3
<1> QED
  BY <1>3, <1>4

LEMMA EmptyIsRun ==
  ASSUME NEW code \in Nat, NEW a, a = AuxExited(code)
  PROVE  /\ a \in HostRun /\ Behind(a.requires, Through(a))
         /\ \A i \in 1..Len(a.results) : FALSE
<1>1. a.results = <<>> /\ a.todo = <<>>
  BY DEF AuxExited
<1>2. a \in HostRun
  <2>1. [f \in Feature |-> <<>>] \in [Feature -> Seq(Feature)] /\ <<>> \in Seq(Feature)
        /\ <<>> \in Seq([feature : Feature, success : BOOLEAN])
    OBVIOUS
  <2> QED
    BY <2>1 DEF AuxExited, HostRun
<1>3. \A i \in 1..Len(a.results) : FALSE
  BY <1>1
<1>4. DOMAIN Through(a) = {}
  BY <1>1 DEF Through
<1> QED
  BY <1>2, <1>3, <1>4 DEF Behind

LEMMA HostInitInv == HostSetupInit => HostInv
BY EmptyIsRun DEF HostSetupInit, HostInv

LEMMA ExitedInv ==
  ASSUME NEW code \in Nat, aux' = AuxExited(code)
  PROVE  HostInv'
<1>1. aux' \in HostRun /\ Behind(aux'.requires, Through(aux')) /\ \A i \in 1..Len(aux'.results) : FALSE
  BY EmptyIsRun
<1> QED
  BY <1>1 DEF HostInv

LEMMA StartInv ==
  ASSUME NEW requires \in [Feature -> Seq(Feature)], NEW selected \in SUBSET Feature,
         NEW confirmed \in BOOLEAN, NEW uid \in Nat, NEW owner \in BOOLEAN,
         _run(requires, selected, confirmed, uid, owner)
  PROVE  HostInv'
<1> DEFINE order == ordered_features(requires, selected)
           new == [AuxExited(0) EXCEPT !.pc = "running", !.todo = order,
                     !.requires = requires, !.uid = uid, !.owner = owner]
<1>1. CASE aux' = AuxExited(0) \/ aux' = AuxExited(1)
  BY <1>1, ExitedInv
<1>2. CASE aux' = new /\ order # Cycle
  <2>1. order \in Seq(Feature) /\ Ordered(requires, selected, order)
    BY <1>2, FoundIsOrdered
  <2> HIDE DEF order
  <2> DEFINE base == AuxExited(0)
             record == [pc |-> "running", todo |-> order, results |-> <<>>, rc |-> 0,
                        requires |-> requires, uid |-> uid, owner |-> owner]
  <2>8. /\ DOMAIN base = {"pc", "todo", "results", "rc", "requires", "uid", "owner"}
        /\ base = [x \in DOMAIN base |-> base[x]] /\ base.results = <<>> /\ base.rc = 0
    BY DEF AuxExited
  <2>9. new = record
    <3>1. new = [base EXCEPT !.pc = "running", !.todo = order,
                     !.requires = requires, !.uid = uid, !.owner = owner]
      OBVIOUS
    <3> HIDE DEF base, new
    <3> QED
      BY <3>1, <2>8
  <2> HIDE DEF new
  <2>2. /\ new.pc = "running" /\ new.todo = order /\ new.results = <<>> /\ new.rc = 0
        /\ new.requires = requires /\ new.uid = uid /\ new.owner = owner
        /\ new = record
    BY <2>9
  <2>3. new \in HostRun
    <3>1. <<>> \in Seq([feature : Feature, success : BOOLEAN])
      OBVIOUS
    <3> QED
      BY <2>1, <2>2, <3>1 DEF HostRun
  <2>4. Through(new) = order
    <3>1. Len(<<>>) = 0 /\ Len(order) \in Nat /\ DOMAIN order = 1..Len(order)
      BY <2>1
    <3>2. Through(new) = [i \in 1..(0 + Len(order)) |-> order[i]]
      <4>1. \A i \in 1..(0 + Len(order)) : ~(i <= 0) /\ i - 0 = i
        BY <3>1
      <4> QED
        BY <2>2, <3>1, <4>1 DEF Through
    <3>3. 1..(0 + Len(order)) = 1..Len(order) /\ order = [i \in 1..Len(order) |-> order[i]]
      BY <2>1, <3>1
    <3> QED
      BY <3>2, <3>3
  <2>5. Behind(requires, order)
    BY <2>1 DEF Behind, Ordered, ToSet
  <2>6. \A i \in 1..Len(new.results) : FALSE
    BY <2>2
  <2>7. aux' = new
    BY <1>2 DEF order, new
  <2> QED
    BY <2>2, <2>3, <2>4, <2>5, <2>6, <2>7 DEF HostInv
<1> QED
  BY <1>1, <1>2 DEF _run

LEMMA RunFeatureInv ==
  ASSUME HostInv, RunFeature
  PROVE  HostInv'
<1> DEFINE f == Head(aux.todo)
           R == Seq([feature : Feature, success : BOOLEAN])
<1>1. CASE aux' = AuxExited(1)
  BY <1>1, ExitedInv
<1>2. ASSUME NEW success \in BOOLEAN,
             aux' = [aux EXCEPT !.todo = remaining(success), !.results = Append(@, Result(f, success))]
      PROVE  HostInv'
  <2> DEFINE n == Len(aux.results)
             k == Len(aux.todo)
             todo == remaining(success)
             results == Append(aux.results, Result(f, success))
  <2>1. /\ aux \in HostRun /\ aux.todo \in Seq(Feature) /\ aux.results \in R /\ aux.todo # <<>>
        /\ aux.requires \in [Feature -> Seq(Feature)]
    BY DEF HostInv, HostRun, RunFeature
  <2>2. n \in Nat /\ k \in Nat /\ k > 0 /\ f = aux.todo[1] /\ f \in Feature
        /\ DOMAIN aux.results = 1..n /\ DOMAIN aux.todo = 1..k
    BY <2>1
  <2>3. /\ todo \in Seq(Feature) /\ Len(todo) <= k - 1 /\ Len(todo) \in Nat
        /\ \A i \in 1..Len(todo) : todo[i] = aux.todo[i + 1]
        /\ todo = <<>> \/ success
    BY <2>1, <2>2 DEF remaining
  <2>4. /\ results \in R /\ Len(results) = n + 1
        /\ \A i \in 1..n : results[i] = aux.results[i]
        /\ results[n + 1] = Result(f, success)
    <3>1. Result(f, success) \in [feature : Feature, success : BOOLEAN]
      BY <2>2 DEF Result
    <3> QED
      BY <2>1, <2>2, <3>1
  <2>5. /\ aux'.todo = todo /\ aux'.results = results /\ aux'.requires = aux.requires
        /\ aux' \in HostRun
    <3>1. aux' = [aux EXCEPT !.todo = todo, !.results = results]
      BY <1>2
    <3> HIDE DEF todo, results
    <3> QED
      BY <2>1, <2>3, <2>4, <3>1 DEF HostRun
  <2>6. Result(f, success).feature = f /\ Result(f, success).success = success
    BY DEF Result
  <2> HIDE DEF todo, results, n, k, f
  <2>7. /\ DOMAIN Through(aux) = 1..(n + k)
        /\ \A i \in 1..(n + k) :
             Through(aux)[i] = IF i <= n THEN aux.results[i].feature ELSE aux.todo[i - n]
    BY DEF Through, n, k
  <2> DEFINE new == aux'
             j == Len(todo)
  <2>8. /\ DOMAIN Through(new) = 1..(n + 1 + j)
        /\ \A i \in 1..(n + 1 + j) :
             Through(new)[i] = IF i <= n + 1 THEN results[i].feature ELSE todo[i - (n + 1)]
    <3> HIDE DEF new
    <3>1. new.results = results /\ new.todo = todo
      BY <2>5 DEF new
    <3> QED
      BY <2>4, <3>1 DEF Through
  <2>9. ASSUME NEW i \in 1..(n + 1 + j) PROVE Through(new)[i] = Through(aux)[i] /\ i \in 1..(n + k)
    <3> HIDE DEF new
    <3>1. j \in Nat /\ j <= k - 1 /\ i \in 1..(n + k)
      BY <2>2, <2>3
    <3>2. CASE i <= n
      <4>1. i \in 1..n /\ i <= n + 1
        BY <2>2, <3>2
      <4> QED
        BY <2>4, <2>7, <2>8, <3>1, <3>2, <4>1
    <3>3. CASE i = n + 1
      <4>1. ~(i <= n) /\ i - n = 1 /\ i <= n + 1
        BY <2>2, <3>3
      <4> QED
        BY <2>2, <2>4, <2>6, <2>7, <2>8, <3>1, <3>3, <4>1
    <3>4. CASE i > n + 1
      <4>1. ~(i <= n) /\ ~(i <= n + 1) /\ i - (n + 1) \in 1..j /\ (i - (n + 1)) + 1 = i - n
        BY <2>2, <3>1, <3>4
      <4> QED
        BY <2>3, <2>7, <2>8, <3>1, <4>1
    <3> QED
      BY <2>2, <3>1, <3>2, <3>3, <3>4
  <2>10. Behind(aux.requires, Through(new))
    <3>1. n + k \in Nat /\ n + 1 + j \in Nat /\ n + 1 + j <= n + k
      BY <2>2, <2>3
    <3>2. Behind(aux.requires, Through(aux))
      BY DEF HostInv
    <3>3. \A i \in 1..(n + 1 + j) : Through(new)[i] = Through(aux)[i]
      BY <2>9
    <3> DEFINE p == Through(new)
               q == Through(aux)
               m == n + 1 + j
    <3>4. DOMAIN p = 1..m /\ DOMAIN q = 1..(n + k)
      BY <2>7, <2>8
    <3> HIDE DEF p, q, m, new
    <3>5. Behind(aux.requires, p)
      <4>1. m \in Nat /\ m <= n + k /\ \A i \in 1..m : p[i] = q[i]
        BY <3>1, <3>3 DEF m, p, q
      <4>2. Behind(aux.requires, q)
        BY <3>2 DEF q
      <4> QED
        BY <3>1, <3>4, <4>1, <4>2, PrefixBehind
    <3> QED
      BY <3>5 DEF p
  <2>11. ASSUME NEW i \in 1..(n + 1)
         PROVE  results[i].success \/ (i = n + 1 /\ todo = <<>>)
    <3>1. CASE i = n + 1
      BY <2>3, <2>4, <2>6, <3>1
    <3>2. CASE i # n + 1
      <4>1. i \in 1..n
        BY <2>2, <3>2
      <4> QED
        BY <2>1, <2>4, <4>1 DEF HostInv, n
    <3> QED
      BY <3>1, <3>2
  <2> QED
    BY <2>4, <2>5, <2>10, <2>11 DEF HostInv
<1>3. \A success : success \in run_feature(f) => success \in BOOLEAN
  BY DEF run_feature
<1> HIDE DEF f
<1> QED
  BY <1>1, <1>2, <1>3 DEF RunFeature, f

LEMMA HostStepInv == HostInv /\ [HostSetupNext]_auxVars => HostInv'
<1> SUFFICES ASSUME HostInv, [HostSetupNext]_auxVars PROVE HostInv'
  OBVIOUS
<1>1. \A requires \in Requires : requires \in [Feature -> Seq(Feature)]
  BY HostSetupAssumption DEF _validate_registry
<1>2. \A user \in User : user[1] \in Nat /\ user[2] \in BOOLEAN
  <2> DEFINE P(u) == u[1] \in Nat /\ u[2] \in BOOLEAN
             x == <<1000, TRUE>>
             y == <<0, TRUE>>
             z == <<0, FALSE>>
  <2>1. x[1] = 1000 /\ y[1] = 0 /\ z[1] = 0
    OBVIOUS
  <2>2. x[2] = TRUE /\ y[2] = TRUE /\ z[2] = FALSE
    OBVIOUS
  <2>3. User = {x, y, z}
    BY DEF User
  <2> HIDE DEF x, y, z
  <2>4. P(x) /\ P(y) /\ P(z)
    <3>1. x[1] \in Nat /\ y[1] \in Nat /\ z[1] \in Nat
      BY <2>1
    <3>2. x[2] \in BOOLEAN /\ y[2] \in BOOLEAN /\ z[2] \in BOOLEAN
      BY <2>2
    <3> QED
      BY <3>1, <3>2
  <2> HIDE DEF P
  <2>5. \A user \in User : P(user)
    BY <2>3, <2>4
  <2> QED
    BY <2>5 DEF P
<1>3. ASSUME NEW requires \in Requires, NEW scope, NEW user \in User,
             NEW picked \in SUBSET Feature, NEW confirmed \in BOOLEAN,
             _select_interactive(requires, picked, scope, confirmed, user[1], user[2])
      PROVE  HostInv'
  BY <1>1, <1>2, <1>3, StartInv DEF _select_interactive
<1>4. ASSUME NEW requires \in Requires, NEW scope, NEW user \in User,
             NEW named \in SUBSET (Feature \union {NoFeature}), NEW enabled \in SUBSET named,
             _select_defaults(requires, named, enabled, scope, user[1], user[2])
      PROVE  HostInv'
  <2>1. CASE NoFeature \in named
    BY <1>4, <2>1, ExitedInv DEF _select_defaults
  <2>2. CASE NoFeature \notin named
    <3> DEFINE selected == {f \in named \intersect enabled : _allowed(f, scope, user[1])}
    <3>1. selected \in SUBSET Feature
      BY <2>2
    <3>2. _run(requires, selected, TRUE, user[1], user[2])
      BY <1>4, <2>2 DEF _select_defaults
    <3> HIDE DEF selected
    <3> QED
      BY <1>1, <1>2, <3>1, <3>2, StartInv
  <2> QED
    BY <2>1, <2>2
<1>5. CASE FeaturesDone
  BY <1>5, ExitedInv DEF FeaturesDone
<1>6. CASE RunFeature
  BY <1>6, RunFeatureInv
<1>7. CASE UNCHANGED auxVars
  BY <1>7 DEF auxVars, HostInv
<1> QED
  BY <1>3, <1>4, <1>5, <1>6, <1>7 DEF HostSetupNext

LEMMA HostInvFirst == HostInv => RequirementsFirst
<1> SUFFICES ASSUME HostInv, NEW i \in 1..Len(aux.results),
                    NEW d \in ToSet(aux.requires[aux.results[i].feature]),
                    d \in {r.feature : r \in ToSet(aux.results)} \union ToSet(aux.todo)
             PROVE  \E j \in 1..(i - 1) : aux.results[j] = Result(d, TRUE)
  BY DEF RequirementsFirst
<1> DEFINE n == Len(aux.results)
           k == Len(aux.todo)
           q == Through(aux)
<1>1. /\ aux.results \in Seq([feature : Feature, success : BOOLEAN]) /\ aux.todo \in Seq(Feature)
      /\ n \in Nat /\ k \in Nat /\ DOMAIN aux.results = 1..n /\ DOMAIN aux.todo = 1..k
  BY DEF HostInv, HostRun
<1>2. /\ DOMAIN q = 1..(n + k)
      /\ \A m \in 1..(n + k) : q[m] = IF m <= n THEN aux.results[m].feature ELSE aux.todo[m - n]
  BY DEF Through
<1> HIDE DEF q, n, k
<1>3. d \in ToSet(q)
  <2>1. CASE d \in {r.feature : r \in ToSet(aux.results)}
    <3>1. PICK m \in 1..n : d = aux.results[m].feature
      BY <1>1, <2>1 DEF ToSet
    <3>2. m \in 1..(n + k) /\ m <= n
      BY <1>1
    <3> QED
      BY <1>2, <3>1, <3>2 DEF ToSet
  <2>2. CASE d \in ToSet(aux.todo)
    <3>1. PICK m \in 1..k : d = aux.todo[m]
      BY <1>1, <2>2 DEF ToSet
    <3>2. n + m \in 1..(n + k) /\ ~(n + m <= n) /\ (n + m) - n = m
      BY <1>1
    <3>3. q[n + m] = d
      BY <1>2, <3>1, <3>2
    <3> QED
      BY <1>2, <3>2, <3>3 DEF ToSet
  <2> QED
    BY <2>1, <2>2
<1>4. i \in 1..n /\ i \in 1..(n + k) /\ i <= n
  BY <1>1 DEF n
<1>5. q[i] = aux.results[i].feature
  BY <1>2, <1>4
<1>6. PICK j \in 1..(n + k) : j < i /\ q[j] = d
  BY <1>2, <1>3, <1>4, <1>5 DEF HostInv, Behind, q
<1>7. j \in 1..n /\ j <= n /\ j \in 1..(i - 1) /\ j # n
  BY <1>1, <1>4, <1>6
<1>8. aux.results[j].feature = d /\ aux.results[j].success
  BY <1>2, <1>6, <1>7 DEF HostInv, n
<1>9. aux.results[j] \in [feature : Feature, success : BOOLEAN]
  <2>1. j \in DOMAIN aux.results
    BY <1>1, <1>7
  <2> DEFINE R == [feature : Feature, success : BOOLEAN]
             results == aux.results
  <2>2. results \in Seq(R) /\ j \in DOMAIN results
    BY <1>1, <2>1
  <2>3. \A s \in Seq(R) : \A m \in DOMAIN s : s[m] \in R
    <3> HIDE DEF R
    <3> QED
      OBVIOUS
  <2> HIDE DEF R, results
  <2>4. results[j] \in R
    BY <2>2, <2>3
  <2> QED
    BY <2>4 DEF R, results
<1>10. aux.results[j] = Result(d, TRUE)
  BY <1>8, <1>9 DEF Result
<1> QED
  BY <1>7, <1>10

-----------------------------------------------------------------------------

\* The names of what has been installed.
Names(results) == [i \in DOMAIN results |-> results[i].name]

\* The core before anything else.
CoreFirst(q) == \A i, j \in DOMAIN q : i < j /\ q[j] \in Core => q[i] \in Core

BootRun ==
  [pc : {"idle", "installing"}, todo : Seq(Component),
   results : Seq([name : Component, success : BOOLEAN]), rc : Nat]

\* What an installation has been through and what it has left make, together, a
\* list with the mandatory repositories and the core first.
BootInv ==
  /\ boot \in BootRun
  /\ boot.pc = "idle" => boot.todo = <<>>
  /\ boot.pc = "installing" =>
       LET taken == Names(boot.results) \o boot.todo
       IN Mandatory \subseteq ToSet(taken) /\ CoreFirst(taken)

Ref == Prereq \union Stack \union {"optional", "required"} \union UNION {ToSet(BuildSteps[s]) : s \in Stack}

WorkItem ==
  [kind : {"prereq", "build", "deploy", "diagnostic"}, stack : Stack \union {UnknownStack}, ref : Ref]

LlamaRun ==
  [pc : {"idle", "running"}, work : Seq(WorkItem), results : Seq([item : WorkItem, success : BOOLEAN]),
   rc : Nat, missed : SUBSET Prereq]

\* In a plan, a deployment is behind its stack's build steps and behind what the
\* snapshot missed.
Earlier(plan, i, item) == \E j \in DOMAIN plan : j < i /\ plan[j] = item
DeploysBehind(plan, missed) ==
  \A i \in DOMAIN plan : plan[i].kind = "deploy" =>
    /\ plan[i].ref \in Stack
    /\ \A step \in ToSet(BuildSteps[plan[i].ref]) : Earlier(plan, i, Item("build", plan[i].ref, step))
    /\ \A p \in missed : Earlier(plan, i, Item("prereq", UnknownStack, p))

ItemsDone(results) == [i \in DOMAIN results |-> results[i].item]

LlamaInv ==
  /\ llama \in LlamaRun
  /\ DeploysBehind(ItemsDone(llama.results) \o llama.work, llama.missed)

Status == {"ready", "error", "hidden", "unavailable", "version_mismatch"}

ResolvedEntry == [entry : Entry, status : Status]

\* Nothing but the program's own condition can change what was decided about it.
Fitting(e) ==
  /\ condition[e.binary] = "good"
  /\ e.check # None /\ e.check.pattern
  /\ _check_version_constraint(e, Version[e.binary])

\* What is left to register was found to be there, and to fit unless the fix for an
\* earlier link changed it; and no program runs that could take it away.
RegisterInv ==
  /\ condition \in [Component -> Condition]
  /\ register \in Seq(ResolvedEntry)
  /\ \A x \in ToSet(register) :
       /\ exists(x.entry.binary)
       /\ bounded(x.entry) /\ x.status # "hidden" /\ x.entry.binary \notin rewritten => Fitting(x.entry)
  /\ register # <<>> \/ banner.pc # "idle" => boot.pc = "idle"

BannerLine ==
  [name : Extension, suffix : {"mismatch", "version", "container", "tick", "cross"}, late : BOOLEAN]

LineMade == [looked : Nat, skipped : BOOLEAN, line : BannerLine \union {None}, up : BOOLEAN]

BannerRun ==
  [pc : {"idle", "open"}, todo : Seq(ResolvedEntry), quiet : BOOLEAN, tty : BOOLEAN,
   failure : BOOLEAN, late : Nat, shown : Seq(BannerLine), making : LineMade]

\* A cross that was not late is a failure the session knows of.
KnownCross(l, failure) == l.suffix = "cross" /\ ~l.late => failure

\* What was not skipped had its containers, and what is said to be fine as well.
SoundLine(m, failure) ==
  /\ ~m.skipped => m.up
  /\ m.line # None => KnownCross(m.line, failure) /\ (m.line.suffix \in {"tick", "version"} => m.up)

BannerInv ==
  /\ banner \in BannerRun
  /\ \A l \in ToSet(banner.shown) : KnownCross(l, banner.failure)
  /\ SoundLine(banner.making, banner.failure)

SetupInv == BootInv /\ HostInv /\ LlamaInv /\ RegisterInv /\ BannerInv

LEMMA Concatenated ==
  ASSUME NEW T, NEW p \in Seq(T), NEW q \in Seq(T)
  PROVE  /\ p \o q \in Seq(T) /\ Len(p \o q) = Len(p) + Len(q)
         /\ \A i \in 1..(Len(p) + Len(q)) : (p \o q)[i] = IF i <= Len(p) THEN p[i] ELSE q[i - Len(p)]
OBVIOUS

\* One thing done: what was done and what is left make the same list.
LEMMA MoveOn ==
  ASSUME NEW T, NEW done \in Seq(T), NEW left \in Seq(T), left # <<>>
  PROVE  /\ Append(done, Head(left)) \o Tail(left) = done \o left
         /\ Head(left) \in T /\ Tail(left) \in Seq(T)
<1> DEFINE p == Append(done, Head(left))
           t == Tail(left)
           n == Len(done)
           k == Len(left)
<1>1. /\ Head(left) \in T /\ Head(left) = left[1] /\ t \in Seq(T) /\ Len(t) = k - 1
      /\ \A i \in 1..(k - 1) : t[i] = left[i + 1]
      /\ n \in Nat /\ k \in Nat /\ k > 0
  OBVIOUS
<1>2. p \in Seq(T) /\ Len(p) = n + 1 /\ (\A i \in 1..n : p[i] = done[i]) /\ p[n + 1] = left[1]
  BY <1>1
<1>3. /\ p \o t \in Seq(T) /\ Len(p \o t) = Len(p) + Len(t)
      /\ \A i \in 1..(Len(p) + Len(t)) : (p \o t)[i] = IF i <= Len(p) THEN p[i] ELSE t[i - Len(p)]
  <2>1. p \in Seq(T) /\ t \in Seq(T)
    BY <1>1, <1>2
  <2> HIDE DEF p, t
  <2> QED
    BY <2>1, Concatenated
<1> HIDE DEF p, t
<1>4. /\ done \o left \in Seq(T) /\ Len(done \o left) = n + k
      /\ \A i \in 1..(n + k) : (done \o left)[i] = IF i <= n THEN done[i] ELSE left[i - n]
  OBVIOUS
<1>5. n \in Nat /\ k \in Nat /\ k > 0
  BY <1>1
<1> HIDE DEF n, k
<1>6. ASSUME NEW i \in 1..(n + k) PROVE (p \o t)[i] = (done \o left)[i]
  <2>1. /\ i \in 1..(Len(p) + Len(t)) /\ Len(p) = n + 1
        /\ \A j \in 1..(Len(p) + Len(t)) : (p \o t)[j] = IF j <= n + 1 THEN p[j] ELSE t[j - (n + 1)]
    <3>1. Len(p) = n + 1 /\ Len(t) = k - 1
      BY <1>1, <1>2
    <3>2. i \in 1..((n + 1) + (k - 1))
      BY <1>5
    <3>3. \A j \in 1..(Len(p) + Len(t)) : (p \o t)[j] = IF j <= Len(p) THEN p[j] ELSE t[j - Len(p)]
      BY <1>3
    <3> QED
      BY <3>1, <3>2, <3>3
  <2>2. CASE i <= n
    <3>1. i \in 1..n /\ i <= n + 1
      BY <1>5, <2>2
    <3> QED
      BY <1>2, <1>3, <1>4, <2>1, <2>2, <3>1
  <2>3. CASE i = n + 1
    <3>1. ~(i <= n) /\ i - n = 1 /\ i <= n + 1
      BY <1>5, <2>3
    <3> QED
      BY <1>2, <1>3, <1>4, <2>1, <2>3, <3>1
  <2>4. CASE i > n + 1
    <3>1. ~(i <= n) /\ ~(i <= n + 1) /\ i - (n + 1) \in 1..(k - 1) /\ (i - (n + 1)) + 1 = i - n
      BY <1>5, <2>4
    <3> QED
      <4>1. PICK m \in 1..(k - 1) : m = i - (n + 1) /\ m + 1 = i - n
        BY <3>1
      <4>2. (p \o t)[i] = t[m]
        BY <2>1, <3>1, <4>1
      <4>3. (done \o left)[i] = left[m + 1]
        BY <1>4, <3>1, <4>1
      <4>4. t[m] = left[m + 1]
        BY <1>1
      <4> QED
        BY <4>2, <4>3, <4>4
  <2>5. i <= n \/ i = n + 1 \/ i > n + 1
    BY <1>5
  <2> QED
    BY <2>2, <2>3, <2>4, <2>5
<1>7. Len(p \o t) = Len(done \o left)
  BY <1>1, <1>2, <1>3, <1>4, <1>5
<1>8. p \o t = done \o left
  <2> DEFINE a == p \o t
             b == done \o left
  <2>1. a \in Seq(T) /\ b \in Seq(T) /\ Len(a) = Len(b) /\ \A i \in 1..Len(b) : a[i] = b[i]
    BY <1>3, <1>4, <1>6, <1>7
  <2> HIDE DEF a, b
  <2>2. a = b
    BY <2>1
  <2> QED
    BY <2>2 DEF a, b
<1> QED
  BY <1>1, <1>8 DEF p, t

\* Where the elements of a list in two parts stand.
InParts(p, q, a) ==
  /\ \A i \in DOMAIN p : i \in DOMAIN a /\ a[i] = p[i]
  /\ \A i \in DOMAIN q : Len(p) + i \in DOMAIN a /\ a[Len(p) + i] = q[i]
  /\ \A i \in DOMAIN a : i \in DOMAIN p \/ (i > Len(p) /\ i - Len(p) \in DOMAIN q)

LEMMA InTwoParts ==
  ASSUME NEW T, NEW p \in Seq(T), NEW q \in Seq(T)
  PROVE  p \o q \in Seq(T) /\ ToSet(p \o q) = ToSet(p) \union ToSet(q) /\ InParts(p, q, p \o q)
<1> DEFINE a == p \o q
           n == Len(p)
           k == Len(q)
<1>1. /\ a \in Seq(T) /\ Len(a) = n + k /\ n \in Nat /\ k \in Nat
      /\ DOMAIN a = 1..(n + k) /\ DOMAIN p = 1..n /\ DOMAIN q = 1..k
      /\ \A i \in 1..(n + k) : a[i] = IF i <= n THEN p[i] ELSE q[i - n]
  OBVIOUS
<1> HIDE DEF a, n, k
<1>2. ASSUME NEW i \in 1..n PROVE i \in 1..(n + k) /\ a[i] = p[i]
  <2>1. i \in 1..(n + k) /\ i <= n
    BY <1>1
  <2> QED
    BY <1>1, <2>1
<1>3. ASSUME NEW i \in 1..k PROVE n + i \in 1..(n + k) /\ a[n + i] = q[i]
  <2>1. n + i \in 1..(n + k) /\ ~(n + i <= n) /\ (n + i) - n = i
    BY <1>1
  <2> QED
    BY <1>1, <2>1
<1>4. ASSUME NEW i \in 1..(n + k) PROVE i \in 1..n \/ (i > n /\ i - n \in 1..k)
  BY <1>1
<1>5. ToSet(a) = ToSet(p) \union ToSet(q)
  <2>1. ASSUME NEW e \in ToSet(a) PROVE e \in ToSet(p) \union ToSet(q)
    <3>1. PICK i \in 1..(n + k) : a[i] = e
      BY <1>1, <2>1 DEF ToSet
    <3>2. CASE i \in 1..n
      BY <1>1, <1>2, <3>1, <3>2 DEF ToSet
    <3>3. CASE i - n \in 1..k
      <4>1. n + (i - n) = i
        BY <1>1
      <4> QED
        BY <1>1, <1>3, <3>1, <3>3, <4>1 DEF ToSet
    <3> QED
      BY <1>4, <3>2, <3>3
  <2>2. ASSUME NEW e \in ToSet(p) PROVE e \in ToSet(a)
    BY <1>1, <1>2, <2>2 DEF ToSet
  <2>3. ASSUME NEW e \in ToSet(q) PROVE e \in ToSet(a)
    <3>1. PICK i \in 1..k : q[i] = e
      BY <1>1, <2>3 DEF ToSet
    <3>2. n + i \in 1..(n + k) /\ a[n + i] = e
      BY <1>3, <3>1
    <3> QED
      BY <1>1, <3>2 DEF ToSet
  <2> QED
    BY <2>1, <2>2, <2>3
<1>6. InParts(p, q, a)
  BY <1>1, <1>2, <1>3, <1>4 DEF InParts, n, k
<1> QED
  BY <1>1, <1>5, <1>6 DEF a

\* A list with one more at its end.
LEMMA AppendFacts ==
  ASSUME NEW T, NEW q \in Seq(T), NEW e \in T
  PROVE  /\ Append(q, e) \in Seq(T) /\ DOMAIN Append(q, e) = 1..(Len(q) + 1)
         /\ Append(q, e)[Len(q) + 1] = e
         /\ \A i \in DOMAIN q : i \in 1..Len(q) /\ Append(q, e)[i] = q[i]
         /\ ToSet(Append(q, e)) = ToSet(q) \union {e}
<1> DEFINE a == Append(q, e)
           n == Len(q)
<1>1. a \in Seq(T) /\ n \in Nat /\ DOMAIN a = 1..(n + 1) /\ a[n + 1] = e /\ DOMAIN q = 1..n
      /\ \A i \in 1..n : a[i] = q[i]
  OBVIOUS
<1> HIDE DEF a, n
<1>2. ToSet(a) = ToSet(q) \union {e}
  <2>1. 1..(n + 1) = (1..n) \union {n + 1}
    BY <1>1
  <2> QED
    BY <1>1, <2>1 DEF ToSet
<1> QED
  BY <1>1, <1>2 DEF a, n

-----------------------------------------------------------------------------

InstallResult == [name : Component, success : BOOLEAN]

LEMMA NamesFacts ==
  ASSUME NEW results \in Seq(InstallResult)
  PROVE  /\ Names(results) \in Seq(Component) /\ DOMAIN Names(results) = DOMAIN results
         /\ \A i \in DOMAIN results : Names(results)[i] = results[i].name
         /\ ToSet(Names(results)) = {r.name : r \in ToSet(results)}
<1> DEFINE n == Len(results)
<1>1. n \in Nat /\ DOMAIN results = 1..n /\ \A i \in 1..n : results[i] \in InstallResult
  OBVIOUS
<1>2. \A r \in InstallResult : r.name \in Component
  BY DEF InstallResult
<1> HIDE DEF n
<1>3. Names(results) = [i \in 1..n |-> results[i].name] /\ \A i \in 1..n : results[i].name \in Component
  BY <1>1, <1>2 DEF Names
<1>4. Names(results) \in Seq(Component)
  BY <1>1, <1>3
<1>5. DOMAIN Names(results) = 1..n /\ \A i \in 1..n : Names(results)[i] = results[i].name
  BY <1>3
<1>6. ToSet(Names(results)) = {r.name : r \in ToSet(results)}
  BY <1>1, <1>5 DEF ToSet
<1> QED
  BY <1>1, <1>4, <1>5, <1>6

LEMMA NamesAppend ==
  ASSUME NEW results \in Seq(InstallResult), NEW r \in InstallResult
  PROVE  Names(Append(results, r)) = Append(Names(results), r.name)
<1> DEFINE new == Append(results, r)
           a == Names(new)
           b == Append(Names(results), r.name)
           n == Len(results)
<1>1. /\ new \in Seq(InstallResult) /\ n \in Nat /\ DOMAIN new = 1..(n + 1) /\ new[n + 1] = r
      /\ \A i \in 1..n : new[i] = results[i]
  BY AppendFacts
<1>2. a \in Seq(Component) /\ DOMAIN a = 1..(n + 1) /\ \A i \in 1..(n + 1) : a[i] = new[i].name
  <2> HIDE DEF new
  <2> QED
    BY <1>1, NamesFacts
<1>3. /\ b \in Seq(Component) /\ DOMAIN b = 1..(n + 1) /\ b[n + 1] = r.name
      /\ \A i \in 1..n : b[i] = results[i].name
  <2>1. /\ Names(results) \in Seq(Component) /\ DOMAIN Names(results) = 1..n
        /\ \A i \in 1..n : Names(results)[i] = results[i].name
    BY NamesFacts
  <2>2. r.name \in Component /\ Len(Names(results)) = n
    BY <1>1, <2>1 DEF InstallResult
  <2> QED
    BY <2>1, <2>2, AppendFacts
<1> HIDE DEF new, a, b, n
<1>4. ASSUME NEW i \in 1..(n + 1) PROVE a[i] = b[i]
  <2>1. i \in 1..n \/ i = n + 1
    BY <1>1
  <2>2. CASE i \in 1..n
    BY <1>1, <1>2, <1>3, <2>2
  <2>3. CASE i = n + 1
    BY <1>1, <1>2, <1>3, <2>3
  <2> QED
    BY <2>1, <2>2, <2>3
<1>5. a = b
  <2>1. Len(a) = n + 1 /\ Len(b) = n + 1
    BY <1>1, <1>2, <1>3
  <2> QED
    BY <1>2, <1>3, <1>4, <2>1
<1> QED
  BY <1>5 DEF a, b, new

LEMMA BootExitedInv ==
  ASSUME NEW code \in Nat, boot' = Exited(code)
  PROVE  BootInv'
<1> DEFINE new == boot'
<1>1. new.pc = "idle" /\ new.todo = <<>> /\ new \in BootRun
  <2>1. <<>> \in Seq(Component) /\ <<>> \in Seq([name : Component, success : BOOLEAN])
    OBVIOUS
  <2> QED
    BY <2>1 DEF Exited, BootRun
<1> HIDE DEF new
<1>2. new.pc # "installing"
  BY <1>1
<1> QED
  BY <1>1, <1>2 DEF BootInv, new

LEMMA BootInitInv ==
  ASSUME BootstrapInit
  PROVE  BootInv
<1>1. boot.pc = "idle" /\ boot.todo = <<>> /\ boot \in BootRun
  <2>1. <<>> \in Seq(Component) /\ <<>> \in Seq([name : Component, success : BOOLEAN])
    OBVIOUS
  <2> QED
    BY <2>1 DEF BootstrapInit, Exited, BootRun
<1>2. boot.pc # "installing"
  BY <1>1
<1> QED
  BY <1>1, <1>2 DEF BootInv

\* What install_components makes of a selection that has the mandatory repositories.
LEMMA InstallOrder ==
  ASSUME NEW components \in Seq(Component), Mandatory \subseteq ToSet(components)
  PROVE  LET todo == install_components(components)
         IN  todo \in Seq(Component) /\ Mandatory \subseteq ToSet(todo) /\ CoreFirst(todo)
<1> DEFINE p == Those(components, Core)
           q == Those(components, Component \ Core)
           a == p \o q
<1>1. Core \subseteq Component /\ Mandatory \subseteq Component
  BY BootstrapAssumption DEF Component
<1>2. /\ p \in Seq(Core \intersect Component) /\ ToSet(p) = ToSet(components) \intersect Core
      /\ q \in Seq((Component \ Core) \intersect Component)
      /\ ToSet(q) = ToSet(components) \intersect (Component \ Core)
  BY ThoseFacts
<1>3. p \in Seq(Component) /\ q \in Seq(Component)
      /\ (\A i \in DOMAIN p : p[i] \in Core) /\ (\A i \in DOMAIN q : q[i] \notin Core)
  <2> HIDE DEF p, q
  <2> QED
    BY <1>2
<1> HIDE DEF p, q
<1>9. InParts(p, q, a) /\ a \in Seq(Component) /\ ToSet(a) = ToSet(p) \union ToSet(q)
  BY <1>3, InTwoParts
<1> HIDE DEF a
<1>4. /\ a \in Seq(Component) /\ ToSet(a) = ToSet(p) \union ToSet(q)
      /\ \A i \in DOMAIN p : i \in DOMAIN a /\ a[i] = p[i]
      /\ \A i \in DOMAIN q : Len(p) + i \in DOMAIN a /\ a[Len(p) + i] = q[i]
      /\ \A i \in DOMAIN a : i \in DOMAIN p \/ (i > Len(p) /\ i - Len(p) \in DOMAIN q)
  BY <1>9 DEF InParts
<1>5. Len(p) \in Nat /\ DOMAIN p = 1..Len(p) /\ \A i \in DOMAIN a : i \in Nat /\ i > 0
  <2> HIDE DEF a
  <2> QED
    BY <1>3, <1>4
<1> HIDE DEF a
<1>6. CoreFirst(a)
  <2> SUFFICES ASSUME NEW i \in DOMAIN a, NEW j \in DOMAIN a, i < j, a[j] \in Core
               PROVE  a[i] \in Core
    BY DEF CoreFirst
  <2>1. j \in DOMAIN p
    <3> SUFFICES ASSUME j \notin DOMAIN p PROVE FALSE
      OBVIOUS
    <3>1. PICK k \in DOMAIN q : k = j - Len(p)
      BY <1>4
    <3>2. a[Len(p) + k] = q[k]
      BY <1>4
    <3>3. Len(p) + k = j
      BY <1>5, <3>1
    <3> QED
      BY <1>3, <3>2, <3>3
  <2>2. i \in DOMAIN p
    BY <1>5, <2>1
  <2> QED
    BY <1>3, <1>4, <2>2
<1>7. Mandatory \subseteq ToSet(a)
  BY <1>1, <1>2, <1>4
<1>8. install_components(components) = a
  BY DEF install_components, a, p, q
<1> QED
  BY <1>4, <1>6, <1>7, <1>8

LEMMA BootStartInv ==
  ASSUME NEW components \in Seq(Component), Mandatory \subseteq ToSet(components), NEW owner \in BOOLEAN,
         _run_installation(components, owner)
  PROVE  BootInv'
<1> DEFINE todo == install_components(components)
           base == Exited(0)
           none == <<>>
<1>1. CASE ~owner
  BY <1>1, BootExitedInv DEF _run_installation
<1>2. CASE owner
  <2>1. boot' = [base EXCEPT !.pc = "installing", !.todo = todo]
    BY <1>2 DEF _run_installation
  <2>2. todo \in Seq(Component) /\ Mandatory \subseteq ToSet(todo) /\ CoreFirst(todo)
    BY InstallOrder
  <2>3. base = [pc |-> "idle", todo |-> none, results |-> none, rc |-> 0]
    BY DEF Exited
  <2> HIDE DEF todo, base
  <2>4. boot' = [pc |-> "installing", todo |-> todo, results |-> none, rc |-> 0]
    BY <2>1, <2>3
  <2> DEFINE new == boot'
  <2>5. new.pc = "installing" /\ new.todo = todo /\ new.results = none
    BY <2>4
  <2>6. new \in BootRun
    <3>1. none \in Seq([name : Component, success : BOOLEAN])
      OBVIOUS
    <3> QED
      BY <2>2, <2>4, <3>1 DEF BootRun
  <2>7. Names(none) \o todo = todo
    <3>1. Names(none) = <<>>
      BY DEF Names
    <3>2. <<>> \o todo = todo
      BY <2>2
    <3> QED
      BY <3>1, <3>2
  <2> HIDE DEF new, none
  <2>8. new.pc # "idle"
    BY <2>5
  <2> QED
    BY <2>2, <2>5, <2>6, <2>7, <2>8 DEF BootInv, new
<1> QED
  BY <1>1, <1>2

LEMMA FromRepos ==
  ASSUME NEW S
  PROVE  /\ Those(WorkspaceRepos, S) \in Seq(S \intersect Repos)
         /\ ToSet(Those(WorkspaceRepos, S)) = Repos \intersect S
<1>1. WorkspaceRepos \in Seq(Repos) /\ ToSet(WorkspaceRepos) = Repos
  BY BootstrapAssumption DEF Repos
<1> QED
  BY <1>1, ThoseFacts

LEMMA FromComponents ==
  ASSUME NEW S
  PROVE  Those(Components, S) \in Seq(S \intersect ToSet(Components))
<1>1. Components \in Seq(ToSet(Components))
  BY BootstrapAssumption
<1> DEFINE T == ToSet(Components)
<1> HIDE DEF T
<1> QED
  BY <1>1, ThoseFacts DEF T

LEMMA RunInteractiveInv ==
  ASSUME BootInv, NEW repos \in SUBSET Repos, NEW tools \in SUBSET ToSet(Components),
         NEW confirmed \in BOOLEAN, NEW owner \in BOOLEAN,
         RunInteractive(repos, tools, confirmed, owner)
  PROVE  BootInv'
<1> DEFINE p == Those(WorkspaceRepos, repos)
           q == Those(WorkspaceRepos, Mandatory \ repos)
           t == Those(Components, tools)
           chosen == select_workspace_repos(repos) \o t
<1>1. /\ p \in Seq(repos \intersect Repos) /\ ToSet(p) = Repos \intersect repos
      /\ q \in Seq((Mandatory \ repos) \intersect Repos)
      /\ ToSet(q) = Repos \intersect (Mandatory \ repos)
      /\ t \in Seq(tools \intersect ToSet(Components))
  BY FromRepos, FromComponents
<1>2. p \in Seq(Component) /\ q \in Seq(Component) /\ t \in Seq(Component)
  <2>1. Repos \subseteq Component /\ ToSet(Components) \subseteq Component
    BY DEF Component
  <2> HIDE DEF p, q, t
  <2> QED
    BY <1>1, <2>1
<1>3. chosen = (p \o q) \o t
  BY DEF select_workspace_repos
<1> HIDE DEF p, q, t, chosen
<1>4. p \o q \in Seq(Component) /\ ToSet(p \o q) = ToSet(p) \union ToSet(q)
  BY <1>2, InTwoParts
<1>5. chosen \in Seq(Component) /\ ToSet(chosen) = ToSet(p \o q) \union ToSet(t)
  <2> DEFINE first == p \o q
  <2>1. first \in Seq(Component) /\ chosen = first \o t
    BY <1>3, <1>4
  <2> HIDE DEF first
  <2>2. chosen \in Seq(Component) /\ ToSet(chosen) = ToSet(first) \union ToSet(t)
    BY <1>2, <2>1, InTwoParts
  <2> QED
    BY <2>2 DEF first
<1>6. Mandatory \subseteq ToSet(chosen)
  BY <1>1, <1>4, <1>5, BootstrapAssumption
<1>7. boot' = Exited(0) \/ _run_installation(chosen, owner)
  BY DEF RunInteractive, chosen, t
<1> QED
  BY <1>5, <1>6, <1>7, BootExitedInv, BootStartInv

LEMMA RunFromDefaultsInv ==
  ASSUME BootInv, NEW names \in Seq(Component \union {UnknownName}), NEW owner \in BOOLEAN,
         _run_from_defaults(names, owner)
  PROVE  BootInv'
<1> DEFINE T == Component \union {UnknownName}
           q == Those(WorkspaceRepos, Mandatory \ ToSet(names))
           named == names \o q
           wanted == Repos \union {c \in Component : ~get_status(c)}
           pending == Those(named, wanted)
<1>1. /\ q \in Seq((Mandatory \ ToSet(names)) \intersect Repos)
      /\ ToSet(q) = Repos \intersect (Mandatory \ ToSet(names))
  BY FromRepos
<1>2. names \in Seq(T) /\ q \in Seq(T)
  <2>1. Repos \subseteq T
    BY DEF Component
  <2> HIDE DEF q
  <2> QED
    BY <1>1, <2>1
<1> HIDE DEF q, T
<1>3. named \in Seq(T) /\ ToSet(named) = ToSet(names) \union ToSet(q)
  BY <1>2, InTwoParts
<1> HIDE DEF named
<1>4. pending \in Seq(wanted \intersect T) /\ ToSet(pending) = ToSet(named) \intersect wanted
  <2> HIDE DEF wanted
  <2> QED
    BY <1>3, ThoseFacts
<1>5. wanted \subseteq Component
  BY DEF Component
<1>6. pending \in Seq(Component)
  <2> HIDE DEF pending, wanted
  <2> QED
    BY <1>4, <1>5
<1>7. Mandatory \subseteq ToSet(pending)
  <2>1. Mandatory \subseteq ToSet(named)
    BY <1>1, <1>3, BootstrapAssumption
  <2> QED
    BY <1>4, <2>1, BootstrapAssumption
<1>8. boot' = Exited(0) \/ boot' = Exited(1) \/ _run_installation(pending, owner)
  BY DEF _run_from_defaults, pending, named, wanted, q
<1> QED
  BY <1>6, <1>7, <1>8, BootExitedInv, BootStartInv

LEMMA InstallNextInv ==
  ASSUME BootInv, InstallNext
  PROVE  BootInv'
<1> DEFINE c == Head(boot.todo)
           left == Tail(boot.todo)
<1>1. /\ boot \in BootRun /\ boot.todo \in Seq(Component) /\ boot.results \in Seq(InstallResult)
      /\ boot.todo # <<>>
  BY DEF BootInv, BootRun, InstallNext, InstallResult
<1>2. \A o \in install_component(c) : o.success \in BOOLEAN
  <2> HIDE DEF c
  <2> SUFFICES ASSUME NEW o \in install_component(c) PROVE o.success \in BOOLEAN
    OBVIOUS
  <2> DEFINE outcome(b, s) == [success |-> b, now |-> s]
  <2>1. \A b, s : outcome(b, s).success = b
    OBVIOUS
  <2>2. \/ o \in {outcome(TRUE, s) : s \in _pull_workspace_repo(c)}
        \/ o \in {outcome(TRUE, condition[c])}
        \/ o \in {outcome(TRUE, "good")}
        \/ o \in {outcome(FALSE, s) : s \in {condition[c], "broken", "absent"}}
    BY Zenon DEF install_component
  <2>3. \E b \in BOOLEAN : \E s : o = outcome(b, s)
    <3> HIDE DEF outcome
    <3> QED
      BY <2>2, Zenon
  <2> HIDE DEF outcome
  <2> QED
    BY <2>1, <2>3
<1>3. PICK o \in install_component(c) :
        boot' = [boot EXCEPT !.todo = left, !.results = Append(@, [name |-> c, success |-> o.success])]
  BY DEF InstallNext
<1> DEFINE r == [name |-> c, success |-> o.success]
           results == Append(boot.results, r)
<1>4. c \in Component /\ left \in Seq(Component)
  BY <1>1, MoveOn
<1>5. r \in InstallResult /\ r.name = c
  BY <1>2, <1>4 DEF InstallResult
<1>6. boot' = [boot EXCEPT !.todo = left, !.results = results]
  BY <1>3
<1> HIDE DEF r, left, c
<1>7. results \in Seq(InstallResult) /\ Names(results) = Append(Names(boot.results), c)
  BY <1>1, <1>5, NamesAppend, AppendFacts
<1> HIDE DEF results
<1> DEFINE new == boot'
<1>8. new \in BootRun /\ new.todo = left /\ new.results = results /\ new.pc = boot.pc
  BY <1>1, <1>4, <1>6, <1>7 DEF BootRun, InstallResult
<1>9. Names(results) \o left = Names(boot.results) \o boot.todo
  <2>1. Names(boot.results) \in Seq(Component)
    BY <1>1, NamesFacts
  <2> QED
    BY <1>1, <1>7, <2>1, MoveOn DEF c, left
<1>10. boot.pc # "idle"
  BY <1>1 DEF BootInv
<1> HIDE DEF new
<1>11. boot.pc = "installing" =>
         LET taken == Names(boot.results) \o boot.todo IN Mandatory \subseteq ToSet(taken) /\ CoreFirst(taken)
  BY DEF BootInv
<1> QED
  BY <1>8, <1>9, <1>10, <1>11 DEF BootInv, new

\* The installer keeps its invariant, and keeps the machine's description one.
LEMMA BootStepInv ==
  ASSUME BootInv, [BootstrapNext]_bootVars
  PROVE  BootInv'
<1>1. ASSUME NEW n \in 0..MaxNames, NEW names \in [1..n -> Component \union {UnknownName}]
      PROVE  names \in Seq(Component \union {UnknownName})
  <2>1. n \in Nat
    BY BootstrapAssumption
  <2> QED
    BY <2>1
<1>2. CASE Summary
  <2>1. _print_summary(boot.results) \in Nat
    BY DEF _print_summary
  <2> QED
    BY <1>2, <2>1, BootExitedInv DEF Summary
<1>3. CASE Dies
  BY <1>3, BootExitedInv DEF Dies
<1>4. CASE InstallNext
  BY <1>4, InstallNextInv
<1>5. ASSUME NEW repos \in SUBSET Repos, NEW tools \in SUBSET ToSet(Components), NEW confirmed \in BOOLEAN,
             NEW owner \in BOOLEAN, RunInteractive(repos, tools, confirmed, owner)
      PROVE  BootInv'
  BY <1>5, RunInteractiveInv
<1>6. ASSUME NEW n \in 0..MaxNames, NEW names \in [1..n -> Component \union {UnknownName}],
             NEW owner \in BOOLEAN, _run_from_defaults(names, owner)
      PROVE  BootInv'
  BY <1>1, <1>6, RunFromDefaultsInv
<1>7. CASE UNCHANGED bootVars
  BY <1>7 DEF bootVars, BootInv
<1> QED
  BY <1>2, <1>3, <1>4, <1>5, <1>6, <1>7 DEF BootstrapNext

\* An installation that comes to its summary has taken everything.
LEMMA BootInvTakes ==
  ASSUME BootInv, Summary
  PROVE  /\ Mandatory \subseteq {r.name : r \in ToSet(boot.results)}
         /\ \A i, j \in DOMAIN boot.results :
              i < j /\ boot.results[j].name \in Core => boot.results[i].name \in Core
<1>1. boot.results \in Seq(InstallResult) /\ boot.todo = <<>> /\ boot.pc = "installing"
  BY DEF BootInv, BootRun, Summary, InstallResult
<1> DEFINE taken == Names(boot.results)
<1>2. /\ taken \in Seq(Component) /\ DOMAIN taken = DOMAIN boot.results
      /\ \A i \in DOMAIN boot.results : taken[i] = boot.results[i].name
      /\ ToSet(taken) = {r.name : r \in ToSet(boot.results)}
  BY <1>1, NamesFacts
<1>3. taken \o <<>> = taken
  <2> HIDE DEF taken
  <2> QED
    BY <1>2
<1>4. Mandatory \subseteq ToSet(taken) /\ CoreFirst(taken)
  BY <1>1, <1>3 DEF BootInv
<1> HIDE DEF taken
<1> QED
  BY <1>2, <1>4 DEF CoreFirst

-----------------------------------------------------------------------------

ExecuteResult == [item : WorkItem, success : BOOLEAN]

LEMMA ItemFacts ==
  ASSUME NEW kind, NEW stack, NEW ref
  PROVE  Item(kind, stack, ref).kind = kind /\ Item(kind, stack, ref).ref = ref
BY DEF Item

LEMMA ItemsAreWork ==
  /\ \A p \in Prereq : Item("prereq", UnknownStack, p) \in WorkItem
  /\ \A s \in Stack : \A step \in ToSet(BuildSteps[s]) : Item("build", s, step) \in WorkItem
  /\ \A s \in Stack : Item("deploy", s, s) \in WorkItem
  /\ \A d \in {"optional", "required"} : Item("diagnostic", UnknownStack, d) \in WorkItem
BY DEF Item, WorkItem, Ref

LEMMA ItemsDoneFacts ==
  ASSUME NEW results \in Seq(ExecuteResult)
  PROVE  /\ ItemsDone(results) \in Seq(WorkItem) /\ DOMAIN ItemsDone(results) = DOMAIN results
         /\ \A i \in DOMAIN results : ItemsDone(results)[i] = results[i].item
<1> DEFINE n == Len(results)
<1>1. n \in Nat /\ DOMAIN results = 1..n /\ \A i \in 1..n : results[i] \in ExecuteResult
  OBVIOUS
<1>2. \A r \in ExecuteResult : r.item \in WorkItem
  BY DEF ExecuteResult
<1> HIDE DEF n
<1>3. ItemsDone(results) = [i \in 1..n |-> results[i].item] /\ \A i \in 1..n : results[i].item \in WorkItem
  BY <1>1, <1>2 DEF ItemsDone
<1>4. ItemsDone(results) \in Seq(WorkItem)
  BY <1>1, <1>3
<1>5. DOMAIN ItemsDone(results) = 1..n /\ \A i \in 1..n : ItemsDone(results)[i] = results[i].item
  BY <1>3
<1> QED
  BY <1>1, <1>4, <1>5

LEMMA ItemsDoneAppend ==
  ASSUME NEW results \in Seq(ExecuteResult), NEW r \in ExecuteResult
  PROVE  ItemsDone(Append(results, r)) = Append(ItemsDone(results), r.item)
<1> DEFINE new == Append(results, r)
           a == ItemsDone(new)
           b == Append(ItemsDone(results), r.item)
           n == Len(results)
<1>1. /\ new \in Seq(ExecuteResult) /\ n \in Nat /\ DOMAIN new = 1..(n + 1) /\ new[n + 1] = r
      /\ \A i \in 1..n : new[i] = results[i]
  BY AppendFacts
<1>2. a \in Seq(WorkItem) /\ DOMAIN a = 1..(n + 1) /\ \A i \in 1..(n + 1) : a[i] = new[i].item
  <2> HIDE DEF new
  <2> QED
    BY <1>1, ItemsDoneFacts
<1>3. /\ b \in Seq(WorkItem) /\ DOMAIN b = 1..(n + 1) /\ b[n + 1] = r.item
      /\ \A i \in 1..n : b[i] = results[i].item
  <2>1. /\ ItemsDone(results) \in Seq(WorkItem) /\ DOMAIN ItemsDone(results) = 1..n
        /\ \A i \in 1..n : ItemsDone(results)[i] = results[i].item
    BY ItemsDoneFacts
  <2>2. r.item \in WorkItem /\ Len(ItemsDone(results)) = n
    BY <1>1, <2>1 DEF ExecuteResult
  <2> QED
    BY <2>1, <2>2, AppendFacts
<1> HIDE DEF new, a, b, n
<1>4. ASSUME NEW i \in 1..(n + 1) PROVE a[i] = b[i]
  <2>1. i \in 1..n \/ i = n + 1
    BY <1>1
  <2>2. CASE i \in 1..n
    BY <1>1, <1>2, <1>3, <2>2
  <2>3. CASE i = n + 1
    BY <1>1, <1>2, <1>3, <2>3
  <2> QED
    BY <2>1, <2>2, <2>3
<1>5. a = b
  <2>1. Len(a) = n + 1 /\ Len(b) = n + 1
    BY <1>1, <1>2, <1>3
  <2> QED
    BY <1>2, <1>3, <1>4, <2>1
<1> QED
  BY <1>5 DEF a, b, new

LEMMA MissingFacts ==
  ASSUME NEW s \in Stack
  PROVE  missing_prereqs_for_stack(s) \in Seq(Prereq)
<1> DEFINE P == {p \in Prereq : ~_prereq_satisfied(p)}
           T == ToSet(Needs[s])
           need == Needs[s]
           q == Those(need, P)
<1>1. need \in Seq(T)
  BY LlamaAssumption
<1> HIDE DEF need, T
<1>2. q \in Seq(P \intersect T)
  BY <1>1, ThoseFacts
<1>3. P \intersect T \subseteq Prereq
  OBVIOUS
<1>4. missing_prereqs_for_stack(s) = q
  BY DEF missing_prereqs_for_stack, q, need
<1> HIDE DEF q, P
<1> QED
  BY <1>2, <1>3, <1>4

\* A plan has what was asked for and all that the stacks miss.
LEMMA BuildPlanFacts ==
  ASSUME NEW stacks \in Seq(Stack), NEW extra \in Seq(Prereq)
  PROVE  /\ _build_plan(stacks, extra) \in Seq(Prereq)
         /\ UNION {ToSet(missing_prereqs_for_stack(s)) : s \in ToSet(stacks)}
              \subseteq ToSet(_build_plan(stacks, extra))
<1> DEFINE ss == [i \in DOMAIN stacks |-> missing_prereqs_for_stack(stacks[i])]
           missing == FlattenSeq(ss)
           firsts == {i \in DOMAIN missing : /\ missing[i] \notin ToSet(extra)
                                             /\ \A j \in 1..(i - 1) : missing[j] # missing[i]}
           rest == Among(missing, firsts)
<1>1. \A i \in DOMAIN stacks : stacks[i] \in Stack /\ missing_prereqs_for_stack(stacks[i]) \in Seq(Prereq)
  BY MissingFacts
<1>2. ss \in Seq(Seq(Prereq)) /\ DOMAIN ss = DOMAIN stacks
  <2> DEFINE S == Seq(Prereq)
             n == Len(stacks)
  <2>1. n \in Nat /\ DOMAIN stacks = 1..n
    OBVIOUS
  <2>2. \A i \in 1..n : ss[i] \in S
    BY <1>1, <2>1
  <2>3. DOMAIN ss = 1..n /\ ss = [i \in 1..n |-> ss[i]]
    BY <2>1
  <2> HIDE DEF S, n, ss
  <2>4. ss \in Seq(S)
    BY <2>1, <2>2, <2>3
  <2> QED
    BY <2>1, <2>3, <2>4 DEF S
<1>3. \A i \in DOMAIN stacks : ss[i] = missing_prereqs_for_stack(stacks[i])
  OBVIOUS
<1> HIDE DEF ss
<1>9. missing \in Seq(Prereq) /\ HasSections(missing, ss)
  BY <1>2, FlattenFacts
<1> HIDE DEF missing
<1>4. /\ missing \in Seq(Prereq)
      /\ \A k \in DOMAIN ss : \E o \in Nat : \A q \in DOMAIN ss[k] :
           o + q \in DOMAIN missing /\ missing[o + q] = ss[k][q]
  BY <1>9 DEF HasSections
<1>5. rest \in Seq(Prereq) /\ ToSet(rest) = {missing[k] : k \in firsts}
  <2>1. firsts \in SUBSET DOMAIN missing
    OBVIOUS
  <2> HIDE DEF firsts
  <2> QED
    BY <1>4, <2>1, AmongFacts
<1> HIDE DEF rest
<1>6. _build_plan(stacks, extra) = extra \o rest
  BY DEF _build_plan, rest, firsts, missing, ss
<1>7. extra \o rest \in Seq(Prereq) /\ ToSet(extra \o rest) = ToSet(extra) \union ToSet(rest)
  BY <1>5, InTwoParts
<1>8. ASSUME NEW s \in ToSet(stacks), NEW p \in ToSet(missing_prereqs_for_stack(s))
      PROVE  p \in ToSet(extra) \union ToSet(rest)
  <2>1. PICK k \in DOMAIN stacks : stacks[k] = s
    BY DEF ToSet
  <2>2. PICK q \in DOMAIN ss[k] : ss[k][q] = p
    BY <1>3, <2>1 DEF ToSet
  <2>3. PICK m \in DOMAIN missing : missing[m] = p
    BY <1>2, <1>4, <2>2
  <2> DEFINE at == {i \in DOMAIN missing : missing[i] = p}
  <2>4. at \in SUBSET Nat /\ at # {} /\ DOMAIN missing \subseteq Nat
    BY <1>4, <2>3
  <2>5. PICK i \in at : \A j \in at : i <= j
    <3> HIDE DEF at
    <3> QED
      BY <2>4, LeastExists
  <2>6. ASSUME NEW j \in 1..(i - 1) PROVE missing[j] # missing[i]
    <3>1. j \in DOMAIN missing /\ j < i /\ i \in Nat
      BY <1>4, <2>5
    <3>2. j \notin at
      BY <2>4, <2>5, <3>1
    <3> QED
      BY <2>5, <3>1, <3>2
  <2>7. i \in DOMAIN missing /\ missing[i] = p
    OBVIOUS
  <2>8. CASE p \in ToSet(extra)
    BY <2>8
  <2>9. CASE p \notin ToSet(extra)
    <3>1. i \in firsts
      BY <2>6, <2>7, <2>9
    <3> QED
      BY <1>5, <2>7, <3>1
  <2> QED
    BY <2>8, <2>9
<1> QED
  BY <1>6, <1>7, <1>8

\* A stack's items: its builds, then its deployment.
LEMMA ItemsOfFacts ==
  ASSUME NEW s \in Stack, NEW deploy \in BOOLEAN
  PROVE  /\ itemsOf(s, deploy) \in Seq(WorkItem)
         /\ \A i \in DOMAIN itemsOf(s, deploy) : itemsOf(s, deploy)[i].kind = "deploy" =>
              /\ itemsOf(s, deploy)[i].ref = s
              /\ \A step \in ToSet(BuildSteps[s]) : Earlier(itemsOf(s, deploy), i, Item("build", s, step))
<1> DEFINE n == Len(BuildSteps[s])
           builds == [i \in DOMAIN BuildSteps[s] |-> Item("build", s, BuildSteps[s][i])]
           last == IF deploy /\ DeployKind[s] # "none" THEN <<Item("deploy", s, s)>> ELSE <<>>
           a == builds \o last
<1>1. /\ n \in Nat /\ DOMAIN BuildSteps[s] = 1..n
      /\ \A i \in 1..n : BuildSteps[s][i] \in ToSet(BuildSteps[s])
  <2>1. BuildSteps[s] \in Seq(ToSet(BuildSteps[s]))
    BY LlamaAssumption
  <2> QED
    BY <2>1
<1>2. /\ builds \in Seq(WorkItem) /\ DOMAIN builds = 1..n /\ Len(builds) = n
      /\ \A i \in 1..n : builds[i] = Item("build", s, BuildSteps[s][i])
  <2>1. \A i \in 1..n : Item("build", s, BuildSteps[s][i]) \in WorkItem
    BY <1>1, ItemsAreWork
  <2> HIDE DEF n
  <2>2. builds = [i \in 1..n |-> Item("build", s, BuildSteps[s][i])]
    BY <1>1
  <2> QED
    BY <1>1, <2>1, <2>2
<1>3. /\ last \in Seq(WorkItem)
      /\ \A i \in DOMAIN last : last[i] = Item("deploy", s, s)
  <2> DEFINE d == Item("deploy", s, s)
  <2>1. d \in WorkItem
    BY ItemsAreWork
  <2> HIDE DEF d
  <2>2. <<d>> \in Seq(WorkItem) /\ \A i \in DOMAIN <<d>> : <<d>>[i] = d
    BY <2>1
  <2>3. <<>> \in Seq(WorkItem) /\ DOMAIN <<>> = {}
    OBVIOUS
  <2>4. last = <<d>> \/ last = <<>>
    BY DEF d
  <2> HIDE DEF last
  <2> QED
    BY <2>2, <2>3, <2>4 DEF d
<1> HIDE DEF builds, last, n
<1>4. /\ a \in Seq(WorkItem)
      /\ \A i \in DOMAIN builds : i \in DOMAIN a /\ a[i] = builds[i]
      /\ \A i \in DOMAIN last : Len(builds) + i \in DOMAIN a /\ a[Len(builds) + i] = last[i]
      /\ \A i \in DOMAIN a : i \in DOMAIN builds \/ (i > Len(builds) /\ i - Len(builds) \in DOMAIN last)
  BY <1>2, <1>3, InTwoParts DEF InParts
<1>5. a = itemsOf(s, deploy)
  BY DEF itemsOf, a, builds, last
<1> HIDE DEF a
<1>6. DOMAIN a \subseteq Nat
  BY <1>4
<1>7. ASSUME NEW i \in DOMAIN a, a[i].kind = "deploy"
      PROVE  /\ a[i].ref = s
             /\ \A step \in ToSet(BuildSteps[s]) : Earlier(a, i, Item("build", s, step))
  <2>1. i \notin DOMAIN builds
    BY <1>2, <1>4, <1>7, ItemFacts
  <2>2. i > n /\ i - n \in DOMAIN last
    BY <1>2, <1>4, <2>1
  <2>3. n + (i - n) = i
    BY <1>1, <1>6
  <2>4. a[i] = last[i - n]
    <3>1. PICK j \in DOMAIN last : j = i - n
      BY <2>2
    <3>2. a[n + j] = last[j]
      BY <1>2, <1>4
    <3>3. n + j = i
      BY <2>3, <3>1
    <3> QED
      BY <3>1, <3>2, <3>3
  <2>5. a[i].ref = s
    BY <1>3, <2>2, <2>4, ItemFacts
  <2>6. ASSUME NEW step \in ToSet(BuildSteps[s]) PROVE Earlier(a, i, Item("build", s, step))
    <3>1. PICK j \in 1..n : BuildSteps[s][j] = step
      BY <1>1 DEF ToSet
    <3>2. j \in DOMAIN a /\ a[j] = Item("build", s, step)
      BY <1>2, <1>4, <3>1
    <3>3. j < i
      BY <1>1, <1>6, <2>2
    <3> QED
      BY <3>2, <3>3 DEF Earlier
  <2> QED
    BY <2>5, <2>6
<1> QED
  BY <1>4, <1>5, <1>7

\* The items of several stacks: in the whole list too, each deployment is behind
\* its stack's builds.
LEMMA SectionsFacts ==
  ASSUME NEW stacks \in Seq(Stack), NEW deploy \in BOOLEAN, NEW m,
         m = FlattenSeq([i \in DOMAIN stacks |-> itemsOf(stacks[i], deploy)])
  PROVE  /\ m \in Seq(WorkItem)
         /\ \A i \in DOMAIN m : m[i].kind = "deploy" =>
              /\ m[i].ref \in Stack
              /\ \A step \in ToSet(BuildSteps[m[i].ref]) : Earlier(m, i, Item("build", m[i].ref, step))
<1> DEFINE ss == [i \in DOMAIN stacks |-> itemsOf(stacks[i], deploy)]
<1>1. \A i \in DOMAIN stacks : stacks[i] \in Stack
  OBVIOUS
<1>2. ss \in Seq(Seq(WorkItem)) /\ DOMAIN ss = DOMAIN stacks
  <2> DEFINE S == Seq(WorkItem)
             n == Len(stacks)
  <2>1. n \in Nat /\ DOMAIN stacks = 1..n
    OBVIOUS
  <2>2. \A i \in 1..n : ss[i] \in S
    BY <1>1, <2>1, ItemsOfFacts
  <2>3. DOMAIN ss = 1..n /\ ss = [i \in 1..n |-> ss[i]]
    BY <2>1
  <2> HIDE DEF S, n, ss
  <2>4. ss \in Seq(S)
    BY <2>1, <2>2, <2>3
  <2> QED
    BY <2>1, <2>3, <2>4 DEF S
<1>3. \A k \in DOMAIN stacks : ss[k] = itemsOf(stacks[k], deploy)
  OBVIOUS
<1>4. m = FlattenSeq(ss)
  OBVIOUS
<1> HIDE DEF ss
<1>5. m \in Seq(WorkItem) /\ MadeOf(ss, m)
  BY <1>2, <1>4, FlattenFacts
<1>6. ASSUME NEW i \in DOMAIN m, m[i].kind = "deploy"
      PROVE  /\ m[i].ref \in Stack
             /\ \A step \in ToSet(BuildSteps[m[i].ref]) : Earlier(m, i, Item("build", m[i].ref, step))
  <2>1. PICK k \in DOMAIN ss : \E o \in Nat :
           /\ i - o \in DOMAIN ss[k]
           /\ \A q \in DOMAIN ss[k] : o + q \in DOMAIN m /\ m[o + q] = ss[k][q]
    BY <1>5 DEF MadeOf
  <2>2. PICK o \in Nat :
           /\ i - o \in DOMAIN ss[k]
           /\ \A q \in DOMAIN ss[k] : o + q \in DOMAIN m /\ m[o + q] = ss[k][q]
    BY <2>1
  <2> DEFINE s == stacks[k]
             a == ss[k]
  <2>3. s \in Stack /\ a = itemsOf(s, deploy)
    BY <1>1, <1>2, <1>3
  <2>4. /\ a \in Seq(WorkItem)
        /\ \A j \in DOMAIN a : a[j].kind = "deploy" =>
             /\ a[j].ref = s
             /\ \A step \in ToSet(BuildSteps[s]) : Earlier(a, j, Item("build", s, step))
    BY <2>3, ItemsOfFacts
  <2>5. i \in Nat
    BY <1>5
  <2>6. \A q \in DOMAIN a : o + q \in DOMAIN m /\ m[o + q] = a[q]
    BY <2>2
  <2>7. PICK l \in DOMAIN a : l = i - o
    BY <2>2
  <2> HIDE DEF s, a
  <2>8. o + l = i /\ l \in Nat
    <3>1. l \in Nat
      BY <2>4
    <3> QED
      BY <2>5, <2>7, <3>1
  <2>9. m[i] = a[l]
    BY <2>6, <2>8
  <2>10. a[l].ref = s /\ \A step \in ToSet(BuildSteps[s]) : Earlier(a, l, Item("build", s, step))
    BY <1>6, <2>4, <2>9
  <2>11. ASSUME NEW step \in ToSet(BuildSteps[s]) PROVE Earlier(m, i, Item("build", s, step))
    <3>1. PICK j \in DOMAIN a : j < l /\ a[j] = Item("build", s, step)
      BY <2>10 DEF Earlier
    <3>2. o + j \in DOMAIN m /\ m[o + j] = Item("build", s, step)
      BY <2>6, <3>1
    <3>3. o + j < i
      <4>1. j \in Nat
        BY <2>4
      <4> QED
        BY <2>8, <3>1, <4>1
    <3> QED
      BY <3>2, <3>3 DEF Earlier
  <2> QED
    BY <2>3, <2>9, <2>10, <2>11
<1> QED
  BY <1>5, <1>6

LEMMA PrereqItems ==
  ASSUME NEW prereqs \in Seq(Prereq), NEW p, p = [i \in DOMAIN prereqs |-> Item("prereq", UnknownStack, prereqs[i])]
  PROVE  /\ p \in Seq(WorkItem)
         /\ \A i \in DOMAIN p : p[i].kind = "prereq"
         /\ \A e \in ToSet(prereqs) : \E j \in DOMAIN p : p[j] = Item("prereq", UnknownStack, e)
<1> DEFINE n == Len(prereqs)
<1>1. n \in Nat /\ DOMAIN prereqs = 1..n /\ \A i \in 1..n : prereqs[i] \in Prereq
  OBVIOUS
<1>2. \A i \in 1..n : Item("prereq", UnknownStack, prereqs[i]) \in WorkItem
  BY <1>1, ItemsAreWork
<1> HIDE DEF n
<1>3. p = [i \in 1..n |-> Item("prereq", UnknownStack, prereqs[i])]
  BY <1>1
<1>4. p \in Seq(WorkItem) /\ DOMAIN p = 1..n
  BY <1>1, <1>2, <1>3
<1>5. \A i \in 1..n : p[i] = Item("prereq", UnknownStack, prereqs[i])
  BY <1>3
<1>6. ASSUME NEW e \in ToSet(prereqs) PROVE \E j \in 1..n : p[j] = Item("prereq", UnknownStack, e)
  BY <1>1, <1>5 DEF ToSet
<1> QED
  BY <1>4, <1>5, <1>6, ItemFacts

LEMMA DiagnosticItems ==
  ASSUME NEW diagnose \in BOOLEAN, NEW d,
         d = IF diagnose THEN [i \in DOMAIN Diagnostics |-> Item("diagnostic", UnknownStack, Diagnostics[i])]
                         ELSE <<>>
  PROVE  d \in Seq(WorkItem) /\ \A i \in DOMAIN d : d[i].kind = "diagnostic"
<1> DEFINE n == Len(Diagnostics)
           S == {"optional", "required"}
<1>1. n \in Nat /\ DOMAIN Diagnostics = 1..n /\ \A i \in 1..n : Diagnostics[i] \in S
  <2>1. Diagnostics \in Seq(S)
    BY LlamaAssumption
  <2> HIDE DEF S
  <2> QED
    BY <2>1
<1>2. \A i \in 1..n : Item("diagnostic", UnknownStack, Diagnostics[i]) \in WorkItem
  BY <1>1, ItemsAreWork
<1> HIDE DEF n
<1>3. CASE diagnose
  <2>1. d = [i \in 1..n |-> Item("diagnostic", UnknownStack, Diagnostics[i])]
    BY <1>1, <1>3
  <2>2. d \in Seq(WorkItem) /\ DOMAIN d = 1..n
    BY <1>1, <1>2, <2>1
  <2>3. \A i \in 1..n : d[i] = Item("diagnostic", UnknownStack, Diagnostics[i])
    BY <2>1
  <2> QED
    BY <2>2, <2>3, ItemFacts
<1>4. CASE ~diagnose
  <2>1. d = <<>>
    BY <1>4
  <2>2. <<>> \in Seq(WorkItem) /\ DOMAIN <<>> = {}
    OBVIOUS
  <2> QED
    BY <2>1, <2>2
<1> QED
  BY <1>3, <1>4

\* Prerequisites, sections and diagnostics make a plan whose deployments are behind
\* what they need.
LEMMA PlanBehind ==
  ASSUME NEW p \in Seq(WorkItem), NEW m \in Seq(WorkItem), NEW d \in Seq(WorkItem), NEW missed,
         \A i \in DOMAIN p : p[i].kind = "prereq",
         \A i \in DOMAIN d : d[i].kind = "diagnostic",
         \A e \in missed : \E j \in DOMAIN p : p[j] = Item("prereq", UnknownStack, e),
         \A i \in DOMAIN m : m[i].kind = "deploy" =>
           /\ m[i].ref \in Stack
           /\ \A step \in ToSet(BuildSteps[m[i].ref]) : Earlier(m, i, Item("build", m[i].ref, step))
  PROVE  (p \o m) \o d \in Seq(WorkItem) /\ DeploysBehind((p \o m) \o d, missed)
<1> DEFINE front == p \o m
           plan == front \o d
           n == Len(p)
           k == Len(front)
<1>1. /\ front \in Seq(WorkItem)
      /\ \A i \in DOMAIN p : i \in DOMAIN front /\ front[i] = p[i]
      /\ \A i \in DOMAIN m : n + i \in DOMAIN front /\ front[n + i] = m[i]
      /\ \A i \in DOMAIN front : i \in DOMAIN p \/ (i > n /\ i - n \in DOMAIN m)
  BY InTwoParts DEF InParts
<1> HIDE DEF front
<1>6. plan \in Seq(WorkItem) /\ InParts(front, d, plan)
  BY <1>1, InTwoParts
<1> HIDE DEF plan
<1>2. /\ plan \in Seq(WorkItem)
      /\ \A i \in DOMAIN front : i \in DOMAIN plan /\ plan[i] = front[i]
      /\ \A i \in DOMAIN d : k + i \in DOMAIN plan /\ plan[k + i] = d[i]
      /\ \A i \in DOMAIN plan : i \in DOMAIN front \/ (i > k /\ i - k \in DOMAIN d)
  BY <1>6 DEF InParts
<1>3. n \in Nat /\ k \in Nat /\ DOMAIN p = 1..n /\ DOMAIN plan \subseteq Nat /\ DOMAIN m \subseteq Nat
  BY <1>1, <1>2
<1> HIDE DEF n, k
<1>4. ASSUME NEW i \in DOMAIN plan, plan[i].kind = "deploy"
      PROVE  /\ plan[i].ref \in Stack
             /\ \A step \in ToSet(BuildSteps[plan[i].ref]) : Earlier(plan, i, Item("build", plan[i].ref, step))
             /\ \A e \in missed : Earlier(plan, i, Item("prereq", UnknownStack, e))
  <2>1. i \in DOMAIN front
    <3> SUFFICES ASSUME i \notin DOMAIN front PROVE FALSE
      OBVIOUS
    <3>1. PICK j \in DOMAIN d : j = i - k
      BY <1>2
    <3>2. plan[k + j] = d[j]
      BY <1>2
    <3>3. k + j = i
      BY <1>3, <3>1
    <3>4. plan[i] = d[j]
      BY <3>2, <3>3
    <3> QED
      BY <1>4, <3>4
  <2>2. plan[i] = front[i]
    BY <1>2, <2>1
  <2>3. i \notin DOMAIN p
    BY <1>1, <1>4, <2>2
  <2>4. PICK l \in DOMAIN m : l = i - n /\ i > n
    BY <1>1, <2>1, <2>3
  <2>5. n + l = i
    BY <1>3, <2>4
  <2>6. plan[i] = m[l]
    BY <1>1, <2>2, <2>5
  <2>7. m[l].ref \in Stack /\ \A step \in ToSet(BuildSteps[m[l].ref]) : Earlier(m, l, Item("build", m[l].ref, step))
    BY <1>4, <2>6
  <2>8. ASSUME NEW step \in ToSet(BuildSteps[m[l].ref]) PROVE Earlier(plan, i, Item("build", m[l].ref, step))
    <3>1. PICK j \in DOMAIN m : j < l /\ m[j] = Item("build", m[l].ref, step)
      BY <2>7 DEF Earlier
    <3>2. n + j \in DOMAIN plan /\ plan[n + j] = m[j]
      BY <1>1, <1>2
    <3>3. n + j < i
      BY <1>3, <2>5, <3>1
    <3> QED
      BY <3>1, <3>2, <3>3 DEF Earlier
  <2>9. ASSUME NEW e \in missed PROVE Earlier(plan, i, Item("prereq", UnknownStack, e))
    <3>1. PICK j \in DOMAIN p : p[j] = Item("prereq", UnknownStack, e)
      OBVIOUS
    <3>2. j \in DOMAIN plan /\ plan[j] = Item("prereq", UnknownStack, e)
      BY <1>1, <1>2, <3>1
    <3>3. j < i
      BY <1>3, <2>4
    <3> QED
      BY <3>2, <3>3 DEF Earlier
  <2> QED
    BY <2>6, <2>7, <2>8, <2>9
<1>5. DeploysBehind(plan, missed)
  BY <1>4 DEF DeploysBehind
<1> QED
  BY <1>2, <1>5 DEF plan, front

\* A plan just made is in order.
LEMMA PlannedInv ==
  ASSUME NEW stacks \in Seq(Stack), NEW extra \in Seq(Prereq), NEW deploy \in BOOLEAN, NEW diagnose \in BOOLEAN,
         llama' = Planned(stacks, extra, deploy, diagnose)
  PROVE  LlamaInv'
<1> DEFINE prereqs == _build_plan(stacks, extra)
           missed == UNION {ToSet(missing_prereqs_for_stack(s)) : s \in ToSet(stacks)}
           p == [i \in DOMAIN prereqs |-> Item("prereq", UnknownStack, prereqs[i])]
           m == FlattenSeq([i \in DOMAIN stacks |-> itemsOf(stacks[i], deploy)])
           d == IF diagnose THEN [i \in DOMAIN Diagnostics |-> Item("diagnostic", UnknownStack, Diagnostics[i])]
                            ELSE <<>>
           work == (p \o m) \o d
           none == <<>>
<1>1. llama' = [pc |-> "running", rc |-> 0, results |-> none, work |-> work, missed |-> missed]
  BY DEF Planned, _collect_work_items
<1>2. prereqs \in Seq(Prereq) /\ missed \subseteq ToSet(prereqs)
  BY BuildPlanFacts
<1> HIDE DEF prereqs, missed
<1>3. ToSet(prereqs) \subseteq Prereq
  BY <1>2 DEF ToSet
<1>4. /\ p \in Seq(WorkItem) /\ (\A i \in DOMAIN p : p[i].kind = "prereq")
      /\ \A e \in ToSet(prereqs) : \E j \in DOMAIN p : p[j] = Item("prereq", UnknownStack, e)
  <2>1. p = [i \in DOMAIN prereqs |-> Item("prereq", UnknownStack, prereqs[i])]
    OBVIOUS
  <2> HIDE DEF p
  <2> QED
    BY <1>2, <2>1, PrereqItems
<1>5. /\ m \in Seq(WorkItem)
      /\ \A i \in DOMAIN m : m[i].kind = "deploy" =>
           /\ m[i].ref \in Stack
           /\ \A step \in ToSet(BuildSteps[m[i].ref]) : Earlier(m, i, Item("build", m[i].ref, step))
  <2>1. m = FlattenSeq([i \in DOMAIN stacks |-> itemsOf(stacks[i], deploy)])
    OBVIOUS
  <2> HIDE DEF m
  <2> QED
    BY <2>1, SectionsFacts
<1>6. d \in Seq(WorkItem) /\ \A i \in DOMAIN d : d[i].kind = "diagnostic"
  <2>1. d = IF diagnose THEN [i \in DOMAIN Diagnostics |-> Item("diagnostic", UnknownStack, Diagnostics[i])]
                        ELSE <<>>
    OBVIOUS
  <2> HIDE DEF d
  <2> QED
    BY <2>1, DiagnosticItems
<1> HIDE DEF p, m, d
<1>7. \A e \in missed : \E j \in DOMAIN p : p[j] = Item("prereq", UnknownStack, e)
  BY <1>2, <1>4
<1>8. work \in Seq(WorkItem) /\ DeploysBehind(work, missed)
  BY <1>4, <1>5, <1>6, <1>7, PlanBehind
<1> HIDE DEF work
<1> DEFINE new == llama'
<1>9. new.results = none /\ new.work = work /\ new.missed = missed /\ new \in LlamaRun
  <2>1. none \in Seq([item : WorkItem, success : BOOLEAN])
    OBVIOUS
  <2> QED
    BY <1>1, <1>2, <1>3, <1>8, <2>1 DEF LlamaRun
<1>10. ItemsDone(none) \o work = work
  <2>1. ItemsDone(none) = <<>>
    BY DEF ItemsDone
  <2> QED
    BY <1>8, <2>1
<1> HIDE DEF new, none
<1> QED
  BY <1>8, <1>9, <1>10 DEF LlamaInv, new

LEMMA LlamaExitedFacts ==
  ASSUME NEW code \in Nat, NEW new, new = LlamaExited(code)
  PROVE  new \in LlamaRun /\ DeploysBehind(ItemsDone(new.results) \o new.work, new.missed)
<1> DEFINE none == <<>>
<1>1. new = [pc |-> "idle", work |-> none, results |-> none, rc |-> code, missed |-> {}]
  BY DEF LlamaExited
<1>2. none \in Seq(WorkItem) /\ none \in Seq([item : WorkItem, success : BOOLEAN])
  OBVIOUS
<1>3. ItemsDone(none) \o none = none /\ DOMAIN none = {}
  BY DEF ItemsDone
<1> HIDE DEF none
<1>4. new.work = none /\ new.results = none /\ new \in LlamaRun
  BY <1>1, <1>2 DEF LlamaRun
<1> QED
  BY <1>3, <1>4 DEF DeploysBehind

LEMMA LlamaExitedInv ==
  ASSUME NEW code \in Nat, llama' = LlamaExited(code)
  PROVE  LlamaInv'
BY LlamaExitedFacts DEF LlamaInv

LEMMA LlamaInitInv == LlamaInit => LlamaInv
BY LlamaExitedFacts DEF LlamaInit, LlamaInv

LEMMA RunInteractiveLlamaInv ==
  ASSUME NEW picked \in SUBSET Stack, NEW monitoring \in BOOLEAN, NEW deploy \in BOOLEAN,
         NEW diagnose \in BOOLEAN, _run_interactive(picked, monitoring, deploy, diagnose)
  PROVE  LlamaInv'
<1> DEFINE stacks == Those(Stacks, picked)
           extra == IF monitoring THEN <<Monitoring>> ELSE <<>>
<1>1. stacks \in Seq(Stack)
  <2>1. stacks \in Seq(picked \intersect Stack)
    BY ThoseFacts, LlamaAssumption
  <2> HIDE DEF stacks
  <2> QED
    BY <2>1
<1>2. extra \in Seq(Prereq)
  <2>1. Monitoring \in Prereq
    BY LlamaAssumption
  <2> QED
    BY <2>1
<1>3. llama' = LlamaExited(0) \/ llama' = Planned(stacks, extra, deploy, diagnose)
  BY DEF _run_interactive
<1> HIDE DEF stacks, extra
<1> QED
  BY <1>1, <1>2, <1>3, LlamaExitedInv, PlannedInv

LEMMA RunFromLlamaDefaultsInv ==
  ASSUME NEW ids \in Seq(Stack \union {UnknownStack}), NEW T, NEW extra \in Seq(T), NEW deploy \in BOOLEAN,
         NEW diagnose \in BOOLEAN, _run_from_llama_defaults(ids, extra, deploy, diagnose)
  PROVE  LlamaInv'
<1> DEFINE stacks == Those(ids, Stack)
           known == Those(extra, Prereq)
<1>1. stacks \in Seq(Stack)
  <2> DEFINE U == Stack \union {UnknownStack}
  <2>1. stacks \in Seq(Stack \intersect U)
    BY ThoseFacts
  <2>2. Stack \intersect U = Stack
    OBVIOUS
  <2> HIDE DEF stacks, U
  <2> QED
    BY <2>1, <2>2
<1>2. known \in Seq(Prereq)
  <2>1. known \in Seq(Prereq \intersect T)
    BY ThoseFacts
  <2>2. Prereq \intersect T \subseteq Prereq
    OBVIOUS
  <2> HIDE DEF known
  <2> QED
    BY <2>1, <2>2
<1>3. llama' = LlamaExited(0) \/ llama' = Planned(stacks, known, deploy, diagnose)
  BY DEF _run_from_llama_defaults
<1> HIDE DEF stacks, known
<1> QED
  BY <1>1, <1>2, <1>3, LlamaExitedInv, PlannedInv

LEMMA ExecuteNextInv ==
  ASSUME LlamaInv, ExecuteNext
  PROVE  LlamaInv'
<1> DEFINE item == Head(llama.work)
           left == Tail(llama.work)
<1>1. /\ llama \in LlamaRun /\ llama.work \in Seq(WorkItem) /\ llama.results \in Seq(ExecuteResult)
      /\ llama.work # <<>>
  BY DEF LlamaInv, LlamaRun, ExecuteNext, ExecuteResult
<1>2. item \in WorkItem /\ left \in Seq(WorkItem)
  BY <1>1, MoveOn
<1>3. \A success \in _dispatch_work_item(item) : success \in BOOLEAN
  <2> HIDE DEF item
  <2>1. item.kind \in {"prereq", "build", "deploy", "diagnostic"}
    BY <1>2 DEF WorkItem
  <2>2. \/ _dispatch_work_item(item) = run_prereq(item.ref)
        \/ _dispatch_work_item(item) = run_build_step(item.ref)
        \/ _dispatch_work_item(item) = deploy_stack(item.ref)
        \/ _dispatch_work_item(item) = run_diagnostic(item.ref)
    BY <2>1 DEF _dispatch_work_item
  <2> QED
    BY <2>2 DEF run_prereq, run_build_step, deploy_stack, run_diagnostic
<1>4. PICK success \in _dispatch_work_item(item) :
        llama' = [llama EXCEPT !.work = left, !.results = Append(@, [item |-> item, success |-> success])]
  BY DEF ExecuteNext
<1> DEFINE r == [item |-> item, success |-> success]
           results == Append(llama.results, r)
<1>5. r \in ExecuteResult /\ r.item = item
  BY <1>2, <1>3 DEF ExecuteResult
<1>6. llama' = [llama EXCEPT !.work = left, !.results = results]
  BY <1>4
<1> HIDE DEF r, left, item
<1>7. results \in Seq(ExecuteResult) /\ ItemsDone(results) = Append(ItemsDone(llama.results), item)
  BY <1>1, <1>5, ItemsDoneAppend, AppendFacts
<1> HIDE DEF results
<1> DEFINE new == llama'
<1>8. new \in LlamaRun /\ new.work = left /\ new.results = results /\ new.missed = llama.missed
  BY <1>1, <1>2, <1>6, <1>7 DEF LlamaRun, ExecuteResult
<1>9. ItemsDone(results) \o left = ItemsDone(llama.results) \o llama.work
  <2>1. ItemsDone(llama.results) \in Seq(WorkItem)
    BY <1>1, ItemsDoneFacts
  <2> QED
    BY <1>1, <1>7, <2>1, MoveOn DEF item, left
<1> HIDE DEF new
<1> QED
  BY <1>8, <1>9 DEF LlamaInv, new

LEMMA LlamaStepInv ==
  ASSUME LlamaInv, [LlamaNext]_llamaVars
  PROVE  LlamaInv'
<1>1. ASSUME NEW deploy \in BOOLEAN, NEW diagnose \in BOOLEAN, NEW monitoring \in BOOLEAN,
             NEW picked \in SUBSET Stack, _run_interactive(picked, monitoring, deploy, diagnose)
      PROVE  LlamaInv'
  BY <1>1, RunInteractiveLlamaInv
<1>2. ASSUME NEW deploy \in BOOLEAN, NEW diagnose \in BOOLEAN, NEW monitoring \in BOOLEAN,
             NEW n \in 0..MaxIds, NEW ids \in [1..n -> Stack \union {UnknownStack}],
             _run_from_llama_defaults(ids, IF monitoring THEN <<Monitoring, Monitoring>> ELSE <<UnknownStack>>,
                                      deploy, diagnose)
      PROVE  LlamaInv'
  <2> DEFINE extra == IF monitoring THEN <<Monitoring, Monitoring>> ELSE <<UnknownStack>>
             T == {Monitoring, UnknownStack}
  <2>1. extra \in Seq(T)
    <3>1. Monitoring \in T /\ UnknownStack \in T
      OBVIOUS
    <3> HIDE DEF T
    <3>2. <<Monitoring, Monitoring>> \in Seq(T) /\ <<UnknownStack>> \in Seq(T)
      BY <3>1
    <3> QED
      BY <3>2
  <2>2. ids \in Seq(Stack \union {UnknownStack})
    <3>1. n \in Nat
      BY LlamaAssumption
    <3> QED
      BY <3>1
  <2>3. _run_from_llama_defaults(ids, extra, deploy, diagnose)
    BY <1>2
  <2> HIDE DEF extra, T
  <2> QED
    BY <2>1, <2>2, <2>3, RunFromLlamaDefaultsInv
<1>3. CASE ExecuteNext
  BY <1>3, ExecuteNextInv
<1>4. CASE PlanDone
  BY <1>4, LlamaExitedInv DEF PlanDone
<1>5. CASE LlamaDies
  BY <1>5, LlamaExitedInv DEF LlamaDies
<1>6. CASE UNCHANGED llamaVars
  BY <1>6 DEF llamaVars, LlamaInv
<1> QED
  BY <1>1, <1>2, <1>3, <1>4, <1>5, <1>6 DEF LlamaNext

LEMMA LlamaInvLast == LlamaInv => DeployedLast
<1> SUFFICES ASSUME LlamaInv, NEW i \in DOMAIN llama.results, llama.results[i].item.kind = "deploy"
             PROVE  /\ \A step \in ToSet(BuildSteps[llama.results[i].item.ref]) : \E j \in 1..(i - 1) :
                         llama.results[j].item = Item("build", llama.results[i].item.ref, step)
                    /\ \A p \in llama.missed : \E j \in 1..(i - 1) :
                         llama.results[j].item = Item("prereq", UnknownStack, p)
  BY DEF DeployedLast
<1> DEFINE done == ItemsDone(llama.results)
           plan == done \o llama.work
           n == Len(llama.results)
           item == llama.results[i].item
<1>1. llama.work \in Seq(WorkItem) /\ llama.results \in Seq(ExecuteResult)
  BY DEF LlamaInv, LlamaRun, ExecuteResult
<1>2. n \in Nat /\ DOMAIN llama.results = 1..n
  BY <1>1
<1>3. done \in Seq(WorkItem) /\ DOMAIN done = 1..n /\ \A j \in 1..n : done[j] = llama.results[j].item
  BY <1>1, <1>2, ItemsDoneFacts
<1>4. DeploysBehind(plan, llama.missed)
  BY DEF LlamaInv
<1>5. plan \in Seq(WorkItem) /\ \A j \in 1..n : j \in DOMAIN plan /\ plan[j] = done[j]
  <2> HIDE DEF done
  <2> QED
    BY <1>1, <1>3, InTwoParts DEF InParts
<1>6. DOMAIN plan \subseteq Nat \ {0}
  <2> HIDE DEF plan
  <2> QED
    BY <1>5
<1>7. i \in 1..n
  BY <1>2
<1> HIDE DEF done, plan, n
<1>8. plan[i] = item
  BY <1>3, <1>5, <1>7
<1>9. i \in DOMAIN plan
  BY <1>5, <1>7
<1> HIDE DEF item
<1>10. /\ \A step \in ToSet(BuildSteps[item.ref]) : Earlier(plan, i, Item("build", item.ref, step))
       /\ \A p \in llama.missed : Earlier(plan, i, Item("prereq", UnknownStack, p))
  <2>1. plan[i].kind = "deploy"
    BY <1>8 DEF item
  <2> QED
    BY <1>4, <1>8, <1>9, <2>1 DEF DeploysBehind
<1>11. ASSUME NEW e, Earlier(plan, i, e) PROVE \E j \in 1..(i - 1) : llama.results[j].item = e
  <2>1. PICK j \in DOMAIN plan : j < i /\ plan[j] = e
    BY <1>11 DEF Earlier
  <2>2. j \in 1..n /\ j \in 1..(i - 1)
    BY <1>2, <1>6, <1>7, <2>1
  <2>3. llama.results[j].item = e
    BY <1>3, <1>5, <2>1, <2>2
  <2> QED
    BY <2>2, <2>3
<1> QED
  BY <1>10, <1>11 DEF item

-----------------------------------------------------------------------------

LEMMA EntriesFacts ==
  ASSUME NEW manifests \in Checkouts
  PROVE  entries(manifests) \in Seq(Entry)
<1> DEFINE ss == [i \in DOMAIN manifests |-> IF manifests[i] = None THEN <<>> ELSE manifests[i]]
           S == Seq(Entry)
           n == Len(manifests)
<1>1. n \in Nat /\ DOMAIN manifests = 1..n /\ \A i \in 1..n : manifests[i] \in {None} \union S
  <2> DEFINE U == {None} \union S
  <2>1. manifests \in Seq(U)
    BY ExtensionsAssumption
  <2> HIDE DEF U
  <2> QED
    BY <2>1 DEF U
<1>2. <<>> \in S
  OBVIOUS
<1> HIDE DEF n, S
<1>3. \A i \in 1..n : ss[i] \in S
  BY <1>1, <1>2
<1>4. DOMAIN ss = 1..n /\ ss = [i \in 1..n |-> ss[i]]
  BY <1>1
<1>5. entries(manifests) = FlattenSeq(ss)
  BY DEF entries
<1> HIDE DEF ss
<1>6. ss \in Seq(S)
  BY <1>1, <1>3, <1>4
<1> QED
  BY <1>5, <1>6, FlattenFacts DEF S

\* Every extension is found to have a status, and to be there unless it is unavailable.
LEMMA ResolveEntryFacts ==
  ASSUME NEW e \in Entry, NEW failing
  PROVE  LET x == _resolve_entry(e, failing)
         IN  x \in ResolvedEntry /\ x.entry = e /\ (x.status # "unavailable" => exists(e.binary))
<1> DEFINE deps == check_additional_deps(e.deps, failing)
           status == IF ~exists(e.binary) THEN "unavailable"
                     ELSE IF e.hidden /\ deps = "ready" THEN "hidden" ELSE deps
           x == Resolved(e, status)
<1>1. deps \in Status
  BY DEF check_additional_deps, Status
<1> HIDE DEF deps
<1>2. status \in Status /\ (status # "unavailable" => exists(e.binary))
  BY <1>1 DEF Status
<1>3. _resolve_entry(e, failing) = x
  BY DEF _resolve_entry, deps
<1> HIDE DEF status
<1>4. x \in ResolvedEntry /\ x.entry = e /\ x.status = status
  BY <1>2 DEF Resolved, ResolvedEntry
<1> HIDE DEF x
<1> QED
  BY <1>2, <1>3, <1>4

LEMMA ResolveFacts ==
  ASSUME NEW manifests \in Checkouts, NEW failing
  PROVE  /\ resolve_extensions(manifests, failing) \in Seq(ResolvedEntry)
         /\ \A i \in DOMAIN resolve_extensions(manifests, failing) :
              \E e \in Entry : resolve_extensions(manifests, failing)[i] = _resolve_entry(e, failing)
<1> DEFINE all == entries(manifests)
           valid == {i \in DOMAIN all : validate_entry(all[i])}
           P == {i \in valid : \A j \in valid : j < i => all[j].name # all[i].name}
           first == Among(all, P)
           n == Len(first)
           resolved == [i \in DOMAIN first |-> _resolve_entry(first[i], failing)]
<1>1. all \in Seq(Entry)
  BY EntriesFacts
<1>2. P \in SUBSET DOMAIN all
  OBVIOUS
<1>3. resolve_extensions(manifests, failing) = resolved
  BY DEF resolve_extensions
<1> HIDE DEF all, P, valid
<1>4. first \in Seq(Entry)
  BY <1>1, <1>2, AmongFacts
<1> HIDE DEF first
<1>5. n \in Nat /\ DOMAIN first = 1..n /\ \A i \in 1..n : first[i] \in Entry
  BY <1>4
<1> HIDE DEF n
<1>6. DOMAIN resolved = 1..n /\ \A i \in 1..n : resolved[i] = _resolve_entry(first[i], failing)
  BY <1>5
<1>7. \A i \in 1..n : _resolve_entry(first[i], failing) \in ResolvedEntry
  BY <1>5, ResolveEntryFacts
<1>8. resolved \in Seq(ResolvedEntry)
  BY <1>5, <1>7
<1> HIDE DEF resolved
<1> QED
  BY <1>3, <1>5, <1>6, <1>8

\* A check that fits finds the program working, with a version its entry allows.
LEMMA FitsIsFitting ==
  ASSUME NEW e, bounded(e), NEW r \in run_check(e), r.fits
  PROVE  Fitting(e)
<1>1. \A healthy, version : Checked(e, healthy, version).fits = _check_version_constraint(e, version)
  BY DEF Checked
<1>2. ~_check_version_constraint(e, None)
  BY DEF _check_version_constraint
<1>3. e.check # None
  <2> SUFFICES ASSUME e.check = None PROVE FALSE
    OBVIOUS
  <2>1. r = Checked(e, _check_version_constraint(e, None), None)
    BY DEF run_check
  <2> QED
    BY <1>1, <1>2, <2>1
<1> DEFINE printed(a) == IF e.check.pattern /\ ~a.exception THEN a.version ELSE None
           health(a) == ~a.exception /\ (e.check.expects => a.expected)
<1>4. PICK a \in answers(e.binary) : r = Checked(e, health(a), printed(a))
  BY <1>3 DEF run_check
<1>5. _check_version_constraint(e, printed(a)) /\ printed(a) # None
  <2> HIDE DEF printed, health
  <2>1. r.fits = _check_version_constraint(e, printed(a))
    BY <1>1, <1>4
  <2> QED
    BY <1>2, <2>1
<1>6. e.check.pattern /\ printed(a) = a.version
  BY <1>5
<1>7. condition[e.binary] = "good" /\ a.version = Version[e.binary]
  <2>1. a.version # None
    BY <1>5, <1>6
  <2> HIDE DEF printed, health
  <2> DEFINE c == condition[e.binary]
             failed == Answer(FALSE, FALSE, None)
             raised == Answer(TRUE, FALSE, None)
             good == Answer(FALSE, TRUE, Version[e.binary])
  <2>2. failed.version = None /\ raised.version = None /\ good.version = Version[e.binary]
    BY DEF Answer
  <2>3. answers(e.binary) = CASE c = "good" -> {good}
                              [] c = "silent" -> {failed}
                              [] c = "broken" -> {failed, raised}
                              [] OTHER -> {raised}
    BY DEF answers
  <2> HIDE DEF c, failed, raised, good
  <2>4. CASE c = "good"
    <3>1. a = good
      BY <2>3, <2>4
    <3> QED
      BY <2>2, <2>4, <3>1 DEF c
  <2>5. CASE c = "silent"
    BY <2>1, <2>2, <2>3, <2>5
  <2>6. CASE c = "broken"
    BY <2>1, <2>2, <2>3, <2>6
  <2>7. CASE c # "good" /\ c # "silent" /\ c # "broken"
    BY <2>1, <2>2, <2>3, <2>7
  <2> QED
    BY <2>4, <2>5, <2>6, <2>7
<1> QED
  BY <1>3, <1>5, <1>6, <1>7 DEF Fitting

LEMMA FittingFits ==
  ASSUME NEW e, Fitting(e)
  PROVE  \E r \in run_check(e) : r.fits
<1> DEFINE a == Answer(FALSE, TRUE, Version[e.binary])
           r == Checked(e, ~a.exception /\ (e.check.expects => a.expected),
                        IF e.check.pattern /\ ~a.exception THEN a.version ELSE None)
<1>1. a \in answers(e.binary)
  BY DEF answers, Fitting
<1>2. r \in run_check(e)
  BY <1>1 DEF run_check, Fitting
<1>3. a.version = Version[e.binary] /\ ~a.exception
  BY DEF Answer
<1> HIDE DEF a
<1>4. r.fits
  BY <1>3 DEF Checked, Fitting
<1> QED
  BY <1>2, <1>4

Linkable(x) ==
  /\ exists(x.entry.binary)
  /\ bounded(x.entry) /\ x.status # "hidden" /\ x.entry.binary \notin rewritten => Fitting(x.entry)

\* What enforcement leaves registrable is there and fits.
LEMMA EnforceFacts ==
  ASSUME NEW e \in Entry, NEW failing, NEW y \in enforce_version(_resolve_entry(e, failing))
  PROVE  /\ y \in ResolvedEntry
         /\ y.status \notin {"unavailable", "version_mismatch"} => Linkable(y)
<1> DEFINE x == _resolve_entry(e, failing)
           worse == Resolved(e, "version_mismatch")
<1>1. x \in ResolvedEntry /\ x.entry = e /\ (x.status # "unavailable" => exists(e.binary))
  BY ResolveEntryFacts
<1>2. worse \in ResolvedEntry /\ worse.status = "version_mismatch"
  BY DEF Resolved, ResolvedEntry, Status
<1>3. y \in enforce_version(x)
  OBVIOUS
<1> HIDE DEF x
<1>4. CASE bounded(e) /\ x.status \notin {"unavailable", "hidden"}
  <2>1. PICK r \in run_check(e) : y = IF r.fits THEN x ELSE worse
    BY <1>1, <1>3, <1>4 DEF enforce_version
  <2> HIDE DEF worse
  <2>2. CASE r.fits
    <3>1. y = x /\ Fitting(e)
      BY <1>4, <2>1, <2>2, FitsIsFitting
    <3> QED
      BY <1>1, <1>4, <3>1 DEF Linkable
  <2>3. CASE ~r.fits
    BY <1>2, <2>1, <2>3
  <2> QED
    BY <2>2, <2>3
<1>5. CASE ~(bounded(e) /\ x.status \notin {"unavailable", "hidden"})
  <2>1. y = x
    BY <1>1, <1>3, <1>5 DEF enforce_version
  <2> QED
    BY <1>1, <1>5, <2>1 DEF Linkable
<1> QED
  BY <1>4, <1>5

\* The installer leaves every component in some condition.
LEMMA BootCondition ==
  ASSUME BootInv, condition \in [Component -> Condition], BootstrapNext
  PROVE  condition' \in [Component -> Condition]
<1>1. CASE UNCHANGED condition
  BY <1>1
<1>2. CASE InstallNext
  <2> DEFINE c == Head(boot.todo)
  <2>1. c \in Component
    BY <1>2, MoveOn DEF BootInv, BootRun, InstallNext
  <2> HIDE DEF c
  <2>2. ASSUME NEW o \in install_component(c) PROVE o.now \in Condition
    <3> DEFINE outcome(b, s) == [success |-> b, now |-> s]
    <3>1. \A b, s : outcome(b, s).now = s
      OBVIOUS
    <3>2. condition[c] \in Condition
      BY <2>1
    <3>3. _pull_workspace_repo(c) \subseteq Condition
      BY <3>2 DEF _pull_workspace_repo, Condition
    <3>4. \/ o \in {outcome(TRUE, s) : s \in _pull_workspace_repo(c)}
          \/ o \in {outcome(TRUE, condition[c])}
          \/ o \in {outcome(TRUE, "good")}
          \/ o \in {outcome(FALSE, s) : s \in {condition[c], "broken", "absent"}}
      BY Zenon DEF install_component
    <3>5. "good" \in Condition /\ "broken" \in Condition /\ "absent" \in Condition
      BY DEF Condition
    <3> HIDE DEF outcome
    <3>6. \E b, s : s \in Condition /\ o = outcome(b, s)
      BY <3>2, <3>3, <3>4, <3>5
    <3> QED
      BY <3>1, <3>6
  <2>3. PICK o \in install_component(c) : condition' = [condition EXCEPT ![c] = o.now]
    BY <1>2 DEF InstallNext, c
  <2> QED
    BY <2>1, <2>2, <2>3
<1> QED
  BY <1>1, <1>2 DEF BootstrapNext, RunInteractive, _run_from_defaults, Summary, Dies

LEMMA NoLineFacts == NoLine \in LineMade /\ NoLine.line = None /\ SoundLine(NoLine, TRUE) /\ SoundLine(NoLine, FALSE)
<1>1. /\ NoLine.looked = 0 /\ NoLine.skipped = FALSE /\ NoLine.line = None /\ NoLine.up = TRUE
      /\ NoLine \in LineMade
  BY DEF NoLine, LineMade
<1> QED
  BY <1>1 DEF SoundLine

\* The banner that shows nothing yet, opened or closed.
LEMMA FreshBanner ==
  ASSUME NEW pc \in {"idle", "open"}, NEW todo \in Seq(ResolvedEntry), NEW quiet \in BOOLEAN,
         NEW tty \in BOOLEAN, NEW f \in BOOLEAN,
         banner' = [pc |-> pc, todo |-> todo, quiet |-> quiet, tty |-> tty, failure |-> f,
                    late |-> 0, shown |-> <<>>, making |-> NoLine]
  PROVE  BannerInv'
<1> DEFINE none == <<>>
           new == banner'
<1>1. none \in Seq(BannerLine) /\ ToSet(none) = {}
  BY DEF ToSet
<1> HIDE DEF none
<1>2. NoLine \in LineMade /\ SoundLine(NoLine, f)
  BY NoLineFacts
<1>3. new = [pc |-> pc, todo |-> todo, quiet |-> quiet, tty |-> tty, failure |-> f,
             late |-> 0, shown |-> none, making |-> NoLine]
  BY DEF none
<1> HIDE DEF new
<1>4. new \in BannerRun /\ new.shown = none /\ new.failure = f /\ new.making = NoLine
  BY <1>1, <1>2, <1>3 DEF BannerRun
<1>5. SoundLine(new.making, new.failure) /\ \A l \in ToSet(new.shown) : KnownCross(l, new.failure)
  BY <1>1, <1>2, <1>4
<1> QED
  BY <1>4, <1>5 DEF BannerInv, new

LEMMA ClosedInv == ASSUME banner = Closed PROVE BannerInv
<1> DEFINE none == <<>>
<1>1. none \in Seq(BannerLine) /\ ToSet(none) = {} /\ none \in Seq(ResolvedEntry)
  BY DEF ToSet
<1>2. Closed = [pc |-> "idle", todo |-> none, quiet |-> FALSE, tty |-> FALSE, failure |-> FALSE,
                late |-> 0, shown |-> none, making |-> NoLine]
  BY DEF Closed
<1> HIDE DEF none
<1>3. NoLine \in LineMade /\ SoundLine(NoLine, FALSE)
  BY NoLineFacts
<1>4. Closed \in BannerRun /\ Closed.shown = none /\ Closed.failure = FALSE /\ Closed.making = NoLine
  BY <1>1, <1>2, <1>3 DEF BannerRun
<1> QED
  BY <1>1, <1>3, <1>4 DEF BannerInv

LEMMA ExtensionsInitInv ==
  ASSUME BootstrapInit, ExtensionsInit
  PROVE  RegisterInv /\ BannerInv
<1> DEFINE none == <<>>
<1>1. register = none /\ banner = Closed /\ boot.pc = "idle" /\ condition \in [Component -> Condition]
  BY BootstrapAssumption DEF BootstrapInit, ExtensionsInit, Exited
<1>2. none \in Seq(ResolvedEntry) /\ ToSet(none) = {}
  BY DEF ToSet
<1>3. BannerInv
  BY <1>1, ClosedInv
<1> HIDE DEF none
<1> QED
  BY <1>1, <1>2, <1>3 DEF RegisterInv

LEMMA RegisterStartsInv ==
  ASSUME RegisterInv, boot.pc = "idle", NEW manifests \in Checkouts, NEW failing,
         RegisterStarts(manifests, failing)
  PROVE  RegisterInv'
<1> DEFINE found == resolve_extensions(manifests, failing)
<1>1. PICK resolved \in enforce_versions(found) :
        register' = Among(resolved, {i \in DOMAIN resolved :
                                       resolved[i].status \notin {"unavailable", "version_mismatch"}})
  BY DEF RegisterStarts
<1> DEFINE P == {i \in DOMAIN resolved : resolved[i].status \notin {"unavailable", "version_mismatch"}}
           n == Len(found)
<1>2. found \in Seq(ResolvedEntry) /\ \A i \in DOMAIN found : \E e \in Entry : found[i] = _resolve_entry(e, failing)
  BY ResolveFacts
<1> HIDE DEF found
<1>3. n \in Nat /\ DOMAIN found = 1..n
  BY <1>2
<1>4. resolved \in [1..n -> UNION {enforce_version(found[i]) : i \in 1..n}]
      /\ \A i \in 1..n : resolved[i] \in enforce_version(found[i])
  BY <1>3 DEF enforce_versions
<1> HIDE DEF n
<1>5. \A i \in 1..n : /\ resolved[i] \in ResolvedEntry
                      /\ resolved[i].status \notin {"unavailable", "version_mismatch"} => Linkable(resolved[i])
  BY <1>2, <1>3, <1>4, EnforceFacts
<1>6. resolved \in Seq(ResolvedEntry) /\ DOMAIN resolved = 1..n
  BY <1>3, <1>4, <1>5
<1>7. P \in SUBSET DOMAIN resolved /\ \A i \in P : Linkable(resolved[i])
  BY <1>5, <1>6
<1>8. register' = Among(resolved, P)
  BY <1>1
<1> HIDE DEF P
<1> DEFINE q == Among(resolved, P)
<1>13. q \in Seq(ResolvedEntry) /\ ToSet(q) = {resolved[k] : k \in P}
  <2>1. resolved \in Seq(ResolvedEntry)
    BY <1>6
  <2>2. P \in SUBSET DOMAIN resolved
    BY <1>7
  <2> QED
    BY <2>1, <2>2, AmongFacts
<1> HIDE DEF q
<1>9. register' \in Seq(ResolvedEntry) /\ ToSet(register') = {resolved[k] : k \in P}
  <2>1. register' = q
    BY <1>8 DEF q
  <2> QED
    BY <1>13, <2>1
<1>10. \A x \in ToSet(register') : Linkable(x)
  BY <1>7, <1>9
<1>11. \A x : Linkable(x)' <=> Linkable(x)
  <2>1. UNCHANGED <<condition, rewritten>>
    BY DEF RegisterStarts
  <2> QED
    BY <2>1 DEF Linkable, exists, Fitting
<1>12. UNCHANGED <<condition, boot, banner>>
  BY DEF RegisterStarts
<1> QED
  BY <1>9, <1>10, <1>11, <1>12 DEF RegisterInv, Linkable

LEMMA RegisterNextInv ==
  ASSUME RegisterInv, RegisterNext
  PROVE  RegisterInv'
<1> DEFINE x == Head(register)
           e == x.entry
           left == Tail(register)
<1>1. /\ register \in Seq(ResolvedEntry) /\ register # <<>> /\ condition \in [Component -> Condition]
      /\ boot.pc = "idle" /\ UNCHANGED <<boot, banner>> /\ register' = left
  BY DEF RegisterInv, RegisterNext
<1>2. x \in ResolvedEntry /\ left \in Seq(ResolvedEntry) /\ ToSet(left) \subseteq ToSet(register)
  <2>1. x \in ResolvedEntry /\ left \in Seq(ResolvedEntry)
    BY <1>1, MoveOn
  <2>2. \A i \in DOMAIN left : i + 1 \in DOMAIN register /\ left[i] = register[i + 1]
    BY <1>1
  <2> HIDE DEF left
  <2> QED
    BY <2>1, <2>2 DEF ToSet
<1> HIDE DEF left, x
<1>3. e.binary \in Component
  BY <1>2, ExtensionsAssumption DEF ResolvedEntry
<1> DEFINE c == e.binary
<1>4. PICK now : /\ now = condition[c] \/ now \in fix_stale_shebang(c)
                 /\ condition' = [condition EXCEPT ![c] = now]
                 /\ left = <<>> \/ rewritten' = rewritten \union {d \in {c} : now # condition[d]}
  BY DEF RegisterNext, x, left
<1> HIDE DEF c, e
<1>5. now = condition[c] \/ (exists(c) /\ now \in {"good", "silent", "broken"})
  BY <1>4 DEF fix_stale_shebang
<1>6. condition' \in [Component -> Condition]
  <2>1. c \in Component /\ condition[c] \in Condition
    BY <1>1, <1>3 DEF c
  <2>2. now \in Condition
    BY <1>5, <2>1 DEF Condition
  <2> QED
    BY <1>1, <1>4, <2>1, <2>2
<1>7. \A d \in Component :
        /\ condition'[d] = condition[d] \/ condition'[d] \in {"good", "silent", "broken"}
        /\ left # <<>> /\ d \notin rewritten' => d \notin rewritten /\ condition'[d] = condition[d]
  BY <1>1, <1>3, <1>4, <1>5 DEF c
<1>8. ASSUME left # <<>>, NEW y \in ResolvedEntry, Linkable(y) PROVE Linkable(y)'
  <2> DEFINE d == y.entry.binary
  <2>1. d \in Component
    BY ExtensionsAssumption DEF ResolvedEntry
  <2>2. exists(d)'
    BY <1>7, <1>8, <2>1 DEF Linkable, exists
  <2>3. ASSUME d \notin rewritten', Fitting(y.entry) PROVE Fitting(y.entry)'
    <3>1. condition'[d] = condition[d]
      BY <1>7, <1>8, <2>1, <2>3
    <3> QED
      BY <2>3, <3>1 DEF Fitting
  <2>4. d \notin rewritten' => d \notin rewritten
    BY <1>7, <1>8, <2>1
  <2> QED
    BY <1>8, <2>2, <2>3, <2>4 DEF Linkable
<1>9. \A y \in ToSet(left) : y \in ResolvedEntry /\ Linkable(y)
  <2>1. \A y \in ToSet(register) : Linkable(y)
    BY DEF RegisterInv, Linkable
  <2>2. \A y \in ToSet(left) : y \in ResolvedEntry
    BY <1>2 DEF ToSet
  <2> QED
    BY <1>2, <2>1, <2>2
<1>10. \A y \in ToSet(left) : Linkable(y)'
  <2>1. left = <<>> => ToSet(left) = {}
    BY DEF ToSet
  <2> QED
    BY <1>8, <1>9, <2>1
<1> QED
  BY <1>1, <1>2, <1>6, <1>10 DEF RegisterInv, Linkable

\* As long as nothing is linked, what there is to register stays linkable.
LEMMA RegisterKept ==
  ASSUME RegisterInv, UNCHANGED <<condition, boot, register, rewritten>>, boot.pc = "idle" \/ banner'.pc = banner.pc
  PROVE  RegisterInv'
<1>1. \A x : Linkable(x)' <=> Linkable(x)
  BY DEF Linkable, exists, Fitting
<1>2. \A x \in ToSet(register) : Linkable(x)
  BY DEF RegisterInv, Linkable
<1>3. \A x \in ToSet(register') : Linkable(x)'
  BY <1>1, <1>2
<1> QED
  BY <1>3 DEF RegisterInv, Linkable

-----------------------------------------------------------------------------

LEMMA BannerOpensInv ==
  ASSUME NEW manifests \in Checkouts, NEW failing, NEW quiet \in BOOLEAN, NEW tty \in BOOLEAN,
         BannerOpens(manifests, failing, quiet, tty)
  PROVE  BannerInv'
<1> DEFINE found == resolve_extensions(manifests, failing)
           P == {i \in DOMAIN found : found[i].status \notin {"unavailable", "hidden"}}
           todo == Among(found, P)
<1>1. found \in Seq(ResolvedEntry)
  BY ResolveFacts
<1>2. banner' = [Closed EXCEPT !.pc = "open", !.quiet = quiet, !.tty = tty, !.todo = todo]
  BY DEF BannerOpens
<1> HIDE DEF found
<1>3. P \in SUBSET DOMAIN found
  OBVIOUS
<1> HIDE DEF P
<1>4. todo \in Seq(ResolvedEntry)
  BY <1>1, <1>3, AmongFacts
<1> HIDE DEF todo
<1>5. banner' = [pc |-> "open", todo |-> todo, quiet |-> quiet, tty |-> tty, failure |-> FALSE,
                 late |-> 0, shown |-> <<>>, making |-> NoLine]
  BY <1>2 DEF Closed
<1> QED
  BY <1>4, <1>5, FreshBanner

LEMMA LineFacts ==
  ASSUME NEW x \in ResolvedEntry, NEW skipped \in BOOLEAN, NEW checked, NEW late \in BOOLEAN
  PROVE  /\ Line(x, skipped, checked, late) \in BannerLine
         /\ Line(x, skipped, checked, late).late = late
         /\ Line(x, skipped, checked, late).suffix = suffix(skipped, checked)
<1>1. x.entry \in Entry
  BY DEF ResolvedEntry
<1>2. x.entry.name \in Extension
  BY <1>1 DEF Extension
<1>3. suffix(skipped, checked) \in {"mismatch", "version", "container", "tick", "cross"}
  BY DEF suffix
<1> QED
  BY <1>2, <1>3 DEF Line, BannerLine

LEMMA SuffixFacts ==
  ASSUME NEW skipped \in BOOLEAN, NEW checked
  PROVE  /\ suffix(skipped, checked) = "cross" => ~checked.healthy
         /\ suffix(skipped, checked) \in {"tick", "version"} => ~skipped \/ checked.version # None
BY DEF suffix

LEMMA UncheckedFacts ==
  Unchecked.healthy = TRUE /\ Unchecked.version = None /\ TimedOut.healthy = FALSE /\ TimedOut.version = None
BY DEF Unchecked, TimedOut

\* A banner's step that shows no line: what is being made, and what the session
\* knows of, may change.
LEMMA BannerChange ==
  ASSUME BannerInv, NEW m \in LineMade, NEW f \in BOOLEAN, NEW n \in Nat,
         banner.failure => f, SoundLine(m, f),
         banner' = [banner EXCEPT !.making = m, !.failure = f, !.late = n]
  PROVE  BannerInv'
<1> DEFINE new == banner'
<1>1. banner \in BannerRun /\ \A l \in ToSet(banner.shown) : KnownCross(l, banner.failure)
  BY DEF BannerInv
<1>2. new = [banner EXCEPT !.making = m, !.failure = f, !.late = n]
  OBVIOUS
<1> HIDE DEF new
<1>3. new \in BannerRun /\ new.shown = banner.shown /\ new.failure = f /\ new.making = m
  BY <1>1, <1>2 DEF BannerRun
<1>4. \A l \in ToSet(new.shown) : KnownCross(l, new.failure)
  BY <1>1, <1>3 DEF KnownCross
<1>5. SoundLine(new.making, new.failure)
  BY <1>3
<1> QED
  BY <1>3, <1>4, <1>5 DEF BannerInv, new

LEMMA LookUpInv ==
  ASSUME BannerInv, LookUp
  PROVE  BannerInv'
<1> DEFINE m == banner.making
           d == Head(banner.todo).entry.deps[m.looked + 1]
           runs == d.type = "container" => d.on \intersect running # {}
<1>1. PICK failing \in SUBSET {d} :
        banner' = [banner EXCEPT !.making.looked = @ + 1,
                                 !.making.skipped = @ \/ failed_container(d, failing),
                                 !.making.up = @ /\ runs]
  BY DEF LookUp
<1> DEFINE fails == failed_container(d, failing)
<1>2. ~fails => runs
  BY DEF failed_container, check_dep
<1>3. fails \in BOOLEAN /\ runs \in BOOLEAN
  BY DEF failed_container
<1> HIDE DEF d, runs, fails
<1>4. /\ banner \in BannerRun /\ m \in LineMade /\ banner.failure \in BOOLEAN /\ banner.late \in Nat
      /\ m.looked \in Nat /\ m.skipped \in BOOLEAN /\ m.up \in BOOLEAN /\ m.line = None
      /\ (~m.skipped => m.up)
  BY DEF BannerInv, BannerRun, LineMade, LookUp, Making, SoundLine
<1> DEFINE looked == m.looked + 1
           skipped == m.skipped \/ fails
           up == m.up /\ runs
           new == [m EXCEPT !.looked = looked, !.skipped = skipped, !.up = up]
           f == banner.failure
           n == banner.late
<1>5. looked \in Nat /\ skipped \in BOOLEAN /\ up \in BOOLEAN /\ (~skipped => up)
  BY <1>2, <1>3, <1>4
<1>6. banner' = [banner EXCEPT !.making = new]
  BY <1>1, <1>4, Zenon DEF BannerRun, LineMade, fails
<1>7. [banner EXCEPT !.making = new] = [banner EXCEPT !.making = new, !.failure = f, !.late = n]
  <2> HIDE DEF new
  <2> QED
    BY <1>4 DEF BannerRun
<1> HIDE DEF looked, skipped, up
<1>8. new \in LineMade /\ new.skipped = skipped /\ new.up = up /\ new.line = None
  BY <1>4, <1>5 DEF LineMade
<1> HIDE DEF new
<1>9. SoundLine(new, f)
  BY <1>5, <1>8 DEF SoundLine
<1> QED
  BY <1>4, <1>6, <1>7, <1>8, <1>9, BannerChange

LEMMA CheckInv ==
  ASSUME BannerInv, Check
  PROVE  BannerInv'
<1> DEFINE x == Head(banner.todo)
           m == banner.making
           line(r, late) == Line(x, m.skipped, r, late)
           made(r, late) == [m EXCEPT !.line = line(r, late)]
           base(r, late) == [banner EXCEPT !.making.line = line(r, late)]
<1>1. \/ banner' = base(Unchecked, FALSE)
      \/ ~m.skipped /\ \E r \in run_check(x.entry) :
                         banner' = [base(r, FALSE) EXCEPT !.failure = @ \/ ~r.healthy]
      \/ ~m.skipped /\ banner' = [base(TimedOut, TRUE) EXCEPT !.late = @ + 1]
  BY DEF Check
<1>2. /\ banner \in BannerRun /\ banner.todo \in Seq(ResolvedEntry) /\ banner.todo # <<>>
      /\ m \in LineMade /\ banner.failure \in BOOLEAN /\ banner.late \in Nat
      /\ m.skipped \in BOOLEAN /\ (~m.skipped => m.up)
  BY DEF BannerInv, BannerRun, LineMade, Check, Making, SoundLine
<1>3. x \in ResolvedEntry
  BY <1>2, MoveOn
<1> HIDE DEF x, m
<1>4. ASSUME NEW r, NEW late \in BOOLEAN
      PROVE  /\ line(r, late) \in BannerLine /\ line(r, late).late = late
             /\ line(r, late).suffix = "cross" => ~r.healthy
             /\ line(r, late).suffix \in {"tick", "version"} => ~m.skipped \/ r.version # None
  <2>1. /\ line(r, late) \in BannerLine /\ line(r, late).late = late
        /\ line(r, late).suffix = suffix(m.skipped, r)
    BY <1>2, <1>3, LineFacts
  <2>2. /\ suffix(m.skipped, r) = "cross" => ~r.healthy
        /\ suffix(m.skipped, r) \in {"tick", "version"} => ~m.skipped \/ r.version # None
    BY <1>2, SuffixFacts
  <2> QED
    BY <2>1, <2>2
<1>5. ASSUME NEW r, NEW late \in BOOLEAN, NEW f \in BOOLEAN,
             ~m.skipped \/ r.version = None, late \/ r.healthy \/ f
      PROVE  made(r, late) \in LineMade /\ SoundLine(made(r, late), f)
  <2> DEFINE l == line(r, late)
             q == made(r, late)
  <2>1. /\ l \in BannerLine /\ l.late = late /\ (l.suffix = "cross" => ~r.healthy)
        /\ (l.suffix \in {"tick", "version"} => ~m.skipped)
    BY <1>4, <1>5
  <2> HIDE DEF l
  <2>2. q = [m EXCEPT !.line = l]
    BY DEF l
  <2> HIDE DEF q
  <2>3. q \in LineMade /\ q.line = l /\ q.skipped = m.skipped /\ q.up = m.up
    BY <1>2, <2>1, <2>2 DEF LineMade
  <2>4. KnownCross(l, f)
    BY <1>5, <2>1 DEF KnownCross
  <2>5. SoundLine(q, f)
    BY <1>2, <2>1, <2>3, <2>4 DEF SoundLine
  <2> QED
    BY <2>3, <2>5 DEF q
<1>6. \A r, late : base(r, late) = [banner EXCEPT !.making = made(r, late)]
  BY DEF m
<1> HIDE DEF line, made, base
<1>7. ASSUME NEW q, NEW f, NEW n
      PROVE  /\ [[banner EXCEPT !.making = q] EXCEPT !.failure = f]
                    = [banner EXCEPT !.making = q, !.failure = f, !.late = banner.late]
             /\ [[banner EXCEPT !.making = q] EXCEPT !.late = n]
                    = [banner EXCEPT !.making = q, !.failure = banner.failure, !.late = n]
             /\ [banner EXCEPT !.making = q]
                    = [banner EXCEPT !.making = q, !.failure = banner.failure, !.late = banner.late]
             /\ [banner EXCEPT !.making = q].failure = banner.failure
             /\ [banner EXCEPT !.making = q].late = banner.late
  BY <1>2 DEF BannerRun
<1>8. CASE banner' = base(Unchecked, FALSE)
  <2> DEFINE q == made(Unchecked, FALSE)
  <2>1. Unchecked.healthy /\ Unchecked.version = None
    BY UncheckedFacts
  <2>2. q \in LineMade /\ SoundLine(q, banner.failure)
    BY <1>2, <1>5, <2>1
  <2>3. banner' = [banner EXCEPT !.making = q]
    BY <1>6, <1>8
  <2> HIDE DEF q
  <2>4. banner' = [banner EXCEPT !.making = q, !.failure = banner.failure, !.late = banner.late]
    BY <1>7, <2>3
  <2> QED
    BY <1>2, <2>2, <2>4, BannerChange
<1>9. CASE ~m.skipped /\ \E r \in run_check(x.entry) :
                            banner' = [base(r, FALSE) EXCEPT !.failure = @ \/ ~r.healthy]
  <2>1. PICK r \in run_check(x.entry) : banner' = [base(r, FALSE) EXCEPT !.failure = @ \/ ~r.healthy]
    BY <1>9
  <2> DEFINE q == made(r, FALSE)
             f == banner.failure \/ ~r.healthy
  <2>2. f \in BOOLEAN /\ (banner.failure => f) /\ (r.healthy \/ f)
    OBVIOUS
  <2>3. base(r, FALSE) = [banner EXCEPT !.making = q]
    BY <1>6
  <2> HIDE DEF q
  <2>4. banner' = [[banner EXCEPT !.making = q] EXCEPT !.failure = f]
    BY <1>7, <2>1, <2>3
  <2> HIDE DEF f
  <2>5. banner' = [banner EXCEPT !.making = q, !.failure = f, !.late = banner.late]
    BY <1>7, <2>4
  <2>6. q \in LineMade /\ SoundLine(q, f)
    BY <1>5, <1>9, <2>2 DEF q
  <2> QED
    BY <1>2, <2>2, <2>5, <2>6, BannerChange
<1>10. CASE ~m.skipped /\ banner' = [base(TimedOut, TRUE) EXCEPT !.late = @ + 1]
  <2> DEFINE q == made(TimedOut, TRUE)
             n == banner.late + 1
  <2>1. n \in Nat
    BY <1>2
  <2>2. base(TimedOut, TRUE) = [banner EXCEPT !.making = q]
    BY <1>6
  <2>3. q \in LineMade /\ SoundLine(q, banner.failure)
    BY <1>2, <1>5, <1>10
  <2> HIDE DEF q
  <2>4. banner' = [[banner EXCEPT !.making = q] EXCEPT !.late = n]
    BY <1>7, <1>10, <2>2
  <2> HIDE DEF n
  <2>5. banner' = [banner EXCEPT !.making = q, !.failure = banner.failure, !.late = n]
    BY <1>7, <2>4
  <2> QED
    BY <1>2, <2>1, <2>3, <2>5, BannerChange
<1> QED
  BY <1>1, <1>8, <1>9, <1>10

\* The line made is the one shown.
LEMMA PrintedFacts ==
  ASSUME BannerInv, PrintExtension
  PROVE  /\ banner.making.line \in BannerLine /\ banner.shown \in Seq(BannerLine)
         /\ banner'.shown = Append(banner.shown, banner.making.line)
         /\ banner'.failure = banner.failure /\ banner'.making = NoLine /\ banner' \in BannerRun
<1> DEFINE l == banner.making.line
           shown == Append(banner.shown, l)
           left == Tail(banner.todo)
<1>1. /\ banner \in BannerRun /\ banner.shown \in Seq(BannerLine) /\ banner.todo \in Seq(ResolvedEntry)
      /\ l \in BannerLine /\ banner.todo # <<>>
  BY DEF BannerInv, BannerRun, LineMade, PrintExtension
<1>2. banner' = [banner EXCEPT !.todo = left, !.shown = shown, !.making = NoLine]
  BY DEF PrintExtension
<1> HIDE DEF l
<1>3. left \in Seq(ResolvedEntry)
  BY <1>1, MoveOn
<1>4. shown \in Seq(BannerLine)
  BY <1>1
<1>5. NoLine \in LineMade
  BY NoLineFacts
<1> DEFINE q == shown
           t == left
<1>6. q \in Seq(BannerLine) /\ t \in Seq(ResolvedEntry)
  BY <1>3, <1>4
<1>7. banner' = [banner EXCEPT !.todo = t, !.shown = q, !.making = NoLine]
  BY <1>2
<1> HIDE DEF q, t
<1>8. banner' \in BannerRun /\ banner'.shown = q /\ banner'.failure = banner.failure /\ banner'.making = NoLine
  BY <1>1, <1>5, <1>6, <1>7 DEF BannerRun
<1> QED
  BY <1>1, <1>8 DEF q, l

LEMMA PrintInv ==
  ASSUME BannerInv, PrintExtension
  PROVE  BannerInv'
<1> DEFINE l == banner.making.line
           new == banner'
<1>1. /\ l \in BannerLine /\ banner.shown \in Seq(BannerLine) /\ new.shown = Append(banner.shown, l)
      /\ new.failure = banner.failure /\ new.making = NoLine /\ new \in BannerRun
  BY PrintedFacts
<1>2. KnownCross(l, banner.failure) /\ \A k \in ToSet(banner.shown) : KnownCross(k, banner.failure)
  BY DEF BannerInv, SoundLine, PrintExtension
<1> HIDE DEF l, new
<1>3. ToSet(new.shown) = ToSet(banner.shown) \union {l}
  BY <1>1, AppendFacts
<1>4. \A k \in ToSet(new.shown) : KnownCross(k, new.failure)
  BY <1>1, <1>2, <1>3
<1>5. SoundLine(new.making, new.failure)
  BY <1>1, NoLineFacts DEF BannerRun
<1> QED
  BY <1>1, <1>4, <1>5 DEF BannerInv, new

LEMMA HookLateInv ==
  ASSUME BannerInv, HookLate
  PROVE  BannerInv'
<1> DEFINE n == banner.late - 1
           m == banner.making
<1>1. PICK healthy \in BOOLEAN : banner' = [banner EXCEPT !.late = n, !.failure = @ \/ ~healthy]
  BY DEF HookLate
<1> DEFINE f == banner.failure \/ ~healthy
<1>2. /\ banner \in BannerRun /\ banner.late \in Nat /\ banner.late > 0 /\ m \in LineMade
      /\ SoundLine(m, banner.failure)
  BY DEF BannerInv, BannerRun, HookLate
<1>3. n \in Nat /\ f \in BOOLEAN /\ (banner.failure => f)
  BY <1>2
<1>4. banner' = [banner EXCEPT !.late = n, !.failure = f]
  BY <1>1
<1> HIDE DEF n, f
<1>5. banner' = [banner EXCEPT !.making = m, !.failure = f, !.late = n]
  BY <1>2, <1>4 DEF BannerRun
<1>6. SoundLine(m, f)
  BY <1>2, <1>3 DEF SoundLine, KnownCross
<1> HIDE DEF m
<1> QED
  BY <1>2, <1>3, <1>5, <1>6, BannerChange

LEMMA BannerClosesInv ==
  ASSUME BannerInv, BannerCloses
  PROVE  BannerInv'
<1> DEFINE f == kept(banner)
           none == <<>>
<1>1. banner' = [Closed EXCEPT !.failure = f]
  BY DEF BannerCloses
<1>2. f \in BOOLEAN
  BY DEF BannerInv, BannerRun, kept
<1> HIDE DEF f
<1>3. banner' = [pc |-> "idle", todo |-> <<>>, quiet |-> FALSE, tty |-> FALSE, failure |-> f,
                 late |-> 0, shown |-> <<>>, making |-> NoLine]
  BY <1>1 DEF Closed
<1>4. none \in Seq(ResolvedEntry)
  OBVIOUS
<1>5. banner' = [pc |-> "idle", todo |-> none, quiet |-> FALSE, tty |-> FALSE, failure |-> f,
                 late |-> 0, shown |-> <<>>, making |-> NoLine]
  BY <1>3
<1> HIDE DEF none
<1> QED
  BY <1>2, <1>4, <1>5, FreshBanner

LEMMA BannerNextInv ==
  ASSUME BannerInv, ExtensionsNext \/ ExtensionsStart
  PROVE  BannerInv'
<1>1. CASE LookUp \/ Check \/ PrintExtension
  BY <1>1, LookUpInv, CheckInv, PrintInv
<1>2. CASE HookLate \/ BannerCloses
  BY <1>2, HookLateInv, BannerClosesInv
<1>3. ASSUME NEW m \in Checkouts, NEW failing, NEW quiet \in BOOLEAN, NEW tty \in BOOLEAN,
             BannerOpens(m, failing, quiet, tty)
      PROVE  BannerInv'
  BY <1>3, BannerOpensInv
<1>4. CASE UNCHANGED banner
  BY <1>4 DEF BannerInv
<1> QED
  BY <1>1, <1>2, <1>3, <1>4 DEF ExtensionsNext, ExtensionsStart, RegisterStarts, RegisterNext

LEMMA RegisterStepInv ==
  ASSUME RegisterInv, BannerInv, boot.pc = "idle", ExtensionsNext \/ ExtensionsStart
  PROVE  RegisterInv' /\ UNCHANGED boot
<1>1. UNCHANGED boot
  BY DEF ExtensionsNext, ExtensionsStart, RegisterStarts, RegisterNext, BannerOpens, LookUp, Check,
         PrintExtension, HookLate, BannerCloses
<1>2. ASSUME NEW m \in Checkouts, NEW failing, RegisterStarts(m, failing) PROVE RegisterInv'
  BY <1>2, RegisterStartsInv
<1>3. CASE RegisterNext
  BY <1>1, <1>3, RegisterNextInv
<1>4. CASE UNCHANGED <<condition, boot, register, rewritten>>
  BY <1>1, <1>4, RegisterKept
<1>5. \/ \E m \in Checkouts, failing \in SUBSET ContainerDep : RegisterStarts(m, failing)
      \/ RegisterNext
      \/ UNCHANGED <<condition, boot, register, rewritten>>
  BY DEF ExtensionsNext, ExtensionsStart, BannerOpens, LookUp, Check, PrintExtension, HookLate, BannerCloses
<1>6. RegisterInv'
  BY <1>2, <1>3, <1>4, <1>5, Zenon
<1> QED
  BY <1>1, <1>6

-----------------------------------------------------------------------------

\* No two programs run at once.
LEMMA TurnFacts ==
  ASSUME RegisterInv
  PROVE  /\ Turn("bootstrap") => register = <<>> /\ banner.pc = "idle"
         /\ Busy \subseteq {"extensions"} \/ "extensions" \in Busy => boot.pc = "idle"
<1>1. Busy = {} => boot.pc = "idle" /\ register = <<>> /\ banner.pc = "idle"
  BY DEF Busy
<1>2. "bootstrap" \in Busy => boot.pc # "idle"
  BY DEF Busy
<1>3. "extensions" \in Busy => register # <<>> \/ banner.pc # "idle"
  BY DEF Busy
<1>4. Busy \subseteq {"extensions"} => boot.pc = "idle"
  BY DEF Busy
<1> QED
  BY <1>1, <1>2, <1>3, <1>4 DEF Turn, RegisterInv

LEMMA SetupInitInv == Init => SetupInv
BY BootInitInv, HostInitInv, LlamaInitInv, ExtensionsInitInv DEF Init, SetupInv

LEMMA SetupStepInv == SetupInv /\ [Next]_setupVars => SetupInv'
<1> SUFFICES ASSUME SetupInv, [Next]_setupVars PROVE SetupInv'
  OBVIOUS
<1>1. BootInv /\ HostInv /\ LlamaInv /\ RegisterInv /\ BannerInv
  BY DEF SetupInv
<1>2. UNCHANGED auxVars => HostInv'
  BY <1>1, HostStepInv
<1>3. UNCHANGED llamaVars => LlamaInv'
  BY <1>1, LlamaStepInv
<1>4. UNCHANGED boot => BootInv'
  BY <1>1 DEF BootInv
<1>5. UNCHANGED banner => BannerInv'
  BY <1>1 DEF BannerInv
<1>6. UNCHANGED <<condition, boot, register, rewritten, banner>> => RegisterInv'
  BY <1>1, RegisterKept
<1>7. CASE Turn("bootstrap") /\ BootstrapNext /\ UNCHANGED <<running, links, register, rewritten, banner, auxVars, llamaVars>>
  <2>1. BootInv'
    BY <1>1, <1>7, BootStepInv
  <2>2. register = <<>> /\ banner.pc = "idle"
    BY <1>1, <1>7, TurnFacts
  <2>3. condition' \in [Component -> Condition]
    BY <1>1, <1>7, BootCondition DEF RegisterInv
  <2>4. RegisterInv'
    <3>1. register' = <<>> /\ banner'.pc = "idle" /\ ToSet(<<>>) = {} /\ <<>> \in Seq(ResolvedEntry)
      BY <1>7, <2>2 DEF ToSet
    <3> QED
      BY <2>3, <3>1 DEF RegisterInv
  <2> QED
    BY <1>2, <1>3, <1>5, <1>7, <2>1, <2>4 DEF SetupInv
<1>8. CASE /\ Busy \subseteq {"extensions"} \/ "extensions" \in Busy
           /\ ExtensionsNext \/ ExtensionsStart
           /\ UNCHANGED <<auxVars, llamaVars>>
  <2>1. RegisterInv' /\ UNCHANGED boot
    BY <1>1, <1>8, TurnFacts, RegisterStepInv
  <2>2. BannerInv'
    BY <1>1, <1>8, BannerNextInv
  <2> QED
    BY <1>2, <1>3, <1>4, <1>8, <2>1, <2>2 DEF SetupInv
<1>9. CASE Turn("host") /\ HostSetupNext /\ UNCHANGED <<extVars, llamaVars>>
  <2>1. HostInv'
    BY <1>1, <1>9, HostStepInv
  <2> QED
    BY <1>3, <1>4, <1>5, <1>6, <1>9, <2>1 DEF SetupInv, extVars
<1>10. CASE Turn("llama") /\ LlamaNext /\ UNCHANGED <<extVars, auxVars>>
  <2>1. LlamaInv'
    BY <1>1, <1>10, LlamaStepInv
  <2> QED
    BY <1>2, <1>4, <1>5, <1>6, <1>10, <2>1 DEF SetupInv, extVars
<1>11. CASE (\E c \in Container : ContainerToggles(c)) /\ UNCHANGED <<auxVars, llamaVars, agenda>>
  <2>1. UNCHANGED <<condition, boot, register, rewritten, banner>>
    BY <1>11 DEF ContainerToggles
  <2> QED
    BY <1>2, <1>3, <1>4, <1>5, <1>6, <1>11, <2>1 DEF SetupInv
<1>12. CASE UNCHANGED setupVars
  BY <1>2, <1>3, <1>4, <1>5, <1>6, <1>12 DEF SetupInv, setupVars, extVars
<1> QED
  BY <1>7, <1>8, <1>9, <1>10, <1>11, <1>12 DEF Next

\* The setup programs keep their invariants, whatever is run in whatever order: lists
\* in order, nothing linkable that does not fit, no cross the session does not know of.
THEOREM SetupSafety == Spec => []SetupInv
BY SetupInitInv, SetupStepInv, PTL DEF Spec

\* RequirementsFirst: in a run of the host configuration (run_selected,
\* bootstrap_aux.py) a feature runs only after every feature of the run that it
\* requires has succeeded, for every registry and every selection.
THEOREM RequirementsAreFirst == Spec => []RequirementsFirst
<1>1. SetupInv => RequirementsFirst
  BY HostInvFirst DEF SetupInv
<1> QED
  BY <1>1, SetupSafety, PTL

\* DeployedLast: execute_plan (llama_setup_installer.py) deploys a stack behind all
\* its build steps and all the prerequisites the snapshot missed, whatever stacks,
\* repeated or unknown ones, were asked for, and whatever _build_plan left out.
THEOREM DeployedIsLast == Spec => []DeployedLast
<1>1. SetupInv => DeployedLast
  BY LlamaInvLast DEF SetupInv
<1> QED
  BY <1>1, SetupSafety, PTL

\* EveryRunTakesTheMandatory: whatever the dialogs return or a defaults file names, a
\* run of the bootstrap installer that comes to its summary has been through every
\* mandatory repository, and through the core before anything else.
THEOREM MandatoryAreTaken == Spec => EveryRunTakesTheMandatory
<1>1. SetupInv =>
        [Summary =>
          /\ Mandatory \subseteq {r.name : r \in ToSet(boot.results)}
          /\ \A i, j \in DOMAIN boot.results :
               i < j /\ boot.results[j].name \in Core => boot.results[i].name \in Core]_bootVars
  BY BootInvTakes DEF SetupInv
<1> QED
  BY <1>1, SetupSafety, PTL DEF EveryRunTakesTheMandatory

\* LinkedVersionFits: what register_extensions links is there and, unless hidden or
\* changed by the fix for an earlier link, prints now a version its entry allows: what was decided for all of them before the
\* first link holds for each when its turn comes.
THEOREM LinkedFits == Spec => LinkedVersionFits
<1>1. ASSUME SetupInv, RegisterNext
      PROVE  LET x == Head(register) IN
               /\ exists(x.entry.binary)
               /\ bounded(x.entry) /\ x.status # "hidden" /\ x.entry.binary \notin rewritten =>
                    \E r \in run_check(x.entry) : r.fits
  <2> DEFINE x == Head(register)
  <2>1. register \in Seq(ResolvedEntry) /\ register # <<>> /\ \A y \in ToSet(register) : Linkable(y)
    BY <1>1 DEF SetupInv, RegisterInv, RegisterNext, Linkable
  <2>2. x \in ToSet(register)
    BY <2>1 DEF ToSet
  <2>3. Linkable(x)
    BY <2>1, <2>2
  <2> HIDE DEF x
  <2>4. /\ exists(x.entry.binary)
        /\ bounded(x.entry) /\ x.status # "hidden" /\ x.entry.binary \notin rewritten =>
             \E r \in run_check(x.entry) : r.fits
    BY <2>3, FittingFits DEF Linkable
  <2> QED
    BY <2>4 DEF x
<1>2. SetupInv =>
        [RegisterNext =>
           LET x == Head(register) IN
             /\ exists(x.entry.binary)
             /\ bounded(x.entry) /\ x.status # "hidden" /\ x.entry.binary \notin rewritten =>
                  \E r \in run_check(x.entry) : r.fits]_extVars
  BY <1>1
<1> QED
  BY <1>2, SetupSafety, PTL DEF LinkedVersionFits

\* NoTickWithoutContainer: _print_extension (banner_helper.py) looks at the containers
\* again before it checks: no tick or version is shown for an extension unless a
\* container of each of its container dependencies ran at that look, whatever they
\* did since it was resolved.
THEOREM TickHasContainer == Spec => NoTickWithoutContainer
<1>1. ASSUME SetupInv, PrintExtension, Last(banner'.shown).suffix \in {"tick", "version"}
      PROVE  banner.making.up
  <2> DEFINE l == banner.making.line
             q == banner.shown
  <2>1. l \in BannerLine /\ q \in Seq(BannerLine) /\ banner'.shown = Append(q, l)
    BY <1>1, PrintedFacts DEF SetupInv
  <2>2. l.suffix \in {"tick", "version"} => banner.making.up
    BY <1>1 DEF SetupInv, BannerInv, SoundLine, PrintExtension
  <2> HIDE DEF l, q
  <2>3. Last(Append(q, l)) = l
    BY <2>1 DEF Last
  <2> QED
    BY <1>1, <2>1, <2>2, <2>3
<1>2. SetupInv =>
        [PrintExtension /\ Last(banner'.shown).suffix \in {"tick", "version"}
           => banner.making.up]_extVars
  BY <1>1
<1> QED
  BY <1>2, SetupSafety, PTL DEF NoTickWithoutContainer

\* FailedBannerKeepsLog: a banner session (banner_log_session, banner_log.py) that
\* showed a failing check other than one out of time leaves its log behind.
THEOREM FailedBannerKeeps == Spec => FailedBannerKeepsLog
<1>1. ASSUME SetupInv, BannerCloses, \E l \in ToSet(banner.shown) : l.suffix = "cross" /\ ~l.late
      PROVE  banner'.failure
  <2>1. banner.failure
    BY <1>1 DEF SetupInv, BannerInv, KnownCross
  <2> DEFINE f == kept(banner)
  <2>2. f /\ banner' = [Closed EXCEPT !.failure = f]
    BY <1>1, <2>1 DEF BannerCloses, kept
  <2> HIDE DEF f
  <2> QED
    BY <2>2 DEF Closed
<1>2. SetupInv =>
        [BannerCloses /\ (\E l \in ToSet(banner.shown) : l.suffix = "cross" /\ ~l.late)
           => banner'.failure]_extVars
  BY <1>1
<1> QED
  BY <1>2, SetupSafety, PTL DEF FailedBannerKeepsLog
=============================================================================
