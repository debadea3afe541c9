---------------------------- MODULE Islands_proofs ----------------------------
(***************************************************************************)
(* The safety of the islands, for any number of bodies, contacts and edits *)
(* and any initial length of the pool: IInv is an inductive invariant, and *)
(* the properties of Islands follow from it.                               *)
(***************************************************************************)
EXTENDS Islands, CommonLemmas, FiniteSetTheorems, TLAPS

--------------------------------------------------------------------------------
(* Numbers *)

(* The sizes as natural numbers.                                           *)
LEMMA Sizes ==
  /\ Dynamic \subseteq Nat /\ IsFiniteSet(Dynamic) /\ Static \subseteq Nat
  /\ Dynamic \cap Static = {} /\ Bodies = Dynamic \cup Static /\ Bodies \subseteq Nat
  /\ InitialSize \in Nat /\ InitialSize >= 1 /\ Threshold \in Nat /\ Threshold >= 1
  /\ MaxTouching \in Nat /\ MaxEdits \in Nat /\ Slots = 1 .. 2 * MaxTouching
  BY DynamicsAssumption DEF Bodies, Slots

(* Min and Max are what their names say.                                   *)
LEMMA LeastOf ==
  ASSUME NEW S \in SUBSET Nat, S # {}
  PROVE  Min(S) \in S /\ \A k \in S : Min(S) <= k
  BY Least DEF Min

LEMMA GreatestOf ==
  ASSUME NEW S \in SUBSET Nat, S # {}, NEW n \in Nat, \A k \in S : k <= n
  PROVE  Max(S) \in S /\ \A k \in S : k <= Max(S)
<1> DEFINE U == {u \in Nat : \A k \in S : k <= u}
<1>1. PICK u \in U : \A v \in U : u <= v
  <2>1. U \in SUBSET Nat /\ n \in U
    OBVIOUS
  <2> HIDE DEF U
  <2> QED
    BY <2>1, Least
<1>2. u \in S
  <2> SUFFICES ASSUME u \notin S PROVE FALSE
    OBVIOUS
  <2>1. \A k \in S : k <= u - 1
    BY <1>1
  <2>2. u - 1 \in Nat
    <3>1. PICK k \in S : TRUE
      OBVIOUS
    <3>2. k \in Nat /\ k <= u - 1 /\ u \in Nat
      BY <1>1, <2>1, <3>1
    <3> QED
      BY <3>2
  <2>3. u - 1 \in U
    BY <2>1, <2>2
  <2>4. u <= u - 1 /\ u \in Nat
    BY <1>1, <2>3
  <2> QED
    BY <2>4
<1>3. u \in S /\ \A k \in S : u >= k
  BY <1>1, <1>2
<1>4. Max(S) \in S /\ \A k \in S : Max(S) >= k
  BY <1>3 DEF Max
<1> QED
  BY <1>4

(* The two bodies of a contact are its least and its greatest.             *)
LEMMA KeyPair ==
  ASSUME NEW p \in Keys
  PROVE  /\ p \subseteq Bodies /\ Min(p) \in p /\ Max(p) \in p /\ Min(p) < Max(p)
         /\ p = {Min(p), Max(p)}
<1>1. PICK b \in Bodies, d \in Bodies : p = {b, d} /\ b # d
  BY DEF Keys
<1>2. b \in Nat /\ d \in Nat
  BY Sizes
<1>3. Min(p) \in p /\ \A k \in p : Min(p) <= k
  BY <1>1, <1>2, LeastOf
<1>4. \E n \in {b, d} : \A k \in p : k <= n
  BY <1>1, <1>2
<1>5. Max(p) \in p /\ \A k \in p : k <= Max(p)
  BY <1>1, <1>2, <1>4, GreatestOf
<1>6. Min(p) # Max(p)
  <2> SUFFICES ASSUME Min(p) = Max(p) PROVE FALSE
    OBVIOUS
  <2>1. \A k \in p : k = Min(p)
    BY <1>1, <1>2, <1>3, <1>5
  <2> QED
    BY <2>1, <1>1
<1> QED
  BY <1>1, <1>2, <1>3, <1>5, <1>6

--------------------------------------------------------------------------------
(* The components *)

(* One round of the search of isdb_SplitIsland.                            *)
Grown(S, members, keys) == S \cup {d \in members : \E e \in S : {d, e} \in keys}

(* The rounds of a search are a function.                                  *)
AreRounds(f, b, members, keys, n0) ==
  f = [n \in 0 .. n0 |-> IF n = 0 THEN {b} ELSE Grown(f[n - 1], members, keys)]

LEMMA Rounds ==
  ASSUME NEW b, NEW members, NEW keys, NEW n0 \in Nat
  PROVE  \E f : AreRounds(f, b, members, keys, n0)
<1> USE DEF AreRounds
<1> DEFINE Is(f, m) == AreRounds(f, b, members, keys, m)
           P == {m \in Nat : \E f : Is(f, m)}
<1>1. 0 \in P
  <2>1. Is([n \in 0 .. 0 |-> {b}], 0)
    OBVIOUS
  <2> QED
    BY <2>1
<1>2. ASSUME NEW m \in Nat, m \in P
      PROVE  m + 1 \in P
  <2>1. PICK f : Is(f, m)
    BY <1>2
  <2> DEFINE g == [n \in 0 .. m + 1 |-> IF n <= m THEN f[n] ELSE Grown(f[m], members, keys)]
  <2>2. \A n \in 0 .. m : g[n] = f[n]
    OBVIOUS
  <2>3. ASSUME NEW n \in 0 .. m + 1
        PROVE  g[n] = IF n = 0 THEN {b} ELSE Grown(g[n - 1], members, keys)
    <3>1. CASE n = 0
      <4>1. f[0] = {b}
        BY <2>1
      <4> QED
        BY <3>1, <4>1
    <3>2. CASE n # 0 /\ n <= m
      <4>1. n - 1 \in 0 .. m /\ n \in 0 .. m
        BY <3>2
      <4>2. f[n] = Grown(f[n - 1], members, keys)
        BY <2>1, <3>2, <4>1
      <4> QED
        BY <2>2, <3>2, <4>1, <4>2
    <3>3. CASE n = m + 1
      <4>1. g[n] = Grown(f[m], members, keys) /\ n - 1 = m /\ n # 0 /\ m \in 0 .. m
        BY <3>3
      <4> HIDE DEF g
      <4> QED
        BY <2>2, <4>1
    <3> QED
      BY <3>1, <3>2, <3>3
  <2>4. g = [n \in 0 .. m + 1 |-> IF n = 0 THEN {b} ELSE Grown(g[n - 1], members, keys)]
    <3>1. g = [n \in 0 .. m + 1 |-> g[n]]
      OBVIOUS
    <3> HIDE DEF g
    <3> QED
      BY <2>3, <3>1
  <2>5. Is(g, m + 1)
    BY <2>4
  <2> HIDE DEF g, Is, AreRounds
  <2> QED
    BY <2>5
<1>3. n0 \in P
  <2> HIDE DEF P
  <2> QED
    BY <1>1, <1>2, Induction
<1> QED
  BY <1>3

(* What the search finds is the least set with b that keys do not lead out *)
(* of: after as many rounds as there are members a round adds nothing.     *)
LEMMA ComponentIs ==
  ASSUME NEW members, IsFiniteSet(members), NEW b \in members, NEW keys
  PROVE  /\ b \in Component(b, members, keys)
         /\ Component(b, members, keys) \subseteq members
         /\ \A e \in Component(b, members, keys) : \A d \in members :
              {d, e} \in keys => d \in Component(b, members, keys)
         /\ \A S : b \in S /\ (\A e \in S : \A d \in members : {d, e} \in keys => d \in S)
                   => Component(b, members, keys) \subseteq S
<1> DEFINE n0 == Cardinality(members)
           Is(f) == AreRounds(f, b, members, keys, n0)
           R == CHOOSE f : Is(f)
<1>1. n0 \in Nat
  BY FS_CardinalityType
<1>2. Is(R)
  <2>1. \E f : Is(f)
    <3> HIDE DEF n0
    <3> QED
      BY <1>1, Rounds
  <2> HIDE DEF Is
  <2> QED
    BY <2>1
<1>3. Component(b, members, keys) = R[n0]
  BY DEF Component, Grown, AreRounds
<1> HIDE DEF R
<1>4. R[0] = {b} /\ \A n \in 0 .. n0 - 1 : R[n + 1] = Grown(R[n], members, keys)
  <2> HIDE DEF n0
  <2>1. \A n \in 0 .. n0 : R[n] = IF n = 0 THEN {b} ELSE Grown(R[n - 1], members, keys)
    BY <1>2 DEF AreRounds
  <2>2. 0 \in 0 .. n0 /\ \A n \in 0 .. n0 - 1 : n + 1 \in 0 .. n0 /\ n + 1 # 0 /\ n + 1 - 1 = n
    BY <1>1
  <2> QED
    BY <2>1, <2>2
<1> DEFINE Same(n) == Grown(R[n], members, keys) = R[n]
           P == {n \in Nat : n <= n0 => /\ R[n] \subseteq members /\ b \in R[n]
                                        /\ Same(n) \/ Cardinality(R[n]) >= n + 1}
<1>5. 0 \in P
  <2>1. Cardinality({b}) = 1
    BY FS_Singleton
  <2>2. R[0] \subseteq members /\ b \in R[0] /\ Cardinality(R[0]) >= 0 + 1
    BY <1>4, <2>1
  <2> HIDE DEF Same, n0
  <2> QED
    BY <2>2
<1>6. ASSUME NEW n \in Nat, n \in P
      PROVE  n + 1 \in P
  <2> SUFFICES ASSUME n + 1 <= n0
               PROVE  /\ R[n + 1] \subseteq members /\ b \in R[n + 1]
                      /\ Same(n + 1) \/ Cardinality(R[n + 1]) >= n + 1 + 1
    OBVIOUS
  <2> HIDE DEF Same
  <2>1. /\ R[n] \subseteq members /\ b \in R[n] /\ (Same(n) \/ Cardinality(R[n]) >= n + 1)
        /\ R[n + 1] = Grown(R[n], members, keys)
    <3>1. n <= n0 /\ n \in 0 .. n0 - 1
      BY <1>1
    <3> HIDE DEF n0
    <3> QED
      BY <1>4, <1>6, <3>1
  <2>2. R[n] \subseteq R[n + 1] /\ R[n + 1] \subseteq members
    <3>1. R[n + 1] = R[n] \cup {d \in members : \E e \in R[n] : {d, e} \in keys}
      BY <2>1 DEF Grown
    <3> QED
      BY <2>1, <3>1
  <2>3. CASE Same(n)
    <3>1. R[n + 1] = R[n]
      BY <2>1, <2>3 DEF Same
    <3>2. Same(n + 1)
      BY <2>3, <3>1 DEF Same
    <3> QED
      BY <2>1, <2>2, <3>2
  <2>4. CASE ~Same(n)
    <3>1. R[n] # R[n + 1] /\ Cardinality(R[n]) >= n + 1
      BY <2>1, <2>4 DEF Same
    <3>2. IsFiniteSet(R[n + 1])
      BY <2>2, FS_Subset
    <3>3. IsFiniteSet(R[n]) /\ Cardinality(R[n]) <= Cardinality(R[n + 1])
          /\ Cardinality(R[n + 1]) # Cardinality(R[n])
      BY <2>2, <3>1, <3>2, FS_Subset
    <3>4. Cardinality(R[n]) \in Nat /\ Cardinality(R[n + 1]) \in Nat
      BY <3>2, <3>3, FS_CardinalityType
    <3>5. Cardinality(R[n + 1]) >= n + 1 + 1
      BY <3>1, <3>3, <3>4
    <3> QED
      BY <2>1, <2>2, <3>5
  <2> QED
    BY <2>3, <2>4
<1>7. n0 \in P
  <2> HIDE DEF P, n0
  <2> QED
    BY <1>1, <1>5, <1>6, Induction
<1>8. R[n0] \subseteq members /\ b \in R[n0] /\ Same(n0)
  <2>1. R[n0] \subseteq members /\ b \in R[n0] /\ (Same(n0) \/ Cardinality(R[n0]) >= n0 + 1)
    BY <1>1, <1>7
  <2>2. Cardinality(R[n0]) <= n0 /\ Cardinality(R[n0]) \in Nat
    BY <2>1, FS_Subset, FS_CardinalityType
  <2> HIDE DEF n0
  <2> QED
    BY <1>1, <2>1, <2>2
<1>9. ASSUME NEW S, b \in S, \A e \in S : \A d \in members : {d, e} \in keys => d \in S
      PROVE  R[n0] \subseteq S
  <2> DEFINE Q == {n \in Nat : n <= n0 => R[n] \subseteq S}
  <2>1. 0 \in Q
    BY <1>4, <1>9
  <2>2. ASSUME NEW n \in Nat, n \in Q
        PROVE  n + 1 \in Q
    <3> SUFFICES ASSUME n + 1 <= n0 PROVE R[n + 1] \subseteq S
      OBVIOUS
    <3>1. n \in 0 .. n0 - 1 /\ n <= n0
      BY <1>1
    <3> HIDE DEF n0
    <3>2. R[n + 1] = Grown(R[n], members, keys) /\ R[n] \subseteq S
      BY <1>4, <2>2, <3>1
    <3> QED
      BY <1>9, <3>2 DEF Grown
  <2>3. n0 \in Q
    <3> HIDE DEF Q, n0
    <3> QED
      BY <1>1, <2>1, <2>2, Induction
  <2> QED
    BY <1>1, <2>3
<1>10. \A e \in R[n0] : \A d \in members : {d, e} \in keys => d \in R[n0]
  BY <1>8 DEF Grown
<1> HIDE DEF n0
<1> QED
  BY <1>3, <1>8, <1>9, <1>10

(* Two bodies of a component have the same component.                      *)
LEMMA ComponentsAgree ==
  ASSUME NEW members, IsFiniteSet(members), NEW b \in members, NEW keys,
         NEW d \in Component(b, members, keys)
  PROVE  Component(d, members, keys) = Component(b, members, keys)
<1> DEFINE C(e) == Component(e, members, keys)
<1>1. /\ d \in members /\ b \in C(b) /\ C(b) \subseteq members
      /\ \A e \in C(b) : \A x \in members : {x, e} \in keys => x \in C(b)
      /\ \A S : b \in S /\ (\A e \in S : \A x \in members : {x, e} \in keys => x \in S)
                => C(b) \subseteq S
  BY ComponentIs
<1>2. /\ d \in C(d)
      /\ \A e \in C(d) : \A x \in members : {x, e} \in keys => x \in C(d)
      /\ \A S : d \in S /\ (\A e \in S : \A x \in members : {x, e} \in keys => x \in S)
                => C(d) \subseteq S
  BY <1>1, ComponentIs
<1> HIDE DEF C
<1>3. C(d) \subseteq C(b)
  <2>1. d \in C(b)
    BY DEF C
  <2> QED
    BY <1>1, <1>2, <2>1
<1>4. b \in C(d)
  <2> SUFFICES ASSUME b \notin C(d) PROVE FALSE
    OBVIOUS
  <2> DEFINE S == members \ C(d)
  <2>1. ASSUME NEW e \in S, NEW x \in members, {x, e} \in keys
        PROVE  x \in S
    <3>1. {e, x} \in keys
      <4>1. {e, x} = {x, e}
        OBVIOUS
      <4> QED
        BY <2>1, <4>1
    <3> QED
      BY <1>2, <3>1
  <2>2. b \in S
    OBVIOUS
  <2> HIDE DEF S
  <2>3. C(b) \subseteq S
    BY <1>1, <2>1, <2>2
  <2> QED
    BY <1>2, <2>3 DEF S, C
<1>5. C(b) \subseteq C(d)
  BY <1>1, <1>2, <1>4
<1> QED
  BY <1>3, <1>5 DEF C

--------------------------------------------------------------------------------
(* The slots of contacts *)

(* The doubled length reaches any number of contacts the slots allow.      *)
LEMMA LengthReaches ==
  ASSUME NEW count_max \in Nat, count_max <= Cardinality(Slots) + 1
  PROVE  Length(count_max) \in Nat /\ Length(count_max) >= count_max
<1> DEFINE n0 == Cardinality(Slots)
           Is(f, m) == f = [n \in 0 .. m |-> IF n = 0 THEN InitialSize ELSE 2 * f[n - 1]]
           P == {m \in Nat : \E f : Is(f, m)}
           R == CHOOSE f : Is(f, n0)
<1>1. n0 \in Nat
  <2>1. IsFiniteSet(Slots)
    BY Sizes, FS_Interval
  <2> QED
    BY <2>1, FS_CardinalityType
<1>2. 0 \in P
  <2>1. Is([n \in 0 .. 0 |-> InitialSize], 0)
    OBVIOUS
  <2> QED
    BY <2>1
<1>3. ASSUME NEW m \in Nat, m \in P
      PROVE  m + 1 \in P
  <2>1. PICK f : Is(f, m)
    BY <1>3
  <2> DEFINE g == [n \in 0 .. m + 1 |-> IF n <= m THEN f[n] ELSE 2 * f[m]]
  <2>2. \A n \in 0 .. m : g[n] = f[n]
    OBVIOUS
  <2>3. ASSUME NEW n \in 0 .. m + 1
        PROVE  g[n] = IF n = 0 THEN InitialSize ELSE 2 * g[n - 1]
    <3>1. CASE n = 0
      <4>1. f[0] = InitialSize
        BY <2>1
      <4> QED
        BY <3>1, <4>1
    <3>2. CASE n # 0 /\ n <= m
      <4>1. n - 1 \in 0 .. m /\ n \in 0 .. m
        BY <3>2
      <4>2. f[n] = 2 * f[n - 1]
        BY <2>1, <3>2, <4>1
      <4> QED
        BY <2>2, <3>2, <4>1, <4>2
    <3>3. CASE n = m + 1
      <4>1. g[n] = 2 * f[m] /\ n - 1 = m /\ n # 0 /\ m \in 0 .. m
        BY <3>3
      <4> HIDE DEF g
      <4> QED
        BY <2>2, <4>1
    <3> QED
      BY <3>1, <3>2, <3>3
  <2>4. Is(g, m + 1)
    <3>1. g = [n \in 0 .. m + 1 |-> g[n]]
      OBVIOUS
    <3> HIDE DEF g
    <3> QED
      BY <2>3, <3>1
  <2> HIDE DEF g, Is
  <2> QED
    BY <2>4
<1>4. Is(R, n0)
  <2>1. n0 \in P
    <3> HIDE DEF P, n0
    <3> QED
      BY <1>1, <1>2, <1>3, Induction
  <2>2. \E f : Is(f, n0)
    BY <2>1
  <2> HIDE DEF Is
  <2> QED
    BY <2>2
<1>5. Length(count_max) = Min({l \in Range(R) : l >= count_max})
  BY DEF Length
<1> HIDE DEF R
<1>6. R[0] = InitialSize /\ \A n \in 0 .. n0 - 1 : R[n + 1] = 2 * R[n]
  <2> HIDE DEF n0
  <2>1. \A n \in 0 .. n0 : R[n] = IF n = 0 THEN InitialSize ELSE 2 * R[n - 1]
    BY <1>4
  <2>2. 0 \in 0 .. n0 /\ \A n \in 0 .. n0 - 1 : n + 1 \in 0 .. n0 /\ n + 1 # 0 /\ n + 1 - 1 = n
    BY <1>1
  <2> QED
    BY <2>1, <2>2
<1> DEFINE Q == {n \in Nat : n <= n0 => R[n] \in Nat /\ R[n] >= n + 1}
<1>7. \A n \in Nat : n \in Q
  <2>1. 0 \in Q
    BY <1>6, Sizes
  <2>2. ASSUME NEW n \in Nat, n \in Q
        PROVE  n + 1 \in Q
    <3> SUFFICES ASSUME n + 1 <= n0 PROVE R[n + 1] \in Nat /\ R[n + 1] >= n + 1 + 1
      OBVIOUS
    <3>1. n \in 0 .. n0 - 1 /\ n <= n0
      BY <1>1
    <3> HIDE DEF n0
    <3>2. R[n + 1] = 2 * R[n] /\ R[n] \in Nat /\ R[n] >= n + 1
      BY <1>6, <2>2, <3>1
    <3> QED
      BY <3>2
  <2> HIDE DEF Q, n0
  <2> QED
    BY <2>1, <2>2, Induction
<1>8. \A n \in 0 .. n0 : R[n] \in Nat /\ R[n] >= n + 1
  <2> HIDE DEF n0
  <2> QED
    BY <1>1, <1>7
<1>9. DOMAIN R = 0 .. n0 /\ n0 \in 0 .. n0
  BY <1>1, <1>4
<1>10. Range(R) \in SUBSET Nat /\ R[n0] \in Range(R) /\ R[n0] >= n0 + 1 /\ R[n0] \in Nat
  <2> HIDE DEF n0
  <2> QED
    BY <1>8, <1>9 DEF Range
<1> DEFINE S == {l \in Range(R) : l >= count_max}
<1>11. S \in SUBSET Nat /\ S # {}
  <2>1. R[n0] >= count_max
    BY <1>1, <1>10
  <2> QED
    BY <1>10, <2>1
<1>12. Min(S) \in S
  <2> HIDE DEF S
  <2> QED
    BY <1>11, LeastOf
<1> QED
  BY <1>5, <1>11, <1>12

(* The keys are finitely many.                                             *)
LEMMA KeysFinite ==
  ASSUME NEW pairs \in SUBSET Keys
  PROVE  IsFiniteSet(pairs)
<1>1. IsFiniteSet(Bodies)
  BY DynamicsAssumption, FS_Union DEF Bodies
<1>2. IsFiniteSet(SUBSET Bodies)
  BY <1>1, FS_SUBSET
<1>3. pairs \subseteq SUBSET Bodies
  BY DEF Keys
<1> QED
  BY <1>2, <1>3, FS_Subset

(* The pairs of a collision detection have the ranks from 1 on.            *)
LEMMA PairOfRank ==
  ASSUME NEW pairs \in SUBSET Keys, NEW r \in 1 .. Cardinality(pairs)
  PROVE  \E p \in pairs : PairRank(p, pairs) = r
<1> DEFINE n == Cardinality(pairs)
           UpTo(p) == {q \in pairs : \/ Min(q) < Min(p)
                                     \/ Min(q) = Min(p) /\ Max(q) <= Max(p)}
           rank == [p \in pairs |-> Cardinality(UpTo(p))]
<1>1. IsFiniteSet(pairs) /\ n \in Nat
  BY KeysFinite, FS_CardinalityType
<1>2. \A p \in pairs : Min(p) \in Nat /\ Max(p) \in Nat /\ p = {Min(p), Max(p)}
  BY KeyPair, Sizes
<1>3. \A p \in pairs : UpTo(p) \subseteq pairs /\ p \in UpTo(p)
  BY <1>2
<1>4. \A p \in pairs : rank[p] \in 1 .. n
  <2> TAKE p \in pairs
  <2>1. IsFiniteSet(UpTo(p)) /\ Cardinality(UpTo(p)) <= n
    <3> HIDE DEF UpTo
    <3> QED
      BY <1>1, <1>3, FS_Subset
  <2>2. Cardinality(UpTo(p)) \in Nat /\ Cardinality(UpTo(p)) # 0
    <3> HIDE DEF UpTo
    <3> QED
      BY <1>3, <2>1, FS_CardinalityType, FS_EmptySet
  <2> HIDE DEF UpTo, n
  <2> QED
    BY <1>1, <2>1, <2>2
<1>5. ASSUME NEW p \in pairs, NEW q \in pairs, p # q, p \in UpTo(q)
      PROVE  Cardinality(UpTo(p)) # Cardinality(UpTo(q))
  <2>1. Min(p) < Min(q) \/ (Min(p) = Min(q) /\ Max(p) < Max(q))
    <3>1. ~(Min(p) = Min(q) /\ Max(p) = Max(q))
      BY <1>2, <1>5
    <3> QED
      BY <1>2, <1>5, <3>1
  <2>2. q \notin UpTo(p) /\ q \in UpTo(q)
    BY <1>2, <2>1
  <2>3. UpTo(p) \subseteq UpTo(q)
    BY <1>2, <2>1
  <2>4. IsFiniteSet(UpTo(q))
    BY <1>1, <1>3, FS_Subset
  <2> HIDE DEF UpTo
  <2> QED
    BY <2>2, <2>3, <2>4, FS_Subset
<1>6. \A p, q \in pairs : p \in UpTo(q) \/ q \in UpTo(p)
  BY <1>2
<1>7. \A p, q \in pairs : rank[p] = rank[q] => p = q
  <2> HIDE DEF UpTo
  <2> QED
    BY <1>5, <1>6
<1>8. rank \in Injection(pairs, 1 .. n)
  <2>1. rank \in [pairs -> 1 .. n]
    <3> HIDE DEF n, UpTo
    <3> QED
      BY <1>4
  <2> HIDE DEF n, rank
  <2> QED
    BY <1>7, <2>1 DEF Injection, IsInjective
<1>9. IsFiniteSet(1 .. n) /\ Cardinality(1 .. n) = n
  <2>1. IsFiniteSet(1 .. n) /\ Cardinality(1 .. n) = IF 1 > n THEN 0 ELSE n - 1 + 1
    BY <1>1, FS_Interval
  <2> HIDE DEF n
  <2> QED
    BY <1>1, <2>1
<1>10. rank \in Surjection(pairs, 1 .. n)
  <2>1. Cardinality(pairs) = Cardinality(1 .. n)
    BY <1>9
  <2> HIDE DEF n, rank
  <2> QED
    BY <1>8, <1>9, <2>1, FS_Injection
<1>11. \E p \in pairs : rank[p] = r
  <2>1. r \in 1 .. n
    OBVIOUS
  <2> HIDE DEF n, rank
  <2> QED
    BY <1>10, <2>1 DEF Surjection
<1> QED
  BY <1>11 DEF PairRank

(* Free slots have ranks from 1 on, in their order.                        *)
LEMMA FreeRanks ==
  ASSUME NEW c \in Slots \ Contacts
  PROVE  /\ SlotRank(c) \in Nat /\ SlotRank(c) >= 1
         /\ \A d \in Slots \ Contacts : d <= c => SlotRank(d) <= SlotRank(c)
<1> DEFINE UpTo(d) == {e \in Slots \ Contacts : e <= d}
<1>1. Slots \subseteq Nat /\ IsFiniteSet(Slots)
  BY Sizes, FS_Interval
<1>2. \A d : UpTo(d) \subseteq Slots
  OBVIOUS
<1>3. \A d : IsFiniteSet(UpTo(d)) /\ Cardinality(UpTo(d)) \in Nat
  <2> HIDE DEF UpTo
  <2> QED
    BY <1>1, <1>2, FS_Subset, FS_CardinalityType
<1>4. c \in UpTo(c)
  BY <1>1
<1>5. \A d \in Slots \ Contacts : d <= c => UpTo(d) \subseteq UpTo(c)
  <2> SUFFICES ASSUME NEW d \in Slots \ Contacts, d <= c, NEW e \in UpTo(d)
               PROVE  e \in UpTo(c)
    OBVIOUS
  <2>1. c \in Nat /\ d \in Nat /\ e \in Nat /\ e <= d
    BY <1>1
  <2> QED
    BY <2>1
<1>6. Cardinality(UpTo(c)) # 0
  <2> HIDE DEF UpTo
  <2> QED
    BY <1>3, <1>4, FS_EmptySet
<1>7. \A d \in Slots \ Contacts : d <= c => Cardinality(UpTo(d)) <= Cardinality(UpTo(c))
  <2> HIDE DEF UpTo
  <2> QED
    BY <1>3, <1>5, FS_Subset
<1>8. \A d : SlotRank(d) = Cardinality(UpTo(d))
  BY DEF SlotRank
<1> HIDE DEF UpTo
<1> QED
  BY <1>3, <1>6, <1>7, <1>8

--------------------------------------------------------------------------------
(* Splitting islands *)

Records == [flags : SUBSET Flags, bodies : SUBSET Dynamic, contacts : SUBSET Slots]

(* The situation in which the islands I are split: of a partition of B0    *)
(* under the contacts of key, the bodies outside B are gone, and so are    *)
(* the contacts D; what remains is isl, under the contacts of k.           *)
Splitting(B0, B, D, I, isl, k, removed) ==
  /\ B0 \subseteq Dynamic /\ B \subseteq B0 /\ removed \cap B = {}
  /\ I \subseteq Dynamic /\ D \subseteq Slots
  /\ island_index \in [Bodies -> Dynamic \cup {ISLAND_STATIC, ISLAND_NULL}]
  /\ island \in [Dynamic -> Records] /\ isl \in [Dynamic -> Records]
  /\ key \in [Slots -> Keys \cup {{}}]
  /\ Partition(island_index, island, B0, key)
  /\ k = [c \in Slots |-> IF c \in D THEN {} ELSE key[c]]
  /\ \A i \in Dynamic : /\ isl[i].bodies = island[i].bodies \cap B
                        /\ isl[i].contacts = island[i].contacts \ D
                        /\ i \notin I /\ isl[i].bodies = {} => isl[i] = Unallocated
  /\ \A b \in B0 \ B : island_index[b] \in I
  /\ \A c \in Slots : key[c] \cap Dynamic \subseteq B0 /\ k[c] \cap Dynamic \subseteq B
  /\ \A c \in D : key[c] \subseteq Dynamic => \A b \in key[c] : island_index[b] \in I
  /\ \A c \in Slots : k[c] # {} => InFrame(c)

Parts(I, isl) == UNION {isl[i].bodies : i \in I}
Piece(b, isl, k) == Component(b, isl[island_index[b]].bodies, Range(k))
NewNames(I, isl, k) == [b \in Parts(I, isl) |-> Min(Piece(b, isl, k))]

(* A contact between two bodies is the pair of them.                       *)
LEMMA ContactPair ==
  ASSUME NEW k \in [Slots -> Keys \cup {{}}], NEW c \in Slots,
         NEW b \in k[c], NEW d \in k[c], b # d
  PROVE  k[c] = {b, d} /\ {b, d} \in Range(k)
<1>1. k[c] \in Keys
  OBVIOUS
<1>2. PICK x \in Bodies, y \in Bodies : k[c] = {x, y}
  BY <1>1 DEF Keys
<1>3. k[c] = {b, d}
  BY <1>2
<1> QED
  BY <1>3 DEF Range

(* What is in the islands to split, and what is not.                       *)
LEMMA PartsAre ==
  ASSUME NEW B0, NEW B, NEW D, NEW I, NEW isl, NEW k, NEW removed,
         Splitting(B0, B, D, I, isl, k, removed)
  PROVE  /\ k \in [Slots -> Keys \cup {{}}]
         /\ \A b \in Parts(I, isl) :
              /\ b \in B /\ b \in Dynamic /\ island_index[b] \in I
              /\ b \in isl[island_index[b]].bodies
              /\ isl[island_index[b]].bodies \subseteq Parts(I, isl)
              /\ IsFiniteSet(isl[island_index[b]].bodies)
              /\ \A d \in isl[island_index[b]].bodies : island_index[d] = island_index[b]
         /\ \A b \in B : /\ island_index[b] \in Dynamic
                         /\ b \in isl[island_index[b]].bodies
                         /\ island_index[b] \in I <=> b \in Parts(I, isl)
         /\ \A i \in Dynamic : \A b \in isl[i].bodies : b \in B /\ island_index[b] = i
         /\ \A i \in Dynamic \ I : isl[i].bodies = island[i].bodies
<1>1. /\ \A b \in B0 : island_index[b] \in Dynamic /\ b \in island[island_index[b]].bodies
      /\ \A i \in Dynamic : \A b \in island[i].bodies : b \in B0 /\ island_index[b] = i
      /\ \A i \in Dynamic : isl[i].bodies = island[i].bodies \cap B
      /\ I \subseteq Dynamic /\ B \subseteq B0 /\ B0 \subseteq Dynamic
      /\ \A b \in B0 \ B : island_index[b] \in I
  BY DEF Splitting, Partition, Housed
<1>2. k \in [Slots -> Keys \cup {{}}]
  BY DEF Splitting
<1>3. \A i \in Dynamic : \A b \in isl[i].bodies : b \in B /\ island_index[b] = i
  BY <1>1
<1>4. \A b \in B : /\ island_index[b] \in Dynamic /\ b \in isl[island_index[b]].bodies
                   /\ island_index[b] \in I <=> b \in Parts(I, isl)
  BY <1>1, <1>3 DEF Parts
<1>5. \A b \in Parts(I, isl) : b \in B /\ b \in Dynamic /\ island_index[b] \in I
  BY <1>1, <1>3 DEF Parts
<1>6. ASSUME NEW b \in Parts(I, isl)
      PROVE  /\ isl[island_index[b]].bodies \subseteq Parts(I, isl)
             /\ IsFiniteSet(isl[island_index[b]].bodies)
  <2>1. isl[island_index[b]].bodies \subseteq Parts(I, isl)
    BY <1>5 DEF Parts
  <2>2. isl[island_index[b]].bodies \subseteq Dynamic
    BY <2>1, <1>5
  <2> QED
    BY <2>1, <2>2, Sizes, FS_Subset
<1>7. ASSUME NEW i \in Dynamic \ I
      PROVE  isl[i].bodies = island[i].bodies
  <2>1. \A b \in island[i].bodies : b \in B0 /\ island_index[b] \notin I
    BY <1>1
  <2>2. island[i].bodies \subseteq B
    BY <1>1, <2>1
  <2> QED
    BY <1>1, <2>2
<1> QED
  BY <1>1, <1>2, <1>3, <1>4, <1>5, <1>6, <1>7

(* The pieces of an island: each body is in one, contacts do not leave it, *)
(* and its bodies agree on it and on its name.                             *)
LEMMA PiecesAre ==
  ASSUME NEW B0, NEW B, NEW D, NEW I, NEW isl, NEW k, NEW removed,
         Splitting(B0, B, D, I, isl, k, removed), NEW b \in Parts(I, isl)
  PROVE  /\ b \in Piece(b, isl, k)
         /\ Piece(b, isl, k) \subseteq isl[island_index[b]].bodies
         /\ \A e \in Piece(b, isl, k) : \A d \in isl[island_index[b]].bodies :
              {d, e} \in Range(k) => d \in Piece(b, isl, k)
         /\ \A S \in SUBSET Dynamic : Closed(S, k) /\ b \in S => Piece(b, isl, k) \subseteq S
         /\ \A d \in Piece(b, isl, k) : Piece(d, isl, k) = Piece(b, isl, k)
         /\ Min(Piece(b, isl, k)) \in Piece(b, isl, k)
<1> DEFINE M == isl[island_index[b]].bodies
           C == Component(b, M, Range(k))
<1>1. /\ k \in [Slots -> Keys \cup {{}}] /\ b \in M /\ IsFiniteSet(M)
      /\ \A d \in M : island_index[d] = island_index[b]
      /\ M \subseteq Parts(I, isl) /\ Parts(I, isl) \subseteq Dynamic
  BY PartsAre
<1>2. Piece(b, isl, k) = C
  BY DEF Piece
<1>3. /\ b \in C /\ C \subseteq M
      /\ \A e \in C : \A d \in M : {d, e} \in Range(k) => d \in C
      /\ \A S : b \in S /\ (\A e \in S : \A d \in M : {d, e} \in Range(k) => d \in S)
                => C \subseteq S
  <2> HIDE DEF M
  <2>1. IsFiniteSet(M) /\ b \in M
    BY <1>1
  <2>2. b \in C /\ C \subseteq M
    BY <2>1, ComponentIs
  <2>3. \A e \in C : \A d \in M : {d, e} \in Range(k) => d \in C
    BY <2>1, ComponentIs
  <2>4. ASSUME NEW S, b \in S, \A e \in S : \A d \in M : {d, e} \in Range(k) => d \in S
        PROVE  C \subseteq S
    BY <2>1, <2>4, ComponentIs
  <2> QED
    BY <2>2, <2>3, <2>4
<1>4. \A d \in C : Component(d, M, Range(k)) = C
  <2> HIDE DEF M
  <2> QED
    BY <1>1, ComponentsAgree
<1>5. \A d \in C : Piece(d, isl, k) = C
  BY <1>1, <1>3, <1>4 DEF Piece
<1>6. Min(C) \in C
  <2> HIDE DEF C
  <2>1. C \in SUBSET Nat /\ C # {}
    BY <1>1, <1>3, Sizes
  <2> QED
    BY <2>1, LeastOf
<1>7. ASSUME NEW S \in SUBSET Dynamic, Closed(S, k), b \in S
      PROVE  C \subseteq S
  <2>1. ASSUME NEW e \in S, NEW d \in M, {d, e} \in Range(k)
        PROVE  d \in S
    <3>1. PICK c \in Slots : k[c] = {d, e}
      BY <1>1, <2>1 DEF Range
    <3>2. d \in k[c] \cap Dynamic /\ e \in k[c] \cap Dynamic
      BY <1>1, <2>1, <3>1
    <3> QED
      BY <1>7, <3>2 DEF Closed
  <2> HIDE DEF C, M
  <2> QED
    BY <1>3, <1>7, <2>1
<1> HIDE DEF C, M
<1> QED
  BY <1>2, <1>3, <1>5, <1>6, <1>7 DEF M

(* What isdb_SplitIsland makes of the islands: each piece an island, with  *)
(* the flags of a new one; the other islands are left alone.               *)
LEMMA SplitResult ==
  ASSUME NEW B0, NEW B, NEW D, NEW I, NEW isl, NEW k, NEW removed,
         Splitting(B0, B, D, I, isl, k, removed), SplitIslands(I, isl, k, removed)
  PROVE  /\ \A b \in Parts(I, isl) :
              LET m == Min(Piece(b, isl, k))
              IN  /\ m \in Parts(I, isl) /\ island_index'[b] = m
                  /\ island'[m].flags = NewFlags
                  /\ island'[m].bodies = Piece(b, isl, k)
                  /\ \A c : c \in island'[m].contacts <=>
                       /\ \E i \in I : c \in isl[i].contacts
                       /\ InFrame(c)
                       /\ \E x \in k[c] \cap Parts(I, isl) : island_index'[x] = m
         /\ \A b \in B \ Parts(I, isl) : island_index'[b] = island_index[b]
         /\ \A i \in Dynamic :
              \/ \E b \in Parts(I, isl) : i = Min(Piece(b, isl, k))
              \/ i \in I /\ island'[i] = Unallocated
              \/ i \notin I /\ island'[i] = isl[i]
         /\ \A i \in Dynamic \ I : isl[i].bodies # {} => island'[i] = isl[i]
         /\ island_index' \in [Bodies -> Dynamic \cup {ISLAND_STATIC, ISLAND_NULL}]
         /\ island' \in [Dynamic -> Records]
<1> DEFINE P == Parts(I, isl)
           new == NewNames(I, isl, k)
           lists == {c \in UNION {isl[i].contacts : i \in I} : InFrame(c)}
<1>1. /\ island_index' = [b \in Bodies |-> IF b \in removed THEN ISLAND_NULL
                                           ELSE IF b \in P THEN new[b]
                                           ELSE island_index[b]]
      /\ island' =
           [i \in Dynamic |->
              IF i \in Range(new)
                THEN [flags |-> NewFlags,
                      bodies |-> {b \in P : new[b] = i},
                      contacts |-> {c \in lists : \E b \in k[c] \cap P : new[b] = i}]
              ELSE IF i \in I THEN Unallocated ELSE isl[i]]
  BY DEF SplitIslands, NewNames, Parts, Piece
<1>2. /\ \A b \in P : b \in B /\ b \in Dynamic /\ island_index[b] \in I
                      /\ isl[island_index[b]].bodies \subseteq P
      /\ k \in [Slots -> Keys \cup {{}}]
  BY PartsAre
<1>3. /\ B \subseteq Dynamic /\ removed \cap B = {} /\ I \subseteq Dynamic
      /\ isl \in [Dynamic -> Records] /\ Dynamic \subseteq Bodies
      /\ island_index \in [Bodies -> Dynamic \cup {ISLAND_STATIC, ISLAND_NULL}]
      /\ Named(island) /\ \A i \in Dynamic \ I : isl[i].bodies = island[i].bodies
  <2>1. Dynamic \subseteq Bodies
    BY DEF Bodies
  <2>2. \A i \in Dynamic \ I : isl[i].bodies = island[i].bodies
    BY PartsAre
  <2>3. /\ B \subseteq Dynamic /\ removed \cap B = {} /\ I \subseteq Dynamic
        /\ isl \in [Dynamic -> Records] /\ Partition(island_index, island, B0, key)
        /\ island_index \in [Bodies -> Dynamic \cup {ISLAND_STATIC, ISLAND_NULL}]
    BY DEF Splitting
  <2> QED
    BY <2>1, <2>2, <2>3 DEF Partition
<1>4. \A b \in P : new[b] = Min(Piece(b, isl, k)) /\ new[b] \in Piece(b, isl, k)
                   /\ Piece(b, isl, k) \subseteq P
  <2>1. \A b \in P : new[b] = Min(Piece(b, isl, k))
    BY DEF NewNames
  <2>2. \A b \in P : Min(Piece(b, isl, k)) \in Piece(b, isl, k)
                     /\ Piece(b, isl, k) \subseteq isl[island_index[b]].bodies
    BY PiecesAre
  <2> HIDE DEF new
  <2> QED
    BY <1>2, <2>1, <2>2
<1>5. DOMAIN new = P
  BY DEF NewNames
<1>6. \A i : i \in Range(new) <=> \E b \in P : i = new[b]
  <2> HIDE DEF new
  <2> QED
    BY <1>5 DEF Range
<1>7. \A b, d \in P : new[d] = new[b] <=> d \in Piece(b, isl, k)
  <2> SUFFICES ASSUME NEW b \in P, NEW d \in P
               PROVE  new[d] = new[b] <=> d \in Piece(b, isl, k)
    OBVIOUS
  <2>1. ASSUME d \in Piece(b, isl, k) PROVE new[d] = new[b]
    <3>1. Piece(d, isl, k) = Piece(b, isl, k)
      BY <2>1, PiecesAre
    <3> HIDE DEF new
    <3> QED
      BY <1>4, <3>1
  <2>2. ASSUME new[d] = new[b] PROVE d \in Piece(b, isl, k)
    <3>1. new[b] \in Piece(b, isl, k) /\ new[b] \in Piece(d, isl, k)
      <4> HIDE DEF new
      <4> QED
        BY <1>4, <2>2
    <3> HIDE DEF new
    <3>2. /\ Piece(new[b], isl, k) = Piece(b, isl, k)
          /\ Piece(new[b], isl, k) = Piece(d, isl, k)
      BY <3>1, PiecesAre
    <3>3. d \in Piece(d, isl, k)
      BY PiecesAre
    <3> QED
      BY <3>2, <3>3
  <2> QED
    BY <2>1, <2>2
<1> HIDE DEF new
<1>8. \A b \in P : island_index'[b] = new[b]
  BY <1>1, <1>2, <1>3
<1>9. \A b \in B \ P : island_index'[b] = island_index[b]
  BY <1>1, <1>3
<1>10. ASSUME NEW b \in P
       PROVE  /\ new[b] \in P /\ new[b] \in Dynamic
              /\ island'[new[b]].flags = NewFlags
              /\ island'[new[b]].bodies = Piece(b, isl, k)
              /\ \A c : c \in island'[new[b]].contacts <=>
                          /\ \E i \in I : c \in isl[i].contacts
                          /\ InFrame(c)
                          /\ \E x \in k[c] \cap P : island_index'[x] = new[b]
  <2>1. new[b] \in P /\ new[b] \in Dynamic /\ new[b] \in Range(new)
    BY <1>2, <1>4, <1>6
  <2>2. island'[new[b]] = [flags |-> NewFlags, bodies |-> {d \in P : new[d] = new[b]},
                           contacts |-> {c \in lists : \E d \in k[c] \cap P : new[d] = new[b]}]
    BY <1>1, <2>1
  <2>3. {d \in P : new[d] = new[b]} = Piece(b, isl, k)
    BY <1>4, <1>7
  <2>4. \A c : c \in lists <=> (\E i \in I : c \in isl[i].contacts) /\ InFrame(c)
    OBVIOUS
  <2>5. \A c : c \in {e \in lists : \E d \in k[e] \cap P : new[d] = new[b]} <=>
                 /\ \E i \in I : c \in isl[i].contacts
                 /\ InFrame(c)
                 /\ \E x \in k[c] \cap P : island_index'[x] = new[b]
    <3> HIDE DEF lists, P
    <3> QED
      BY <1>8, <2>4
  <2> HIDE DEF lists, P
  <2> QED
    BY <2>1, <2>2, <2>3, <2>5
<1>11. \A i \in Dynamic : \/ \E b \in P : i = new[b]
                          \/ i \in I /\ island'[i] = Unallocated
                          \/ i \notin I /\ island'[i] = isl[i]
  BY <1>1, <1>6
<1>12. ASSUME NEW i \in Dynamic \ I, isl[i].bodies # {}
       PROVE  island'[i] = isl[i]
  <2>1. i \in isl[i].bodies
    BY <1>3, <1>12 DEF Named
  <2>2. island_index[i] = i
    BY <2>1, PartsAre
  <2>3. i \notin P
    BY <1>2, <2>2, <1>12
  <2>4. i \notin Range(new)
    BY <1>4, <1>6, <2>3
  <2> QED
    BY <1>1, <2>4, <1>12
<1>13. island_index' \in [Bodies -> Dynamic \cup {ISLAND_STATIC, ISLAND_NULL}]
  <2>1. \A b \in P : new[b] \in Dynamic
    BY <1>10
  <2> QED
    BY <1>1, <1>3, <2>1
<1>14. island' \in [Dynamic -> Records]
  <2>1. NewFlags \in SUBSET Flags /\ Unallocated \in Records
    BY DEF NewFlags, Flags, Unallocated, Records
  <2>2. lists \in SUBSET Slots
    BY <1>3 DEF Records
  <2>3. P \in SUBSET Dynamic
    BY <1>2
  <2> HIDE DEF lists, P
  <2>4. ASSUME NEW i \in Dynamic
        PROVE  [flags |-> NewFlags, bodies |-> {b \in P : new[b] = i},
                contacts |-> {c \in lists : \E b \in k[c] \cap P : new[b] = i}] \in Records
    BY <2>1, <2>2, <2>3 DEF Records
  <2>5. \A i \in Dynamic : isl[i] \in Records
    BY <1>3
  <2> HIDE DEF Records
  <2> QED
    BY <1>1, <2>1, <2>4, <2>5
<1> HIDE DEF P, lists
<1>15. \A b \in P : LET m == Min(Piece(b, isl, k))
                    IN  /\ m \in P /\ island_index'[b] = m
                        /\ island'[m].flags = NewFlags
                        /\ island'[m].bodies = Piece(b, isl, k)
                        /\ \A c : c \in island'[m].contacts <=>
                             /\ \E i \in I : c \in isl[i].contacts
                             /\ InFrame(c)
                             /\ \E x \in k[c] \cap P : island_index'[x] = m
  BY <1>4, <1>8, <1>10
<1>16. \A i \in Dynamic : \/ \E b \in P : i = Min(Piece(b, isl, k))
                          \/ i \in I /\ island'[i] = Unallocated
                          \/ i \notin I /\ island'[i] = isl[i]
  BY <1>4, <1>11
<1> QED
  BY <1>9, <1>12, <1>13, <1>14, <1>15, <1>16 DEF P

(* The pieces are islands again.                                           *)
LEMMA SplitHoused ==
  ASSUME NEW B0, NEW B, NEW D, NEW I, NEW isl, NEW k, NEW removed,
         Splitting(B0, B, D, I, isl, k, removed), SplitIslands(I, isl, k, removed)
  PROVE  Housed(island_index', island', B) /\ Named(island')
<1> DEFINE P == Parts(I, isl)
<1>1. \A b \in P : LET m == Min(Piece(b, isl, k))
                   IN  /\ m \in P /\ island_index'[b] = m
                       /\ island'[m].bodies = Piece(b, isl, k)
  BY SplitResult
<1>2. \A b \in P : /\ b \in Piece(b, isl, k)
                   /\ Piece(b, isl, k) \subseteq isl[island_index[b]].bodies
                   /\ \A d \in Piece(b, isl, k) : Piece(d, isl, k) = Piece(b, isl, k)
                   /\ Min(Piece(b, isl, k)) \in Piece(b, isl, k)
  BY PiecesAre
<1>3. /\ \A b \in P : /\ b \in B /\ b \in Dynamic
                      /\ isl[island_index[b]].bodies \subseteq P
      /\ \A b \in B : /\ island_index[b] \in Dynamic
                      /\ b \in isl[island_index[b]].bodies
                      /\ island_index[b] \in I <=> b \in P
      /\ \A i \in Dynamic : \A b \in isl[i].bodies : b \in B /\ island_index[b] = i
  BY PartsAre
<1>4. /\ \A b \in B \ P : island_index'[b] = island_index[b]
      /\ \A i \in Dynamic :
           \/ \E b \in P : i = Min(Piece(b, isl, k))
           \/ i \in I /\ island'[i] = Unallocated
           \/ i \notin I /\ island'[i] = isl[i]
      /\ \A i \in Dynamic \ I : isl[i].bodies # {} => island'[i] = isl[i]
  BY SplitResult
<1>5. Named(island) /\ \A i \in Dynamic \ I : isl[i].bodies = island[i].bodies
  <2>1. Named(island)
    BY DEF Splitting, Partition
  <2>2. \A i \in Dynamic \ I : isl[i].bodies = island[i].bodies
    BY PartsAre
  <2> QED
    BY <2>1, <2>2
<1>6. \A i \in Dynamic : i \notin I /\ isl[i].bodies = {} => isl[i] = Unallocated
  BY DEF Splitting
<1> HIDE DEF P
<1>7. ASSUME NEW b \in B
      PROVE  island_index'[b] \in Dynamic /\ b \in island'[island_index'[b]].bodies
  <2>1. CASE b \in P
    BY <1>1, <1>2, <1>3, <2>1
  <2>2. CASE b \notin P
    <3>1. island_index'[b] = island_index[b] /\ island_index[b] \in Dynamic \ I
          /\ b \in isl[island_index[b]].bodies
      BY <1>3, <1>4, <2>2
    <3> QED
      BY <1>4, <3>1
  <2> QED
    BY <2>1, <2>2
<1>8. ASSUME NEW i \in Dynamic
      PROVE  /\ \A b \in island'[i].bodies : b \in B /\ island_index'[b] = i
             /\ island'[i].bodies = {} => island'[i] = Unallocated
             /\ island'[i].bodies # {} => i \in island'[i].bodies
  <2>1. CASE \E x \in P : i = Min(Piece(x, isl, k))
    <3>1. PICK x \in P : i = Min(Piece(x, isl, k))
      BY <2>1
    <3>2. island'[i].bodies = Piece(x, isl, k) /\ i \in Piece(x, isl, k)
          /\ Piece(x, isl, k) \subseteq P
      BY <1>1, <1>2, <1>3, <3>1
    <3>3. \A b \in Piece(x, isl, k) : b \in B /\ island_index'[b] = i
      BY <1>1, <1>2, <1>3, <3>1, <3>2
    <3> QED
      BY <3>2, <3>3
  <2>2. CASE i \in I /\ island'[i] = Unallocated
    BY <2>2 DEF Unallocated
  <2>3. CASE i \notin I /\ island'[i] = isl[i]
    <3>1. \A b \in isl[i].bodies : b \in B /\ island_index'[b] = i
      BY <1>3, <1>4, <2>3
    <3>2. isl[i].bodies # {} => i \in isl[i].bodies
      BY <1>5, <2>3 DEF Named
    <3>3. isl[i].bodies = {} => isl[i] = Unallocated
      BY <1>6, <2>3
    <3> QED
      BY <2>3, <3>1, <3>2, <3>3
  <2> QED
    BY <1>4, <2>1, <2>2, <2>3
<1> QED
  BY <1>7, <1>8 DEF Housed, Named

(* A contact that is left goes with its bodies.                            *)
LEMMA SplitListed ==
  ASSUME NEW B0, NEW B, NEW D, NEW I, NEW isl, NEW k, NEW removed,
         Splitting(B0, B, D, I, isl, k, removed), SplitIslands(I, isl, k, removed)
  PROVE  Listed(island_index', island', k) /\ Together(island_index', k)
<1> DEFINE P == Parts(I, isl)
<1>1. \A b \in P : LET m == Min(Piece(b, isl, k))
                   IN  /\ m \in P /\ island_index'[b] = m
                       /\ \A c : c \in island'[m].contacts <=>
                            /\ \E i \in I : c \in isl[i].contacts
                            /\ InFrame(c)
                            /\ \E x \in k[c] \cap P : island_index'[x] = m
  BY SplitResult
<1>2. /\ \A b \in B \ P : island_index'[b] = island_index[b]
      /\ \A i \in Dynamic :
           \/ \E b \in P : i = Min(Piece(b, isl, k))
           \/ i \in I /\ island'[i] = Unallocated
           \/ i \notin I /\ island'[i] = isl[i]
      /\ \A i \in Dynamic \ I : isl[i].bodies # {} => island'[i] = isl[i]
  BY SplitResult
<1>3. /\ k \in [Slots -> Keys \cup {{}}]
      /\ \A b \in P : b \in B /\ b \in Dynamic /\ island_index[b] \in I
      /\ \A b \in B : /\ island_index[b] \in Dynamic
                      /\ b \in isl[island_index[b]].bodies
                      /\ island_index[b] \in I <=> b \in P
  BY PartsAre
<1>4. /\ k = [c \in Slots |-> IF c \in D THEN {} ELSE key[c]]
      /\ \A i \in Dynamic : isl[i].contacts = island[i].contacts \ D
      /\ \A c \in Slots : k[c] \cap Dynamic \subseteq B
      /\ \A c \in Slots : k[c] # {} => InFrame(c)
      /\ Listed(island_index, island, key) /\ Together(island_index, key)
  BY DEF Splitting, Partition
<1> HIDE DEF P
<1>5. ASSUME NEW c \in Slots, k[c] # {}
      PROVE  c \notin D /\ k[c] = key[c] /\ InFrame(c)
  BY <1>4, <1>5
(* The lists before the split.                                             *)
<1>6. \A c \in Slots : \A i \in Dynamic :
        c \in isl[i].contacts <=> \E b \in k[c] \cap Dynamic : island_index[b] = i
  <2> SUFFICES ASSUME NEW c \in Slots, NEW i \in Dynamic
               PROVE  c \in isl[i].contacts <=>
                        \E b \in k[c] \cap Dynamic : island_index[b] = i
    OBVIOUS
  <2>1. c \in island[i].contacts <=> \E b \in key[c] \cap Dynamic : island_index[b] = i
    BY <1>4 DEF Listed
  <2>2. CASE c \in D
    BY <1>4, <2>2
  <2>3. CASE c \notin D
    BY <1>4, <2>1, <2>3
  <2> QED
    BY <2>2, <2>3
<1>7. ASSUME NEW c \in Slots, NEW b \in k[c] \cap Dynamic
      PROVE  b \in B /\ (b \in P \/ island_index'[b] = island_index[b])
  BY <1>2, <1>4
<1>8. ASSUME NEW c \in Slots, NEW b \in k[c] \cap Dynamic
      PROVE  c \in island'[island_index'[b]].contacts
  <2>1. b \in B /\ c \in isl[island_index[b]].contacts /\ InFrame(c)
    BY <1>3, <1>5, <1>6, <1>7
  <2>2. CASE b \in P
    BY <1>1, <1>3, <2>1, <2>2
  <2>3. CASE b \notin P
    BY <1>2, <1>3, <2>1, <2>3
  <2> QED
    BY <2>2, <2>3
<1>9. ASSUME NEW c \in Slots, NEW i \in Dynamic, c \in island'[i].contacts
      PROVE  \E b \in k[c] \cap Dynamic : island_index'[b] = i
  <2>1. CASE \E x \in P : i = Min(Piece(x, isl, k))
    BY <1>1, <1>3, <1>9, <2>1
  <2>2. CASE i \in I /\ island'[i] = Unallocated
    BY <1>9, <2>2 DEF Unallocated
  <2>3. CASE i \notin I /\ island'[i] = isl[i]
    <3>1. PICK b \in k[c] \cap Dynamic : island_index[b] = i
      BY <1>6, <1>9, <2>3
    <3>2. island_index'[b] = i
      BY <1>3, <1>7, <2>3, <3>1
    <3> QED
      BY <3>2
  <2> QED
    BY <1>2, <2>1, <2>2, <2>3
<1>10. ASSUME NEW c \in Slots, NEW b \in k[c] \cap Dynamic, NEW d \in k[c] \cap Dynamic
       PROVE  island_index'[b] = island_index'[d]
  <2>1. b \in B /\ d \in B /\ island_index[b] = island_index[d]
    BY <1>4, <1>5, <1>7 DEF Together
  <2>2. CASE b = d
    BY <2>2
  <2>3. CASE b # d /\ island_index[b] \in I
    <3>1. {d, b} \in Range(k)
      BY <1>3, <2>3, ContactPair
    <3>2. b \in P /\ d \in P /\ d \in isl[island_index[b]].bodies
      BY <1>3, <2>1, <2>3
    <3>3. d \in Piece(b, isl, k)
      BY <3>1, <3>2, PiecesAre DEF P
    <3>4. Piece(d, isl, k) = Piece(b, isl, k)
      BY <3>2, <3>3, PiecesAre DEF P
    <3> QED
      BY <1>1, <3>2, <3>4
  <2>4. CASE island_index[b] \notin I
    BY <1>2, <1>3, <2>1, <2>4
  <2> QED
    BY <2>2, <2>3, <2>4
<1>11. Listed(island_index', island', k)
  BY <1>8, <1>9 DEF Listed
<1> QED
  BY <1>10, <1>11 DEF Together

(* Each piece is held together by what is left, and so is what was not     *)
(* split: the contacts it lost are not between bodies of an island.        *)
LEMMA SplitJoined ==
  ASSUME NEW B0, NEW B, NEW D, NEW I, NEW isl, NEW k, NEW removed,
         Splitting(B0, B, D, I, isl, k, removed), SplitIslands(I, isl, k, removed),
         NEW i \in Dynamic
  PROVE  Joined(island', k, i)
<1> DEFINE P == Parts(I, isl)
<1>1. \A b \in P : island'[Min(Piece(b, isl, k))].bodies = Piece(b, isl, k)
  BY SplitResult
<1>2. \/ \E b \in P : i = Min(Piece(b, isl, k))
      \/ i \in I /\ island'[i] = Unallocated
      \/ i \notin I /\ island'[i] = isl[i]
  BY SplitResult
<1>3. /\ \A b \in P : isl[island_index[b]].bodies \subseteq P
      /\ \A j \in Dynamic \ I : isl[j].bodies = island[j].bodies
  BY PartsAre
<1>4. /\ k = [c \in Slots |-> IF c \in D THEN {} ELSE key[c]]
      /\ key \in [Slots -> Keys \cup {{}}] /\ B0 \subseteq Dynamic
      /\ \A c \in Slots : key[c] \cap Dynamic \subseteq B0
      /\ \A c \in D : key[c] \subseteq Dynamic => \A b \in key[c] : island_index[b] \in I
      /\ Together(island_index, key) /\ Housed(island_index, island, B0)
      /\ Joined(island, key, i)
  BY DEF Splitting, Partition
<1> SUFFICES ASSUME NEW S \in SUBSET Dynamic, Closed(S, k), S \cap island'[i].bodies # {}
             PROVE  island'[i].bodies \subseteq S
  BY DEF Joined
<1>5. CASE \E x \in P : i = Min(Piece(x, isl, k))
  <2>1. PICK x \in P : i = Min(Piece(x, isl, k))
    BY <1>5
  <2>2. PICK e \in Piece(x, isl, k) : e \in S
    BY <1>1, <2>1
  <2>3. e \in P /\ Piece(e, isl, k) = Piece(x, isl, k)
    BY <1>3, PiecesAre
  <2>4. Piece(e, isl, k) \subseteq S
    BY <2>2, <2>3, PiecesAre
  <2> QED
    BY <1>1, <2>1, <2>3, <2>4
<1>6. CASE i \in I /\ island'[i] = Unallocated
  BY <1>6 DEF Unallocated
<1>7. CASE i \notin I /\ island'[i] = isl[i]
  <2> DEFINE T == S \cap island[i].bodies
  <2>1. T # {} /\ island'[i].bodies = island[i].bodies
    BY <1>3, <1>7
  <2>2. ASSUME NEW c \in Slots, NEW b \in key[c] \cap Dynamic, NEW d \in key[c] \cap Dynamic,
               b \in T
        PROVE  d \in T
    <3>1. island_index[b] = i /\ island_index[d] = i /\ d \in island[i].bodies
      BY <1>4, <2>2 DEF Together, Housed
    <3>2. CASE b = d
      BY <2>2, <3>2
    <3>3. CASE b # d /\ c \in D
      <4>1. key[c] = {b, d}
        <5>1. key[c] \in Keys
          BY <1>4
        <5>2. PICK x \in Bodies, y \in Bodies : key[c] = {x, y}
          BY <5>1 DEF Keys
        <5> QED
          BY <3>3, <5>2
      <4>2. key[c] \subseteq Dynamic
        BY <4>1
      <4>3. island_index[b] \in I
        BY <1>4, <3>3, <4>2
      <4> QED
        BY <1>7, <3>1, <4>3
    <3>4. CASE c \notin D
      <4>1. k[c] = key[c]
        BY <1>4, <3>4
      <4>2. d \in S
        BY <2>2, <4>1 DEF Closed
      <4> QED
        BY <3>1, <4>2
    <3> QED
      BY <3>2, <3>3, <3>4
  <2>3. Closed(T, key)
    BY <2>2 DEF Closed
  <2>4. T \in SUBSET Dynamic /\ T \cap island[i].bodies # {}
    BY <2>1
  <2>5. island[i].bodies \subseteq T
    <3> HIDE DEF T
    <3> QED
      BY <1>4, <2>3, <2>4 DEF Joined
  <2> QED
    BY <2>1, <2>5
<1> QED
  BY <1>2, <1>5, <1>6, <1>7

(* A split makes a partition of what remains.                              *)
LEMMA SplitPartition ==
  ASSUME NEW B0, NEW B, NEW D, NEW I, NEW isl, NEW k, NEW removed,
         Splitting(B0, B, D, I, isl, k, removed), SplitIslands(I, isl, k, removed)
  PROVE  Partition(island_index', island', B, k)
<1>1. \A i \in Dynamic : Joined(island', k, i)
  BY SplitJoined
<1> QED
  BY <1>1, SplitHoused, SplitListed DEF Partition

(* The flags after a split.                                                *)
LEMMA SplitFlags ==
  ASSUME NEW B0, NEW B, NEW D, NEW I, NEW isl, NEW k, NEW removed,
         Splitting(B0, B, D, I, isl, k, removed), SplitIslands(I, isl, k, removed)
  PROVE  /\ \A i \in Dynamic : island'[i].bodies # {} =>
              \/ island'[i].flags = NewFlags
              \/ island'[i] = isl[i] /\ isl[i].bodies = island[i].bodies
         /\ \A b \in B : island_index[b] \in I => island'[island_index'[b]].flags = NewFlags
         /\ \A b \in B : island_index[b] \notin I =>
              /\ island_index'[b] = island_index[b]
              /\ island'[island_index[b]] = isl[island_index[b]]
<1> DEFINE P == Parts(I, isl)
<1>1. /\ \A b \in P : LET m == Min(Piece(b, isl, k))
                      IN  island_index'[b] = m /\ island'[m].flags = NewFlags
      /\ \A b \in B \ P : island_index'[b] = island_index[b]
      /\ \A i \in Dynamic :
           \/ \E b \in P : i = Min(Piece(b, isl, k))
           \/ i \in I /\ island'[i] = Unallocated
           \/ i \notin I /\ island'[i] = isl[i]
      /\ \A i \in Dynamic \ I : isl[i].bodies # {} => island'[i] = isl[i]
  BY SplitResult
<1>2. /\ \A b \in B : /\ island_index[b] \in Dynamic
                      /\ b \in isl[island_index[b]].bodies
                      /\ island_index[b] \in I <=> b \in P
      /\ \A i \in Dynamic \ I : isl[i].bodies = island[i].bodies
  BY PartsAre
<1> HIDE DEF P
<1>3. \A b \in B : island_index[b] \in I => island'[island_index'[b]].flags = NewFlags
  BY <1>1, <1>2
<1>4. \A b \in B : island_index[b] \notin I =>
        /\ island_index'[b] = island_index[b]
        /\ island'[island_index[b]] = isl[island_index[b]]
  BY <1>1, <1>2
<1>5. ASSUME NEW i \in Dynamic, island'[i].bodies # {}
      PROVE  \/ island'[i].flags = NewFlags
             \/ island'[i] = isl[i] /\ isl[i].bodies = island[i].bodies
  <2>1. CASE \E b \in P : i = Min(Piece(b, isl, k))
    BY <1>1, <2>1
  <2>2. CASE i \in I /\ island'[i] = Unallocated
    BY <1>5, <2>2 DEF Unallocated
  <2>3. CASE i \notin I /\ island'[i] = isl[i]
    BY <1>2, <2>3
  <2> QED
    BY <1>1, <2>1, <2>2, <2>3
<1> QED
  BY <1>3, <1>4, <1>5

--------------------------------------------------------------------------------
(* The invariant, used often *)

(* All contacts are settled but in MergeIslands.                           *)
LEMMA AllSettled ==
  ASSUME IInv, pc # "merge"
  PROVE  Settled = key
<1>1. key \in [Slots -> Keys \cup {{}}] /\ contact_new = {}
  BY DEF IInv, TypeOK, BitsFollow
<1> QED
  BY <1>1 DEF Settled

LEMMA NextSettled ==
  ASSUME key' \in [Slots -> Keys \cup {{}}], contact_new' = {}
  PROVE  Settled' = key'
  BY DEF Settled

(* Bodies and islands lead to each other.                                  *)
LEMMA BodiesHoused ==
  ASSUME IInv
  PROVE  /\ \A b \in bodies \cap Dynamic :
              /\ island_index[b] \in Dynamic /\ b \in island[island_index[b]].bodies
              /\ island_index[b] \in Islands
         /\ \A i \in Dynamic : \A b \in island[i].bodies :
              b \in bodies /\ b \in Dynamic /\ island_index[b] = i
         /\ \A i \in Dynamic : island[i].bodies = {} => island[i] = Unallocated
         /\ \A i \in Dynamic : island[i].bodies # {} => i \in island[i].bodies
<1>1. Housed(island_index, island, bodies \cap Dynamic) /\ Named(island)
  BY DEF IInv, Partition
<1> QED
  BY <1>1 DEF Housed, Named, Islands

(* A partition remains if only flags change.                               *)
LEMMA PartitionFrame ==
  ASSUME NEW B \in SUBSET Dynamic, NEW k, Partition(island_index, island, B, k),
         \A b \in Dynamic : island_index'[b] = island_index[b],
         \A i \in Dynamic : /\ island'[i].bodies = island[i].bodies
                            /\ island'[i].contacts = island[i].contacts
                            /\ island[i] = Unallocated => island'[i] = Unallocated
  PROVE  Partition(island_index', island', B, k)
<1>1. Housed(island_index', island', B)
  BY DEF Partition, Housed
<1>2. Named(island')
  BY DEF Partition, Named
<1>3. Listed(island_index', island', k)
  BY DEF Partition, Listed
<1>4. Together(island_index', k)
  BY DEF Partition, Together
<1>5. \A i \in Dynamic : Joined(island', k, i)
  BY DEF Partition, Joined
<1> QED
  BY <1>1, <1>2, <1>3, <1>4, <1>5 DEF Partition

--------------------------------------------------------------------------------
(* Adding a body *)

(* ds_RigidBodyAdd: a body of its own index, which was free.               *)
LEMMA AddBodyStep ==
  ASSUME IInv, NEW b \in Bodies, AddBody(b)
  PROVE  /\ pc = "idle" /\ pc' = "idle" /\ b \notin bodies
         /\ bodies' = bodies \cup {b} /\ added' = added \cup {b}
         /\ rb_awake' = (IF sleep_enabled THEN rb_awake \cup {b} ELSE rb_awake \ {b})
         /\ low_velocity_time' = [low_velocity_time EXCEPT ![b] = 0]
         /\ island_index' = [island_index EXCEPT
                               ![b] = IF b \in Dynamic THEN b ELSE ISLAND_STATIC]
         /\ island' = (IF b \in Dynamic
                         THEN [island EXCEPT ![b] = [flags |-> NewFlags, bodies |-> {b},
                                                     contacts |-> {}]]
                         ELSE island)
         /\ edits' \in 0 .. MaxEdits
         /\ UNCHANGED <<sleep_enabled, key, persistent, bit_count, frame, frame_bit_count,
                        contact_new, moved, failed>>
<1>1. b \in {Min(kind \ bodies) : kind \in {k \in {Dynamic, Static} : ~(k \subseteq bodies)}}
  BY DEF AddBody
<1>2. PICK kind \in {Dynamic, Static} : ~(kind \subseteq bodies) /\ b = Min(kind \ bodies)
  BY <1>1
<1>3. kind \ bodies \in SUBSET Nat /\ kind \ bodies # {}
  BY <1>2, Sizes
<1>4. b \notin bodies
  <2>1. Min(kind \ bodies) \in kind \ bodies
    BY <1>3, LeastOf
  <2> QED
    BY <1>2, <2>1
<1>5. edits' \in 0 .. MaxEdits
  BY Sizes DEF AddBody, Edit, IInv, TypeOK
<1> QED
  BY <1>4, <1>5 DEF AddBody, contactVars

LEMMA AddBodyTypes ==
  ASSUME IInv, NEW b \in Bodies, AddBody(b)
  PROVE  TypeOK'
<1>1. TypeOK
  BY DEF IInv
<1>2. NewFlags \in SUBSET Flags
  BY DEF NewFlags, Flags
<1>3. /\ bodies' \subseteq Bodies /\ rb_awake' \subseteq bodies' /\ moved' \subseteq bodies'
      /\ added' \subseteq bodies' /\ edits' \in 0 .. MaxEdits /\ pc' = "idle"
  BY <1>1, AddBodyStep DEF TypeOK
<1>4. island_index' \in [Bodies -> Dynamic \cup {ISLAND_STATIC, ISLAND_NULL}]
  BY <1>1, AddBodyStep DEF TypeOK
<1>5. low_velocity_time' \in [Bodies -> 0 .. Threshold]
  <2>1. 0 \in 0 .. Threshold
    BY Sizes
  <2> QED
    BY <1>1, <2>1, AddBodyStep DEF TypeOK
<1>6. island' \in [Dynamic -> [flags : SUBSET Flags, bodies : SUBSET Dynamic,
                               contacts : SUBSET Slots]]
  <2>1. CASE b \in Dynamic
    <3>1. [flags |-> NewFlags, bodies |-> {b}, contacts |-> {}]
            \in [flags : SUBSET Flags, bodies : SUBSET Dynamic, contacts : SUBSET Slots]
      BY <1>2, <2>1
    <3> QED
      BY <1>1, <2>1, <3>1, AddBodyStep DEF TypeOK
  <2>2. CASE b \notin Dynamic
    BY <1>1, <2>2, AddBodyStep DEF TypeOK
  <2> QED
    BY <2>1, <2>2
<1>7. /\ sleep_enabled' \in BOOLEAN /\ key' \in [Slots -> Keys \cup {{}}]
      /\ persistent' \subseteq Slots /\ bit_count' \in Nat
      /\ frame' \subseteq Slots /\ frame_bit_count' \in Nat
      /\ contact_new' \subseteq Slots /\ failed' \in BOOLEAN
  BY <1>1, AddBodyStep DEF TypeOK
<1> QED
  BY <1>3, <1>4, <1>5, <1>6, <1>7 DEF TypeOK

LEMMA AddBodyPartition ==
  ASSUME IInv, NEW b \in Bodies, AddBody(b)
  PROVE  Partition(island_index', island', bodies' \cap Dynamic, Settled')
<1> DEFINE B == bodies \cap Dynamic
<1>1. /\ key' = key /\ contact_new' = contact_new /\ b \notin bodies
      /\ bodies' = bodies \cup {b} /\ pc = "idle"
      /\ island_index \in [Bodies -> Dynamic \cup {ISLAND_STATIC, ISLAND_NULL}]
      /\ island \in [Dynamic -> Records] /\ Dynamic \subseteq Bodies
  BY AddBodyStep DEF IInv, TypeOK, Records, Bodies
<1>2. Settled' = Settled /\ Settled = key
  BY <1>1, AllSettled DEF Settled
<1>3. Partition(island_index, island, B, Settled)
  BY DEF IInv
<1>4. \A c \in Slots : Settled[c] \subseteq bodies
  BY <1>2 DEF IInv, BitsFollow
<1>5. CASE b \in Dynamic
  <2>1. /\ island_index' = [island_index EXCEPT ![b] = b]
        /\ island' = [island EXCEPT ![b] = [flags |-> NewFlags, bodies |-> {b},
                                            contacts |-> {}]]
    BY <1>5, AddBodyStep
  <2>2. /\ \A x \in Dynamic : island_index'[x] = IF x = b THEN b ELSE island_index[x]
        /\ \A i \in Dynamic \ {b} : island'[i] = island[i]
        /\ island'[b].bodies = {b} /\ island'[b].contacts = {}
    BY <1>1, <1>5, <2>1
  <2>3. island[b].bodies = {} /\ \A x \in B : island_index[x] # b
    BY <1>1, <1>5, BodiesHoused
  <2>4. bodies' \cap Dynamic = B \cup {b}
    BY <1>1, <1>5
  <2>5. /\ \A x \in B : island_index[x] \in Dynamic /\ x \in island[island_index[x]].bodies
        /\ \A i \in Dynamic : \A x \in island[i].bodies : x \in B /\ island_index[x] = i
        /\ \A i \in Dynamic : island[i].bodies = {} => island[i] = Unallocated
        /\ \A i \in Dynamic : island[i].bodies # {} => i \in island[i].bodies
    BY BodiesHoused
  <2> HIDE DEF B
  <2>6. Housed(island_index', island', B \cup {b})
    <3>1. \A x \in B \cup {b} : /\ island_index'[x] \in Dynamic
                                /\ x \in island'[island_index'[x]].bodies
      BY <1>1, <1>5, <2>2, <2>3, <2>5 DEF B
    <3>2. \A i \in Dynamic : \A x \in island'[i].bodies :
            x \in B \cup {b} /\ island_index'[x] = i
      BY <1>1, <1>5, <2>2, <2>3, <2>5 DEF B
    <3>3. \A i \in Dynamic : island'[i].bodies = {} => island'[i] = Unallocated
      BY <2>2, <2>5
    <3> QED
      BY <3>1, <3>2, <3>3 DEF Housed
  <2>7. Named(island')
    BY <2>2, <2>5 DEF Named
  <2>8. Listed(island_index', island', Settled)
    <3> SUFFICES ASSUME NEW c \in Slots, NEW i \in Dynamic
                 PROVE  c \in island'[i].contacts <=>
                          \E x \in Settled[c] \cap Dynamic : island_index'[x] = i
      BY DEF Listed
    <3>1. \A x \in Settled[c] \cap Dynamic : x \in B /\ x # b
                                             /\ island_index'[x] = island_index[x]
      BY <1>1, <1>4, <2>2 DEF B
    <3>2. CASE i = b
      BY <2>2, <2>3, <3>1, <3>2
    <3>3. CASE i # b
      BY <1>3, <2>2, <3>1, <3>3 DEF Partition, Listed
    <3> QED
      BY <3>2, <3>3
  <2>9. Together(island_index', Settled)
    <3> SUFFICES ASSUME NEW c \in Slots, NEW x \in Settled[c] \cap Dynamic,
                        NEW y \in Settled[c] \cap Dynamic
                 PROVE  island_index'[x] = island_index'[y]
      BY DEF Together
    <3>1. x # b /\ y # b
      BY <1>1, <1>4
    <3> QED
      BY <1>3, <2>2, <3>1 DEF Partition, Together
  <2>10. \A i \in Dynamic : Joined(island', Settled, i)
    <3> SUFFICES ASSUME NEW i \in Dynamic, NEW S \in SUBSET Dynamic,
                        Closed(S, Settled), S \cap island'[i].bodies # {}
                 PROVE  island'[i].bodies \subseteq S
      BY DEF Joined
    <3>1. CASE i = b
      BY <2>2, <3>1
    <3>2. CASE i # b
      BY <1>3, <2>2, <3>2 DEF Partition, Joined
    <3> QED
      BY <3>1, <3>2
  <2> QED
    BY <1>2, <2>4, <2>6, <2>7, <2>8, <2>9, <2>10 DEF Partition
<1>6. CASE b \notin Dynamic
  <2>1. island' = island /\ \A x \in Dynamic : island_index'[x] = island_index[x]
    BY <1>1, <1>6, AddBodyStep
  <2>2. bodies' \cap Dynamic = B /\ B \in SUBSET Dynamic
    BY <1>1, <1>6
  <2>3. Partition(island_index', island', B, Settled)
    <3> HIDE DEF B
    <3> QED
      BY <1>3, <2>1, <2>2, PartitionFrame
  <2> QED
    BY <1>2, <2>2, <2>3
<1> QED
  BY <1>5, <1>6

LEMMA AddBodyIInv ==
  ASSUME IInv, NEW b \in Bodies, AddBody(b)
  PROVE  IInv'
<1>1. /\ pc = "idle" /\ pc' = "idle" /\ b \notin bodies
      /\ bodies' = bodies \cup {b} /\ added' = added \cup {b}
      /\ rb_awake' = (IF sleep_enabled THEN rb_awake \cup {b} ELSE rb_awake \ {b})
      /\ UNCHANGED <<sleep_enabled, key, persistent, bit_count, frame, frame_bit_count,
                     contact_new, moved, failed>>
  BY AddBodyStep
<1>2. TypeOK /\ Dynamic \subseteq Bodies
  BY DEF IInv, Bodies
<1>3. /\ \A x \in Dynamic \ {b} : island_index'[x] = island_index[x]
      /\ \A i \in Dynamic \ {b} : island'[i] = island[i]
      /\ b \in Dynamic => island_index'[b] = b /\ island'[b].flags = NewFlags
                          /\ island'[b].bodies = {b}
  BY <1>2, AddBodyStep DEF TypeOK
<1>4. sleep_enabled => "awake" \in NewFlags /\ "reset" \in NewFlags
                       /\ "try_sleep" \notin NewFlags
  BY DEF NewFlags
<1>5. \A x \in bodies \cap Dynamic : island_index[x] \in Dynamic /\ island_index[x] # b
  BY <1>1, BodiesHoused
<1>6. BitsFollow'
  <2>1. BitsFollow
    BY DEF IInv
  <2>2. Contacts' = Contacts
    BY <1>1 DEF Contacts
  <2> QED
    BY <1>1, <2>1, <2>2 DEF BitsFollow, InFrame
<1>7. StirredAwake'
  <2>1. StirredAwake /\ \A c \in Slots : key[c] \subseteq bodies
    BY DEF IInv, BitsFollow
  <2>2. \A c \in Slots : key'[c] \cap added' = {}
    BY <1>1, <2>1 DEF StirredAwake
  <2>3. sleep_enabled => moved' \subseteq rb_awake'
    BY <1>1, <2>1 DEF StirredAwake
  <2>4. ASSUME sleep_enabled, NEW x \in (moved' \cup added') \cap Dynamic
        PROVE  "awake" \in island'[island_index'[x]].flags
    <3>1. CASE x = b
      BY <1>3, <1>4, <2>4, <3>1
    <3>2. CASE x # b
      <4>1. x \in (moved \cup added) \cap Dynamic /\ x \in bodies
        BY <1>1, <1>2, <2>4, <3>2 DEF TypeOK
      <4>2. Awake(island_index[x])
        BY <2>1, <2>4, <4>1 DEF StirredAwake
      <4>3. island_index'[x] = island_index[x]
            /\ island'[island_index[x]] = island[island_index[x]]
        BY <1>3, <1>5, <3>2, <4>1
      <4> QED
        BY <4>2, <4>3 DEF Awake
    <3> QED
      BY <3>1, <3>2
  <2> QED
    BY <1>1, <2>1, <2>2, <2>3, <2>4 DEF StirredAwake, Awake
<1>8. SleepTogether'
  <2> SUFFICES ASSUME sleep_enabled, NEW i \in Dynamic, island'[i].bodies # {}
               PROVE  /\ ~Awake(i)' => island'[i].bodies \cap rb_awake' = {}
                      /\ \/ "try_sleep" \in island'[i].flags
                         \/ pc' = "idle" /\ Awake(i)' /\ "reset" \notin island'[i].flags
                         => island'[i].bodies \subseteq rb_awake'
    BY <1>1 DEF SleepTogether, Islands
  <2>1. CASE i = b
    BY <1>3, <1>4, <2>1 DEF Awake
  <2>2. CASE i # b
    <3>1. island'[i] = island[i] /\ i \in Islands /\ b \notin island[i].bodies
      BY <1>1, <1>3, <2>2, BodiesHoused DEF Islands
    <3> QED
      BY <1>1, <3>1 DEF IInv, SleepTogether, Awake
  <2> QED
    BY <2>1, <2>2
<1> QED
  BY <1>6, <1>7, <1>8, AddBodyTypes, AddBodyPartition DEF IInv

--------------------------------------------------------------------------------
(* Removing a body *)

(* What is common to the removals: the body and its contacts go.           *)
LEMMA FreeBodyStep ==
  ASSUME IInv, NEW b \in Bodies, FreeBody(b)
  PROVE  /\ pc = "idle" /\ pc' = "idle" /\ b \in bodies
         /\ bodies' = bodies \ {b} /\ rb_awake' = rb_awake \ {b}
         /\ moved' = moved \ {b} /\ added' = added \ {b}
         /\ key' = [c \in Slots |-> IF c \in ContactsOf(b) THEN {} ELSE key[c]]
         /\ \A c \in Slots : key'[c] \subseteq key[c] /\ b \notin key'[c]
                             /\ (key'[c] # {} => key'[c] = key[c])
         /\ key' \in [Slots -> Keys \cup {{}}]
         /\ persistent' = persistent \ ContactsOf(b)
         /\ contact_new = {} /\ contact_new' = {}
         /\ UNCHANGED <<sleep_enabled, bit_count, frame, frame_bit_count>>
<1>1. /\ key' = [c \in Slots |-> IF b \in key[c] THEN {} ELSE key[c]]
      /\ pc = "idle" /\ contact_new' = contact_new
  BY DEF FreeBody
<1>2. key \in [Slots -> Keys \cup {{}}] /\ contact_new = {}
  BY <1>1 DEF IInv, TypeOK, BitsFollow
<1>3. /\ \A c \in Slots : key'[c] \subseteq key[c] /\ b \notin key'[c]
                          /\ (key'[c] # {} => key'[c] = key[c])
      /\ key' \in [Slots -> Keys \cup {{}}]
  BY <1>1, <1>2
<1>4. key' = [c \in Slots |-> IF c \in ContactsOf(b) THEN {} ELSE key[c]]
  BY <1>1 DEF ContactsOf
<1> QED
  BY <1>1, <1>2, <1>3, <1>4 DEF FreeBody

LEMMA FreeBodyBits ==
  ASSUME IInv, NEW b \in Bodies, FreeBody(b)
  PROVE  BitsFollow'
<1>1. BitsFollow /\ key \in [Slots -> Keys \cup {{}}]
  BY DEF IInv, TypeOK
<1>2. Contacts' = Contacts \ ContactsOf(b)
  <2>1. \A c \in Slots : key'[c] # {} <=> key[c] # {} /\ c \notin ContactsOf(b)
    BY FreeBodyStep DEF ContactsOf
  <2> QED
    BY <2>1 DEF Contacts
<1>3. \A c \in Slots : key'[c] \subseteq bodies'
  BY <1>1, FreeBodyStep DEF BitsFollow
<1> QED
  BY <1>1, <1>2, <1>3, FreeBodyStep DEF BitsFollow, InFrame

(* A removal that splits islands, and only sets the flags of a woken one.  *)
LEMMA RemoveIInv ==
  ASSUME IInv, NEW b \in Bodies, FreeBody(b), failed' \in BOOLEAN, NEW I, NEW isl,
         Splitting(bodies \cap Dynamic, (bodies \cap Dynamic) \ {b}, ContactsOf(b), I, isl,
                   key', {b}),
         SplitIslands(I, isl, key', {b}),
         \A i \in Dynamic : \/ isl[i].flags = island[i].flags
                            \/ isl[i].flags = WokenFlags(island[i].flags)
  PROVE  IInv'
<1> DEFINE B == bodies \cap Dynamic
<1>1. /\ pc = "idle" /\ pc' = "idle" /\ b \in bodies
      /\ bodies' = bodies \ {b} /\ rb_awake' = rb_awake \ {b}
      /\ moved' = moved \ {b} /\ added' = added \ {b}
      /\ \A c \in Slots : key'[c] \subseteq key[c]
      /\ key' \in [Slots -> Keys \cup {{}}] /\ contact_new' = {}
      /\ persistent' = persistent \ ContactsOf(b)
      /\ UNCHANGED <<sleep_enabled, bit_count, frame, frame_bit_count>>
  BY FreeBodyStep
<1>2. TypeOK /\ Dynamic \subseteq Bodies
  BY DEF IInv, Bodies
<1>3. TypeOK'
  <2>1. /\ low_velocity_time' = [low_velocity_time EXCEPT ![b] = 0]
        /\ edits' \in 0 .. MaxEdits
    BY <1>2, Sizes DEF FreeBody, Edit, TypeOK
  <2>2. 0 \in 0 .. Threshold
    BY Sizes
  <2>3. low_velocity_time' \in [Bodies -> 0 .. Threshold]
    BY <1>2, <2>1, <2>2 DEF TypeOK
  <2>4. /\ island_index' \in [Bodies -> Dynamic \cup {ISLAND_STATIC, ISLAND_NULL}]
        /\ island' \in [Dynamic -> [flags : SUBSET Flags, bodies : SUBSET Dynamic,
                                    contacts : SUBSET Slots]]
    BY SplitResult DEF Records
  <2>5. /\ bodies' \subseteq Bodies /\ rb_awake' \subseteq bodies'
        /\ moved' \subseteq bodies' /\ added' \subseteq bodies'
        /\ persistent' \subseteq Slots /\ contact_new' \subseteq Slots
    BY <1>1, <1>2 DEF TypeOK
  <2>6. /\ sleep_enabled' \in BOOLEAN /\ bit_count' \in Nat
        /\ frame' \subseteq Slots /\ frame_bit_count' \in Nat
    BY <1>1, <1>2 DEF TypeOK
  <2> QED
    BY <1>1, <2>1, <2>3, <2>4, <2>5, <2>6 DEF TypeOK
<1>4. Partition(island_index', island', bodies' \cap Dynamic, Settled')
  <2>1. bodies' \cap Dynamic = B \ {b}
    BY <1>1
  <2>2. Settled' = key'
    BY <1>1, NextSettled
  <2>3. Partition(island_index', island', B \ {b}, key')
    BY SplitPartition
  <2> HIDE DEF B
  <2> QED
    BY <2>1, <2>2, <2>3
<1>5. sleep_enabled => NewFlags = {"awake", "reset"}
  BY DEF NewFlags
<1>6. /\ \A i \in Dynamic : island'[i].bodies # {} =>
           \/ island'[i].flags = NewFlags
           \/ island'[i] = isl[i] /\ isl[i].bodies = island[i].bodies
      /\ \A x \in B \ {b} : island_index[x] \in I => island'[island_index'[x]].flags = NewFlags
      /\ \A x \in B \ {b} : island_index[x] \notin I =>
           /\ island_index'[x] = island_index[x]
           /\ island'[island_index[x]] = isl[island_index[x]]
  BY SplitFlags
<1>7. \A x \in B \ {b} : x \in isl[island_index[x]].bodies
  BY PartsAre
<1>8. StirredAwake'
  <2>1. StirredAwake
    BY DEF IInv
  <2>2. \A c \in Slots : key'[c] \cap added' = {}
    BY <1>1, <2>1 DEF StirredAwake
  <2>3. sleep_enabled => moved' \subseteq rb_awake'
    BY <1>1, <2>1 DEF StirredAwake
  <2>4. ASSUME sleep_enabled, NEW x \in (moved' \cup added') \cap Dynamic
        PROVE  "awake" \in island'[island_index'[x]].flags
    <3>1. x \in (moved \cup added) \cap Dynamic /\ x \in B \ {b}
      BY <1>1, <1>2, <2>4 DEF TypeOK
    <3>2. "awake" \in island[island_index[x]].flags
      BY <2>1, <2>4, <3>1 DEF StirredAwake, Awake
    <3>3. CASE island_index[x] \in I
      BY <1>5, <1>6, <2>4, <3>1, <3>3
    <3>4. CASE island_index[x] \notin I
      <4>1. island_index[x] \in Dynamic
        BY <3>1, BodiesHoused
      <4>2. "awake" \in isl[island_index[x]].flags
        BY <3>2, <4>1 DEF WokenFlags
      <4> QED
        BY <1>6, <3>1, <3>4, <4>2
    <3> QED
      BY <3>3, <3>4
  <2> QED
    BY <1>1, <2>1, <2>2, <2>3, <2>4 DEF StirredAwake, Awake
<1>9. SleepTogether'
  <2> SUFFICES ASSUME sleep_enabled, NEW i \in Dynamic, island'[i].bodies # {}
               PROVE  /\ "awake" \notin island'[i].flags =>
                           island'[i].bodies \cap rb_awake' = {}
                      /\ \/ "try_sleep" \in island'[i].flags
                         \/ "awake" \in island'[i].flags /\ "reset" \notin island'[i].flags
                         => island'[i].bodies \subseteq rb_awake'
    BY <1>1 DEF SleepTogether, Islands, Awake
  <2>1. CASE island'[i].flags = NewFlags
    BY <1>5, <2>1
  <2>2. CASE island'[i] = isl[i] /\ isl[i].bodies = island[i].bodies
    <3>1. i \in Islands /\ b \notin island'[i].bodies
      <4>1. b \notin isl[i].bodies
        BY PartsAre
      <4> QED
        BY <2>2, <4>1 DEF Islands
    <3>2. /\ "awake" \notin island[i].flags => island[i].bodies \cap rb_awake = {}
          /\ \/ "try_sleep" \in island[i].flags
             \/ "awake" \in island[i].flags /\ "reset" \notin island[i].flags
             => island[i].bodies \subseteq rb_awake
      BY <1>1, <3>1 DEF IInv, SleepTogether, Awake
    <3>3. CASE isl[i].flags = island[i].flags
      BY <1>1, <2>2, <3>1, <3>2, <3>3
    <3>4. CASE isl[i].flags = WokenFlags(island[i].flags)
      BY <1>1, <2>2, <3>1, <3>2, <3>4 DEF WokenFlags
    <3> QED
      BY <3>3, <3>4
  <2> QED
    BY <1>6, <2>1, <2>2
<1> QED
  BY <1>3, <1>4, <1>8, <1>9, FreeBodyBits DEF IInv

(* ds_ShapeDynamicRemove splits the island of the body, and what it makes  *)
(* of an island whose only body goes is what a split makes of it.          *)
LEMMA RemoveDynamicSplits ==
  ASSUME IInv, NEW b \in Bodies, RemoveDynamicBody(b)
  PROVE  /\ b \in bodies \cap Dynamic /\ island_index[b] \in Dynamic
         /\ failed' = (\/ b \notin island[island_index[b]].bodies
                       \/ ~(ContactsOf(b) \subseteq island[island_index[b]].contacts))
         /\ \E isl :
              /\ Splitting(bodies \cap Dynamic, (bodies \cap Dynamic) \ {b}, ContactsOf(b),
                           {island_index[b]}, isl, key', {b})
              /\ SplitIslands({island_index[b]}, isl, key', {b})
              /\ \A i \in Dynamic : isl[i].flags = island[i].flags
<1> DEFINE B == bodies \cap Dynamic
           i == island_index[b]
           D == ContactsOf(b)
           isl == [island EXCEPT ![i].bodies = @ \ {b}, ![i].contacts = @ \ D]
<1>1. /\ b \in Dynamic /\ FreeBody(b)
      /\ IF isl[i].bodies = {}
           THEN /\ island' = [island EXCEPT ![i] = Unallocated]
                /\ island_index' = [island_index EXCEPT ![b] = ISLAND_NULL]
           ELSE SplitIslands({i}, isl, key', {b})
      /\ failed' = (b \notin island[i].bodies \/ ~(D \subseteq island[i].contacts))
  BY DEF RemoveDynamicBody
<1>2. /\ pc = "idle" /\ b \in bodies
      /\ key' = [c \in Slots |-> IF c \in D THEN {} ELSE key[c]]
      /\ \A c \in Slots : key'[c] \subseteq key[c] /\ b \notin key'[c]
                          /\ (key'[c] # {} => key'[c] = key[c])
  BY <1>1, FreeBodyStep
<1>3. /\ island_index \in [Bodies -> Dynamic \cup {ISLAND_STATIC, ISLAND_NULL}]
      /\ island \in [Dynamic -> Records]
      /\ key \in [Slots -> Keys \cup {{}}]
      /\ \A c \in Slots : key[c] \subseteq bodies /\ (key[c] # {} => InFrame(c))
      /\ Dynamic \subseteq Bodies /\ D \subseteq Slots
  BY <1>2 DEF IInv, TypeOK, Records, BitsFollow, Bodies, ContactsOf, Contacts
<1>4. Partition(island_index, island, B, key)
  BY <1>2, AllSettled DEF IInv
<1>5. /\ i \in Dynamic /\ b \in island[i].bodies
      /\ \A j \in Dynamic : \A x \in island[j].bodies : x \in B /\ island_index[x] = j
      /\ \A j \in Dynamic : island[j].bodies = {} => island[j] = Unallocated
  BY <1>1, <1>2, BodiesHoused
<1> HIDE DEF B, i, D
<1>6. \A j \in Dynamic \ {i} : island[j].contacts \cap D = {}
  <2> SUFFICES ASSUME NEW j \in Dynamic \ {i}, NEW c \in island[j].contacts, c \in D
               PROVE  FALSE
    OBVIOUS
  <2>1. c \in Slots
    BY <1>3, <2>1
  <2>2. PICK x \in key[c] \cap Dynamic : island_index[x] = j
    BY <1>4, <2>1 DEF Partition, Listed
  <2>3. b \in key[c] \cap Dynamic
    BY <1>1 DEF D, ContactsOf
  <2>4. island_index[x] = island_index[b]
    BY <1>4, <2>1, <2>2, <2>3 DEF Partition, Together
  <2> QED
    BY <2>2, <2>4 DEF i
<1>7. /\ isl \in [Dynamic -> Records]
      /\ isl[i].bodies = island[i].bodies \ {b} /\ isl[i].contacts = island[i].contacts \ D
      /\ isl[i].flags = island[i].flags
      /\ \A j \in Dynamic \ {i} : isl[j] = island[j]
  <2> DEFINE kept == [island[i] EXCEPT !.bodies = @ \ {b}, !.contacts = @ \ D]
  <2>1. island[i] \in Records
    BY <1>3, <1>5
  <2>2. /\ kept \in Records
        /\ kept.bodies = island[i].bodies \ {b} /\ kept.contacts = island[i].contacts \ D
        /\ kept.flags = island[i].flags
    BY <2>1 DEF Records
  <2>3. isl = [island EXCEPT ![i] = kept]
    BY <1>3, <1>5
  <2> HIDE DEF isl, kept, Records
  <2> QED
    BY <1>3, <1>5, <2>2, <2>3
<1> HIDE DEF isl
<1>8. \A j \in Dynamic : /\ isl[j].bodies = island[j].bodies \cap (B \ {b})
                         /\ isl[j].contacts = island[j].contacts \ D
                         /\ j \notin {i} /\ isl[j].bodies = {} => isl[j] = Unallocated
  <2> SUFFICES ASSUME NEW j \in Dynamic
               PROVE  /\ isl[j].bodies = island[j].bodies \cap (B \ {b})
                      /\ isl[j].contacts = island[j].contacts \ D
                      /\ j \notin {i} /\ isl[j].bodies = {} => isl[j] = Unallocated
    OBVIOUS
  <2>1. CASE j = i
    BY <1>5, <1>7, <2>1
  <2>2. CASE j # i
    <3>1. isl[j] = island[j] /\ island[j].contacts \cap D = {}
      BY <1>6, <1>7, <2>2
    <3>2. \A x \in island[j].bodies : x \in B \ {b}
      BY <1>5, <2>2 DEF i
    <3>3. isl[j].bodies = island[j].bodies \cap (B \ {b})
      BY <3>1, <3>2
    <3>4. isl[j].contacts = island[j].contacts \ D
      BY <3>1
    <3>5. isl[j].bodies = {} => isl[j] = Unallocated
      BY <1>5, <3>1
    <3> QED
      BY <3>3, <3>4, <3>5
  <2> QED
    BY <2>1, <2>2
<1>9. \A c \in Slots : key[c] \cap Dynamic \subseteq B /\ key'[c] \cap Dynamic \subseteq B \ {b}
                       /\ (key'[c] # {} => InFrame(c))
  BY <1>2, <1>3 DEF B
<1>10. \A c \in D : key[c] \subseteq Dynamic => \A x \in key[c] : island_index[x] \in {i}
  <2> SUFFICES ASSUME NEW c \in D, key[c] \subseteq Dynamic, NEW x \in key[c]
               PROVE  island_index[x] = i
    OBVIOUS
  <2>1. c \in Slots /\ b \in key[c] \cap Dynamic /\ x \in key[c] \cap Dynamic
    BY <1>1 DEF D, ContactsOf
  <2> QED
    BY <1>4, <2>1 DEF Partition, Together, i
<1>11. Splitting(B, B \ {b}, D, {i}, isl, key', {b})
  <2>1. B \subseteq Dynamic /\ B \ {b} \subseteq B /\ {b} \cap (B \ {b}) = {}
        /\ {i} \subseteq Dynamic /\ \A x \in B \ (B \ {b}) : island_index[x] \in {i}
    BY <1>5 DEF B, i
  <2> QED
    BY <1>2, <1>3, <1>4, <1>7, <1>8, <1>9, <1>10, <2>1 DEF Splitting
<1>12. SplitIslands({i}, isl, key', {b})
  <2>1. CASE isl[i].bodies # {}
    BY <1>1, <2>1 DEF isl, D, i
  <2>2. CASE isl[i].bodies = {}
    <3>1. /\ island' = [island EXCEPT ![i] = Unallocated]
          /\ island_index' = [island_index EXCEPT ![b] = ISLAND_NULL]
      BY <1>1, <2>2 DEF isl, D, i
    <3>2. UNION {isl[j].bodies : j \in {i}} = {}
      BY <2>2
    <3> DEFINE new == [x \in UNION {isl[j].bodies : j \in {i}} |->
                         Min(Component(x, isl[island_index[x]].bodies, Range(key')))]
    <3>3. DOMAIN new = {} /\ Range(new) = {}
      BY <3>2 DEF Range
    <3> HIDE DEF new
    <3>4. island_index' = [x \in Bodies |-> IF x \in {b} THEN ISLAND_NULL
                                            ELSE IF x \in DOMAIN new THEN new[x]
                                            ELSE island_index[x]]
      BY <1>3, <3>1, <3>3
    <3>5. island' = [j \in Dynamic |->
                       IF j \in Range(new)
                         THEN [flags |-> NewFlags,
                               bodies |-> {x \in DOMAIN new : new[x] = j},
                               contacts |-> {c \in {d \in UNION {isl[m].contacts : m \in {i}} :
                                                      InFrame(d)} :
                                               \E x \in key'[c] \cap DOMAIN new : new[x] = j}]
                       ELSE IF j \in {i} THEN Unallocated ELSE isl[j]]
      BY <1>3, <1>7, <3>1, <3>3
    <3> QED
      BY <3>4, <3>5 DEF SplitIslands, new
  <2> QED
    BY <2>1, <2>2
<1>13. \A j \in Dynamic : isl[j].flags = island[j].flags
  BY <1>7
<1> QED
  BY <1>1, <1>2, <1>5, <1>11, <1>12, <1>13 DEF B, D, i

LEMMA RemoveDynamicBodyIInv ==
  ASSUME IInv, NEW b \in Bodies, RemoveDynamicBody(b)
  PROVE  IInv'
<1>1. FreeBody(b) /\ failed' \in BOOLEAN
  BY RemoveDynamicSplits DEF RemoveDynamicBody
<1>2. PICK isl :
        /\ Splitting(bodies \cap Dynamic, (bodies \cap Dynamic) \ {b}, ContactsOf(b),
                     {island_index[b]}, isl, key', {b})
        /\ SplitIslands({island_index[b]}, isl, key', {b})
        /\ \A i \in Dynamic : isl[i].flags = island[i].flags
  BY RemoveDynamicSplits
<1> QED
  BY <1>1, <1>2, RemoveIInv

(* ds_ShapeStaticRemove splits the islands that touched the body and have  *)
(* other contacts, and wakes those that have none.                         *)
LEMMA RemoveStaticSplits ==
  ASSUME IInv, NEW b \in Bodies, RemoveStaticBody(b)
  PROVE  \E I, isl :
           /\ Splitting(bodies \cap Dynamic, (bodies \cap Dynamic) \ {b}, ContactsOf(b),
                        I, isl, key', {b})
           /\ SplitIslands(I, isl, key', {b})
           /\ \A i \in Dynamic : \/ isl[i].flags = island[i].flags
                                 \/ isl[i].flags = WokenFlags(island[i].flags)
           /\ \A c \in ContactsOf(b) : \A d \in DynamicBodies(c) :
                island_index[d] \in I \/ "awake" \in isl[island_index[d]].flags
<1> DEFINE B == bodies \cap Dynamic
           D == ContactsOf(b)
           others == (UNION {key[c] : c \in D}) \ {b}
           touched == {island_index[d] : d \in others \cap Dynamic}
           isl == [i \in Dynamic |-> [island[i] EXCEPT !.contacts = @ \ D]]
           remain == {i \in touched : isl[i].contacts # {}}
           woken == [i \in Dynamic |->
                       IF i \in touched \ remain
                         THEN [isl[i] EXCEPT !.flags = WokenFlags(@)] ELSE isl[i]]
<1>1. b \in Static /\ FreeBody(b) /\ SplitIslands(remain, woken, key', {b})
  BY DEF RemoveStaticBody
<1>2. /\ pc = "idle" /\ b \in bodies
      /\ key' = [c \in Slots |-> IF c \in D THEN {} ELSE key[c]]
      /\ \A c \in Slots : key'[c] \subseteq key[c] /\ b \notin key'[c]
                          /\ (key'[c] # {} => key'[c] = key[c])
  BY <1>1, FreeBodyStep
<1>3. /\ island_index \in [Bodies -> Dynamic \cup {ISLAND_STATIC, ISLAND_NULL}]
      /\ island \in [Dynamic -> Records]
      /\ key \in [Slots -> Keys \cup {{}}]
      /\ \A c \in Slots : key[c] \subseteq bodies /\ (key[c] # {} => InFrame(c))
      /\ D \subseteq Slots /\ b \notin Dynamic
  <2>1. b \notin Dynamic
    BY <1>1, Sizes
  <2> QED
    BY <1>2, <2>1 DEF IInv, TypeOK, Records, BitsFollow, ContactsOf, Contacts
<1>4. Partition(island_index, island, B, key)
  BY <1>2, AllSettled DEF IInv
<1>5. /\ \A x \in B : island_index[x] \in Dynamic /\ x \in island[island_index[x]].bodies
      /\ \A j \in Dynamic : \A x \in island[j].bodies : x \in B /\ island_index[x] = j
      /\ \A j \in Dynamic : island[j].bodies = {} => island[j] = Unallocated
  BY BodiesHoused
<1>6. \A d \in others \cap Dynamic : d \in B
  BY <1>3 DEF ContactsOf
<1>7. /\ touched \subseteq Dynamic
      /\ \A i \in touched : island[i].bodies # {}
  BY <1>5, <1>6
<1> HIDE DEF B, D
<1>8. /\ isl \in [Dynamic -> Records]
      /\ \A i \in Dynamic : /\ isl[i].bodies = island[i].bodies
                            /\ isl[i].contacts = island[i].contacts \ D
                            /\ isl[i].flags = island[i].flags
                            /\ island[i] = Unallocated => isl[i] = Unallocated
  <2>1. \A i \in Dynamic : isl[i] \in Records
    BY <1>3 DEF Records
  <2>2. isl \in [Dynamic -> Records]
    <3> HIDE DEF Records
    <3> QED
      BY <2>1
  <2>3. ASSUME NEW i \in Dynamic
        PROVE  /\ isl[i].bodies = island[i].bodies
               /\ isl[i].contacts = island[i].contacts \ D
               /\ isl[i].flags = island[i].flags
    BY <1>3 DEF Records
  <2>4. ASSUME NEW i \in Dynamic, island[i] = Unallocated
        PROVE  isl[i] = Unallocated
    BY <2>4 DEF Unallocated
  <2> QED
    BY <2>2, <2>3, <2>4
<1>9. \A i : i \in remain <=> i \in touched /\ isl[i].contacts # {}
  OBVIOUS
<1> HIDE DEF isl, touched, remain, others
<1>10. /\ woken \in [Dynamic -> Records]
       /\ \A i \in Dynamic :
            /\ woken[i].bodies = island[i].bodies
            /\ woken[i].contacts = island[i].contacts \ D
            /\ island[i] = Unallocated => woken[i] = Unallocated
            /\ i \in touched \ remain => woken[i].flags = WokenFlags(island[i].flags)
            /\ i \notin touched \ remain => woken[i].flags = island[i].flags
  <2>1. ASSUME NEW i \in Dynamic
        PROVE  /\ woken[i] \in Records
               /\ woken[i].bodies = island[i].bodies
               /\ woken[i].contacts = island[i].contacts \ D
               /\ island[i] = Unallocated => woken[i] = Unallocated
               /\ i \in touched \ remain => woken[i].flags = WokenFlags(island[i].flags)
               /\ i \notin touched \ remain => woken[i].flags = island[i].flags
    <3>1. isl[i] \in Records /\ WokenFlags(isl[i].flags) \in SUBSET Flags
      BY <1>8 DEF Records, WokenFlags, Flags
    <3>2. CASE i \in touched \ remain
      <4>1. woken[i] = [isl[i] EXCEPT !.flags = WokenFlags(@)]
        BY <3>2
      <4>2. /\ woken[i] \in Records /\ woken[i].bodies = isl[i].bodies
            /\ woken[i].contacts = isl[i].contacts
            /\ woken[i].flags = WokenFlags(isl[i].flags)
        BY <3>1, <4>1 DEF Records
      <4>3. island[i] # Unallocated
        BY <1>7, <3>2 DEF Unallocated
      <4> QED
        BY <1>8, <3>2, <4>2, <4>3
    <3>3. CASE i \notin touched \ remain
      <4>1. woken[i] = isl[i]
        BY <3>3
      <4> HIDE DEF woken
      <4> QED
        BY <1>8, <3>1, <3>3, <4>1
    <3> QED
      BY <3>2, <3>3
  <2>2. woken \in [Dynamic -> Records]
    <3>1. woken = [i \in Dynamic |-> woken[i]]
      OBVIOUS
    <3> HIDE DEF woken, Records
    <3> QED
      BY <2>1, <3>1
  <2> HIDE DEF woken
  <2> QED
    BY <2>1, <2>2
<1> HIDE DEF woken
<1>11. B \ {b} = B
  BY <1>3 DEF B
<1>12. \A i \in Dynamic : /\ woken[i].bodies = island[i].bodies \cap B
                          /\ woken[i].contacts = island[i].contacts \ D
                          /\ i \notin remain /\ woken[i].bodies = {} => woken[i] = Unallocated
  BY <1>5, <1>10
<1>13. \A c \in Slots : key[c] \cap Dynamic \subseteq B /\ key'[c] \cap Dynamic \subseteq B
                        /\ (key'[c] # {} => InFrame(c))
  BY <1>2, <1>3 DEF B
<1>14. \A c \in D : ~(key[c] \subseteq Dynamic)
  BY <1>3 DEF D, ContactsOf
<1>15. Splitting(B, B, D, remain, woken, key', {b})
  <2>1. /\ B \subseteq Dynamic /\ B \subseteq B /\ {b} \cap B = {}
        /\ remain \subseteq Dynamic /\ \A x \in B \ B : island_index[x] \in remain
    BY <1>3, <1>7, <1>9 DEF B
  <2> QED
    BY <1>2, <1>3, <1>4, <1>10, <1>12, <1>13, <1>14, <2>1 DEF Splitting
<1>16. \A c \in D : \A d \in DynamicBodies(c) :
         island_index[d] \in remain \/ "awake" \in woken[island_index[d]].flags
  <2> SUFFICES ASSUME NEW c \in D, NEW d \in DynamicBodies(c), island_index[d] \notin remain
               PROVE  "awake" \in woken[island_index[d]].flags
    OBVIOUS
  <2>1. d \in others \cap Dynamic
    <3>1. d \in key[c] /\ d \in Dynamic /\ d # b
      BY <1>3 DEF DynamicBodies
    <3> DEFINE near == UNION {key[x] : x \in D}
    <3>2. d \in near /\ others = near \ {b}
      BY <3>1 DEF others
    <3> HIDE DEF near
    <3> QED
      BY <3>1, <3>2
  <2>2. island_index[d] \in touched \ remain
    BY <2>1 DEF touched
  <2> QED
    BY <1>7, <1>10, <2>2 DEF WokenFlags
<1>17. \A i \in Dynamic : \/ woken[i].flags = island[i].flags
                          \/ woken[i].flags = WokenFlags(island[i].flags)
  BY <1>10
<1>18. SplitIslands(remain, woken, key', {b})
  BY <1>1 DEF remain, woken, isl, touched, others
<1>19. Splitting(B, B \ {b}, D, remain, woken, key', {b})
  BY <1>11, <1>15
<1> QED
  BY <1>16, <1>17, <1>18, <1>19 DEF B, D

LEMMA RemoveStaticBodyIInv ==
  ASSUME IInv, NEW b \in Bodies, RemoveStaticBody(b)
  PROVE  IInv'
<1>1. FreeBody(b) /\ failed' \in BOOLEAN
  BY DEF RemoveStaticBody
<1>2. PICK I, isl :
        /\ Splitting(bodies \cap Dynamic, (bodies \cap Dynamic) \ {b}, ContactsOf(b),
                     I, isl, key', {b})
        /\ SplitIslands(I, isl, key', {b})
        /\ \A i \in Dynamic : \/ isl[i].flags = island[i].flags
                              \/ isl[i].flags = WokenFlags(island[i].flags)
        /\ \A c \in ContactsOf(b) : \A d \in DynamicBodies(c) :
             island_index[d] \in I \/ "awake" \in isl[island_index[d]].flags
  BY RemoveStaticSplits
<1> QED
  BY <1>1, <1>2, RemoveIInv

--------------------------------------------------------------------------------
(* UpdateSolverConfig *)

LEMMA UpdateSolverConfigIInv ==
  ASSUME IInv, NEW pending \in BOOLEAN, UpdateSolverConfig(pending)
  PROVE  IInv'
<1>1. /\ pc = "idle" /\ pc' = "detect" /\ frame' = {} /\ frame_bit_count' = 0
      /\ sleep_enabled' = pending
      /\ UNCHANGED <<bodies, island_index, low_velocity_time, key, persistent,
                     bit_count, contact_new, moved, added, failed>>
  BY DEF UpdateSolverConfig, worldVars
<1>2. TypeOK /\ Dynamic \subseteq Bodies
  BY DEF IInv, Bodies
<1>3. /\ \/ pending = sleep_enabled /\ rb_awake' = rb_awake /\ island' = island
         \/ /\ pending # sleep_enabled /\ rb_awake' = bodies
            /\ \A i \in Dynamic : island[i].bodies # {} => /\ "awake" \in island'[i].flags
                                            /\ "try_sleep" \notin island'[i].flags
      /\ \A i \in Dynamic : /\ island'[i].bodies = island[i].bodies
                            /\ island'[i].contacts = island[i].contacts
                            /\ island[i].bodies = {} => island'[i] = island[i]
      /\ island' \in [Dynamic -> Records] /\ edits' \in 0 .. MaxEdits
  <2>1. CASE pending = sleep_enabled
    BY <1>2, <2>1 DEF UpdateSolverConfig, TypeOK, Records
  <2>2. CASE pending # sleep_enabled
    <3> DEFINE flags(i) == IF pending
                             THEN (island[i].flags \cup {"awake", "reset"}) \ {"try_sleep"}
                             ELSE (island[i].flags \cup {"awake"}) \ {"reset", "try_sleep"}
               set(i) == IF i \notin Islands THEN island[i]
                         ELSE [island[i] EXCEPT !.flags = flags(i)]
    <3>1. rb_awake' = bodies /\ island' = [i \in Dynamic |-> set(i)] /\ edits' \in 0 .. MaxEdits
      BY <1>2, <2>2, Sizes DEF UpdateSolverConfig, Edit, TypeOK
    <3>2. ASSUME NEW i \in Dynamic
          PROVE  /\ set(i) \in Records /\ set(i).bodies = island[i].bodies
                 /\ set(i).contacts = island[i].contacts
                 /\ island[i].bodies # {} => /\ "awake" \in set(i).flags
                                             /\ "try_sleep" \notin set(i).flags
                 /\ island[i].bodies = {} => set(i) = island[i]
      <4>1. island[i] \in Records /\ (i \in Islands <=> island[i].bodies # {})
        BY <1>2 DEF TypeOK, Records, Islands
      <4>2. flags(i) \in SUBSET Flags /\ "awake" \in flags(i) /\ "try_sleep" \notin flags(i)
        BY <4>1 DEF Records, Flags
      <4> HIDE DEF flags
      <4> QED
        BY <4>1, <4>2 DEF Records
    <3> HIDE DEF set, Records
    <3>3. \A i \in Dynamic : island'[i] = set(i)
      BY <3>1
    <3>4. island' \in [Dynamic -> Records]
      BY <3>1, <3>2
    <3> QED
      BY <2>2, <3>1, <3>2, <3>3, <3>4
  <2> QED
    BY <2>1, <2>2
<1>4. TypeOK'
  <2>1. rb_awake' \subseteq bodies'
    BY <1>1, <1>2, <1>3 DEF TypeOK
  <2> QED
    BY <1>1, <1>2, <1>3, <2>1 DEF TypeOK, Records
<1>5. Partition(island_index', island', bodies' \cap Dynamic, Settled')
  <2>1. Settled' = Settled
    BY <1>1 DEF Settled
  <2>2. \A i \in Dynamic : island[i] = Unallocated => island'[i] = Unallocated
    BY <1>3 DEF Unallocated
  <2>3. Partition(island_index', island', bodies \cap Dynamic, Settled)
    BY <1>1, <1>3, <2>2, PartitionFrame DEF IInv
  <2> QED
    BY <1>1, <2>1, <2>3
<1>6. BitsFollow'
  <2>1. BitsFollow
    BY DEF IInv
  <2>2. Contacts' = Contacts
    BY <1>1 DEF Contacts
  <2> QED
    BY <1>1, <2>1, <2>2 DEF BitsFollow
<1>7. StirredAwake'
  <2>1. StirredAwake
    BY DEF IInv
  <2>2. sleep_enabled' => moved' \subseteq rb_awake'
    BY <1>1, <1>2, <1>3, <2>1 DEF StirredAwake, TypeOK
  <2>3. ASSUME sleep_enabled', NEW x \in (moved' \cup added') \cap Dynamic
        PROVE  "awake" \in island'[island_index'[x]].flags
    <3>1. x \in (moved \cup added) \cap Dynamic /\ x \in bodies \cap Dynamic
      BY <1>1, <1>2, <2>3 DEF TypeOK
    <3>2. /\ island_index'[x] = island_index[x] /\ island_index[x] \in Dynamic
          /\ island[island_index[x]].bodies # {}
      BY <1>1, <3>1, BodiesHoused
    <3>3. sleep_enabled => "awake" \in island[island_index[x]].flags
      BY <2>1, <3>1 DEF StirredAwake, Awake
    <3> QED
      BY <1>1, <1>3, <2>3, <3>2, <3>3
  <2> QED
    BY <1>1, <2>1, <2>2, <2>3 DEF StirredAwake, Awake
<1>8. SleepTogether'
  <2> SUFFICES ASSUME sleep_enabled', NEW i \in Dynamic, island'[i].bodies # {}
               PROVE  /\ "awake" \notin island'[i].flags =>
                           island'[i].bodies \cap rb_awake' = {}
                      /\ "try_sleep" \in island'[i].flags => island'[i].bodies \subseteq rb_awake'
    BY <1>1 DEF SleepTogether, Islands, Awake
  <2>1. island[i].bodies # {} /\ i \in Islands
    BY <1>3 DEF Islands
  <2>2. CASE pending # sleep_enabled
    BY <1>3, <2>1, <2>2
  <2>3. CASE pending = sleep_enabled
    BY <1>1, <1>3, <2>1, <2>3 DEF IInv, SleepTogether, Awake
  <2> QED
    BY <2>2, <2>3
<1> QED
  BY <1>4, <1>5, <1>6, <1>7, <1>8 DEF IInv

--------------------------------------------------------------------------------
(* CollisionDetection *)

(* The new contacts take free slots, the smallest ones, and are those that *)
(* MergeIslands has to settle.                                             *)
LEMMA CollisionKeys ==
  ASSUME IInv, NEW touching \in SUBSET {p \in Keys : p \subseteq bodies},
         CollisionDetection(touching)
  PROVE  /\ pc = "detect" /\ pc' = "merge" /\ persistent = Contacts
         /\ key' \in [Slots -> Keys \cup {{}}]
         /\ \A c \in Contacts : key'[c] = key[c]
         /\ \A c \in Slots \ Contacts : key'[c] = {} \/ key'[c] \in touching \ Range(key)
         /\ contact_new' = Contacts' \ Contacts /\ Contacts \subseteq Contacts'
         /\ \A c, d \in Slots \ Contacts : d <= c /\ c \in Contacts' => d \in Contacts'
<1> DEFINE pairs == touching \ Range(key)
           taken(c) == c \notin Contacts /\ SlotRank(c) <= Cardinality(pairs)
           pair(c) == CHOOSE p \in pairs : PairRank(p, pairs) = SlotRank(c)
<1>1. /\ pc = "detect" /\ pc' = "merge"
      /\ key' = [c \in Slots |-> IF taken(c) THEN pair(c) ELSE key[c]]
      /\ contact_new' = {c \in Slots : /\ key'[c] \in touching
                                       /\ c >= bit_count \/ c \notin persistent}
  BY DEF CollisionDetection
<1>2. /\ key \in [Slots -> Keys \cup {{}}] /\ bit_count \in Nat
      /\ persistent = Contacts /\ \A c \in Contacts : c < bit_count
  BY <1>1 DEF IInv, TypeOK, BitsFollow
<1>3. /\ pairs \in SUBSET Keys /\ pairs \subseteq touching /\ touching \subseteq Keys
      /\ Cardinality(pairs) \in Nat
  <2>1. pairs \in SUBSET Keys /\ pairs \subseteq touching /\ touching \subseteq Keys
    OBVIOUS
  <2>2. IsFiniteSet(pairs)
    BY <2>1, KeysFinite
  <2> QED
    BY <2>1, <2>2, FS_CardinalityType
<1>4. {} \notin Keys
  BY KeyPair
<1> HIDE DEF pairs
<1>5. \A c \in Slots : taken(c) => pair(c) \in pairs
  <2> SUFFICES ASSUME NEW c \in Slots, taken(c)
               PROVE  pair(c) \in pairs
    OBVIOUS
  <2>1. SlotRank(c) \in 1 .. Cardinality(pairs)
    <3>1. c \in Slots \ Contacts /\ SlotRank(c) <= Cardinality(pairs)
      OBVIOUS
    <3>2. SlotRank(c) \in Nat /\ SlotRank(c) >= 1
      BY <3>1, FreeRanks
    <3> QED
      BY <1>3, <3>1, <3>2
  <2>2. \E p \in pairs : PairRank(p, pairs) = SlotRank(c)
    BY <1>3, <2>1, PairOfRank
  <2> QED
    BY <2>2
<1> HIDE DEF pair
<1>6. /\ \A c \in Slots : taken(c) => key'[c] \in pairs
      /\ \A c \in Slots : ~taken(c) => key'[c] = key[c]
  BY <1>1, <1>5
<1>7. key' \in [Slots -> Keys \cup {{}}]
  BY <1>1, <1>2, <1>3, <1>5
<1>8. /\ \A c \in Contacts : c \in Slots /\ ~taken(c)
      /\ \A c \in Slots \ Contacts : key[c] = {}
  BY DEF Contacts
<1>9. \A c \in Slots \ Contacts : taken(c) <=> c \in Contacts'
  BY <1>3, <1>4, <1>6, <1>8 DEF Contacts
<1>10. Contacts \subseteq Contacts'
  BY <1>6, <1>8 DEF Contacts
<1>11. contact_new' = Contacts' \ Contacts
  <2>1. ASSUME NEW c \in Slots
        PROVE  c \in contact_new' <=> c \in Contacts' \ Contacts
    <3>1. CASE c \in Contacts
      BY <1>1, <1>2, <2>1, <3>1, Sizes
    <3>2. CASE c \notin Contacts
      BY <1>1, <1>2, <1>3, <1>4, <1>6, <1>8, <1>9, <2>1, <3>2
    <3> QED
      BY <3>1, <3>2
  <2>2. contact_new' \subseteq Slots /\ Contacts' \subseteq Slots
    BY <1>1 DEF Contacts
  <2> QED
    BY <2>1, <2>2
<1>12. ASSUME NEW c \in Slots \ Contacts, NEW d \in Slots \ Contacts, d <= c, c \in Contacts'
       PROVE  d \in Contacts'
  <2>1. SlotRank(d) <= SlotRank(c) /\ SlotRank(c) \in Nat
    BY <1>12, FreeRanks
  <2>2. SlotRank(d) \in Nat
    BY FreeRanks
  <2>3. SlotRank(c) <= Cardinality(pairs)
    BY <1>9, <1>12
  <2>4. taken(d)
    BY <1>3, <2>1, <2>2, <2>3
  <2> QED
    BY <1>9, <2>4
<1>13. \A c \in Slots \ Contacts : key'[c] = {} \/ key'[c] \in pairs
  BY <1>6, <1>8
<1> QED
  BY <1>1, <1>2, <1>6, <1>7, <1>8, <1>10, <1>11, <1>12, <1>13 DEF pairs

LEMMA CollisionDetectionIInv ==
  ASSUME IInv, NEW touching \in SUBSET {p \in Keys : p \subseteq bodies},
         CollisionDetection(touching)
  PROVE  IInv'
<1>1. /\ pc = "detect" /\ pc' = "merge" /\ persistent = Contacts
      /\ key' \in [Slots -> Keys \cup {{}}]
      /\ \A c \in Contacts : key'[c] = key[c]
      /\ \A c \in Slots \ Contacts : key'[c] = {} \/ key'[c] \in touching \ Range(key)
      /\ contact_new' = Contacts' \ Contacts /\ Contacts \subseteq Contacts'
      /\ \A c, d \in Slots \ Contacts : d <= c /\ c \in Contacts' => d \in Contacts'
  BY CollisionKeys
<1>2. /\ moved' = moved \ Refreshed /\ added' = {}
      /\ frame_bit_count' = bit_count
      /\ frame' = {c \in Slots : c < bit_count /\ key'[c] \in touching}
      /\ \A p \in Keys : p \subseteq bodies /\ p \cap (moved \cup added) = {} =>
           (p \in touching <=> p \in Range(key))
      /\ UNCHANGED <<sleep_enabled, bodies, island_index, rb_awake, low_velocity_time,
                     island, persistent, bit_count, failed, edits>>
  BY DEF CollisionDetection, bodyVars
<1>3. TypeOK /\ BitsFollow /\ StirredAwake /\ SleepTogether
  BY DEF IInv
<1>4. /\ \A c \in Slots : c \in Contacts' <=> key'[c] # {}
      /\ \A c \in Slots : c \in Contacts <=> key[c] # {}
      /\ {} \notin Keys /\ Contacts \subseteq Slots /\ Contacts' \subseteq Slots
  BY KeyPair DEF Contacts
<1>5. \A c \in contact_new' : /\ c \in Slots \ Contacts /\ key'[c] \in Keys
                              /\ key'[c] \in touching /\ key'[c] \notin Range(key)
                              /\ key'[c] \subseteq bodies
  BY <1>1, <1>4
<1>6. moved' = {}
  <2>1. moved \subseteq Refreshed
    BY <1>3 DEF TypeOK, StirredAwake, Refreshed
  <2> QED
    BY <1>2, <2>1
<1>7. TypeOK'
  BY <1>1, <1>2, <1>3, <1>4, <1>6 DEF TypeOK
<1>8. Partition(island_index', island', bodies' \cap Dynamic, Settled')
  <2>1. Settled' = Settled
    <3>1. Settled = key
      BY <1>1, AllSettled
    <3>2. \A c \in Slots : (IF c \in contact_new' THEN {} ELSE key'[c]) = key[c]
      BY <1>1, <1>4
    <3>3. Settled' = [c \in Slots |-> key[c]]
      BY <3>2 DEF Settled
    <3> QED
      BY <1>3, <3>1, <3>3 DEF TypeOK
  <2> QED
    BY <1>2, <2>1 DEF IInv
<1>9. BitsFollow'
  <2>1. \A c \in Slots : key'[c] \subseteq bodies
    BY <1>1, <1>3, <1>4, <1>5 DEF BitsFollow
  <2>2. \A c \in Contacts : c < bit_count
    BY <1>1, <1>3 DEF BitsFollow
  <2>3. frame' \subseteq Contacts'
    BY <1>2, <1>4
  <2>4. \A c \in Contacts' \ persistent : c < bit_count => c \in frame'
    BY <1>1, <1>2, <1>4, <1>5
  <2>5. ASSUME NEW c \in Contacts', NEW d \in bit_count .. c
        PROVE  d \in Contacts'
    <3>1. c \in Slots \ Contacts /\ d \in Slots \ Contacts /\ d <= c
      BY <1>3, <1>4, <2>2, Sizes DEF TypeOK, BitsFollow
    <3> QED
      BY <1>1, <3>1
  <2>6. bit_count' >= 1 /\ persistent' \subseteq Contacts' /\ contact_new' \subseteq Contacts'
        /\ \A c \in persistent' : c < bit_count'
    BY <1>1, <1>2, <1>3 DEF BitsFollow
  <2> QED
    BY <1>1, <1>2, <2>1, <2>3, <2>4, <2>5, <2>6 DEF BitsFollow
<1>10. StirredAwake'
  <2>1. \A p \in Keys : p \subseteq bodies /\ ~(p \in touching <=> p \in Range(key))
                          => \E b \in p : b \in moved \cup added
    BY <1>2
  <2>2. ASSUME sleep_enabled, NEW c \in contact_new', key'[c] \subseteq Dynamic
        PROVE  \E b \in key'[c] : "awake" \in island[island_index[b]].flags
    <3>1. PICK b \in key'[c] : b \in moved \cup added
      BY <1>5, <2>1, <2>2
    <3>2. b \in (moved \cup added) \cap Dynamic
      BY <2>2, <3>1
    <3> QED
      BY <1>3, <2>2, <3>1, <3>2 DEF StirredAwake, Awake
  <2>3. ASSUME sleep_enabled, NEW c \in persistent \ frame', key[c] \cap Static # {},
               NEW b \in key[c] \cap Dynamic
        PROVE  "awake" \in island[island_index[b]].flags
    <3>1. c \in Slots /\ c < bit_count /\ key[c] \in Keys /\ key'[c] = key[c]
      BY <1>1, <1>3, <1>4, <2>3 DEF TypeOK, BitsFollow
    <3>2. key[c] \notin touching
      BY <1>2, <2>3, <3>1
    <3>3. key[c] \in Range(key) /\ key[c] \subseteq bodies
      BY <1>3, <3>1 DEF Range, TypeOK, BitsFollow
    <3>4. PICK x \in key[c] : x \in moved
      BY <1>3, <2>1, <3>1, <3>2, <3>3 DEF StirredAwake
    <3>5. x \in moved \cap Dynamic
      BY <1>3, <3>4 DEF StirredAwake
    <3>6. PICK s \in key[c] : s \in Static /\ s \notin Dynamic
      BY <2>3, Sizes
    <3>7. b = x
      BY <3>1, <3>4, <3>5, <3>6 DEF Keys
    <3> QED
      BY <1>3, <2>3, <3>5, <3>7 DEF StirredAwake, Awake
  <2>4. \A c \in Slots : key'[c] \cap added' = {}
    BY <1>2
  <2>5. \A c \in persistent : key'[c] = key[c]
    BY <1>1
  <2> QED
    BY <1>1, <1>2, <1>6, <2>2, <2>3, <2>4, <2>5 DEF StirredAwake, Awake, DynamicBodies
<1>11. SleepTogether'
  BY <1>1, <1>2, <1>3 DEF SleepTogether, Islands, Awake
<1> QED
  BY <1>7, <1>8, <1>9, <1>10, <1>11 DEF IInv

--------------------------------------------------------------------------------
(* MergeIslands *)

(* The bodies of a contact that is to be settled, and their islands.       *)
LEMMA NewContact ==
  ASSUME IInv, NEW c \in contact_new
  PROVE  /\ c \in Slots /\ key[c] \in Keys /\ key[c] \subseteq bodies
         /\ \A b \in key[c] : b \in Dynamic => b \in bodies \cap Dynamic
         /\ Settled[c] = {}
         /\ Settled' = [x \in Slots |-> IF x \in contact_new' THEN {} ELSE key'[x]]
<1>1. c \in Contacts /\ key \in [Slots -> Keys \cup {{}}]
  BY DEF IInv, TypeOK, BitsFollow
<1> QED
  BY <1>1 DEF IInv, BitsFollow, Contacts, Settled

(* The states of expand and merge, the islands of b0 and b1, before and     *)
(* after they are merged.                                                  *)
Merging(c, b0, b1, expand, merge) ==
  /\ key[c] = {b0, b1} /\ b0 \in bodies \cap Dynamic /\ b1 \in bodies \cap Dynamic
  /\ expand \in Dynamic /\ merge \in Dynamic /\ expand # merge
  /\ expand = island_index[b0] /\ merge = island_index[b1]
  /\ b0 \in island[expand].bodies /\ b1 \in island[merge].bodies
  /\ island'[expand].flags = MergedFlags(expand, merge)
  /\ island'[expand].bodies = island[expand].bodies \cup island[merge].bodies
  /\ island'[expand].contacts = island[expand].contacts \cup island[merge].contacts \cup {c}
  /\ island'[merge] = Unallocated
  /\ \A i \in Dynamic \ {expand, merge} : island'[i] = island[i]
  /\ island' \in [Dynamic -> Records]
  /\ \A b \in bodies \cap Dynamic :
       island_index'[b] = (IF island_index[b] = merge THEN expand ELSE island_index[b])
  /\ island_index' \in [Bodies -> Dynamic \cup {ISLAND_STATIC, ISLAND_NULL}]
  /\ failed' = (sleep_enabled /\ ~Awake(expand) /\ ~Awake(merge))

LEMMA MergeResult ==
  ASSUME IInv, NEW c \in Slots, MergeTwoIslands(c)
  PROVE  \E b0, b1, expand, merge : Merging(c, b0, b1, expand, merge)
<1> DEFINE b0 == Min(key[c])
           b1 == Max(key[c])
           expand == island_index[b0]
           merge == island_index[b1]
           merged == [flags |-> MergedFlags(expand, merge),
                      bodies |-> island[expand].bodies \cup island[merge].bodies,
                      contacts |-> island[expand].contacts \cup island[merge].contacts
                                     \cup {c}]
<1>1. /\ c \in contact_new /\ key[c] \subseteq Dynamic /\ expand # merge
      /\ island' = [island EXCEPT ![expand] = merged, ![merge] = Unallocated]
      /\ island_index' = [b \in Bodies |-> IF b \in island[merge].bodies THEN expand
                                           ELSE island_index[b]]
      /\ failed' = (sleep_enabled /\ ~Awake(expand) /\ ~Awake(merge))
  BY DEF MergeTwoIslands
<1>2. key[c] \in Keys /\ key[c] \subseteq bodies
  BY <1>1, NewContact
<1>3. key[c] = {b0, b1} /\ b0 \in bodies \cap Dynamic /\ b1 \in bodies \cap Dynamic
  BY <1>1, <1>2, KeyPair
<1>4. TypeOK /\ island \in [Dynamic -> Records] /\ Dynamic \subseteq Bodies
  BY DEF IInv, TypeOK, Records, Bodies
<1> HIDE DEF b0, b1
<1>5. /\ expand \in Dynamic /\ merge \in Dynamic
      /\ b0 \in island[expand].bodies /\ b1 \in island[merge].bodies
  BY <1>3, BodiesHoused
<1>6. merged \in Records
  <2>1. island[expand] \in Records /\ island[merge] \in Records
    BY <1>4, <1>5
  <2>2. MergedFlags(expand, merge) \in SUBSET Flags
    BY <2>1 DEF Records, MergedFlags, Flags
  <2> QED
    BY <2>1, <2>2 DEF Records
<1>7. Unallocated \in Records
  BY DEF Unallocated, Records
<1>8. \A b \in bodies \cap Dynamic : b \in island[merge].bodies <=> island_index[b] = merge
  BY <1>5, BodiesHoused
<1>9. /\ merged.flags = MergedFlags(expand, merge)
      /\ merged.bodies = island[expand].bodies \cup island[merge].bodies
      /\ merged.contacts = island[expand].contacts \cup island[merge].contacts \cup {c}
  OBVIOUS
<1> HIDE DEF expand, merge, merged, Records
<1>11. /\ island'[expand] = merged /\ island'[merge] = Unallocated
       /\ \A i \in Dynamic \ {expand, merge} : island'[i] = island[i]
       /\ island' \in [Dynamic -> Records]
  BY <1>1, <1>4, <1>5, <1>6, <1>7
<1>12. /\ \A b \in bodies \cap Dynamic :
            island_index'[b] = (IF island_index[b] = merge THEN expand ELSE island_index[b])
       /\ island_index' \in [Bodies -> Dynamic \cup {ISLAND_STATIC, ISLAND_NULL}]
  <2>1. \A b \in Bodies : (IF b \in island[merge].bodies THEN expand ELSE island_index[b])
                            \in Dynamic \cup {ISLAND_STATIC, ISLAND_NULL}
    BY <1>4, <1>5 DEF TypeOK
  <2> QED
    BY <1>1, <1>4, <1>8, <2>1
<1>13. /\ island'[expand].flags = MergedFlags(expand, merge)
       /\ island'[expand].bodies = island[expand].bodies \cup island[merge].bodies
       /\ island'[expand].contacts
            = island[expand].contacts \cup island[merge].contacts \cup {c}
  BY <1>9, <1>11
<1>14. expand = island_index[b0] /\ merge = island_index[b1]
  BY DEF expand, merge
<1>15. Merging(c, b0, b1, expand, merge)
  BY <1>1, <1>3, <1>5, <1>11, <1>12, <1>13, <1>14 DEF Merging
<1> QED
  BY <1>15

LEMMA MergePartition ==
  ASSUME IInv, NEW c \in Slots, MergeTwoIslands(c)
  PROVE  Partition(island_index', island', bodies' \cap Dynamic, Settled')
<1> DEFINE B == bodies \cap Dynamic
<1>0. PICK b0, b1, expand, merge : Merging(c, b0, b1, expand, merge)
  BY MergeResult
<1>1. /\ key[c] = {b0, b1} /\ b0 \in B /\ b1 \in B
      /\ expand \in Dynamic /\ merge \in Dynamic /\ expand # merge
      /\ expand = island_index[b0] /\ merge = island_index[b1]
      /\ b0 \in island[expand].bodies /\ b1 \in island[merge].bodies
      /\ island'[expand].bodies = island[expand].bodies \cup island[merge].bodies
      /\ island'[expand].contacts
           = island[expand].contacts \cup island[merge].contacts \cup {c}
      /\ island'[merge] = Unallocated
      /\ \A i \in Dynamic \ {expand, merge} : island'[i] = island[i]
      /\ \A b \in B :
           island_index'[b] = (IF island_index[b] = merge THEN expand ELSE island_index[b])
  BY <1>0 DEF Merging
<1>2. c \in contact_new /\ contact_new' = contact_new \ {c}
      /\ UNCHANGED <<bodies, key>>
  BY DEF MergeTwoIslands
<1> DEFINE k == Settled
           l == Settled'
<1>3. /\ k[c] = {} /\ l[c] = {b0, b1}
      /\ \A x \in Slots \ {c} : l[x] = k[x]
      /\ \A x \in Slots : k[x] \subseteq l[x] /\ l[x] \cap Dynamic \subseteq B
  <2>1. \A x \in Slots : key[x] \subseteq bodies
    BY DEF IInv, BitsFollow
  <2>2. /\ l = [x \in Slots |-> IF x \in contact_new' THEN {} ELSE key'[x]]
        /\ k = [x \in Slots |-> IF x \in contact_new THEN {} ELSE key[x]]
    BY DEF Settled
  <2> HIDE DEF k, l
  <2> QED
    BY <1>1, <1>2, <2>1, <2>2
<1>4. Partition(island_index, island, B, k)
  BY DEF IInv
<1>5. /\ \A b \in B : island_index[b] \in Dynamic /\ b \in island[island_index[b]].bodies
      /\ \A i \in Dynamic : \A b \in island[i].bodies : b \in B /\ island_index[b] = i
      /\ \A i \in Dynamic : island[i].bodies = {} => island[i] = Unallocated
      /\ \A i \in Dynamic : island[i].bodies # {} => i \in island[i].bodies
  BY BodiesHoused
<1> HIDE DEF k, l, B
<1>6. Unallocated.bodies = {} /\ Unallocated.contacts = {}
  BY DEF Unallocated
<1>7. Housed(island_index', island', B)
  <2>1. ASSUME NEW b \in B
        PROVE  island_index'[b] \in Dynamic /\ b \in island'[island_index'[b]].bodies
    <3>1. CASE island_index[b] \in {expand, merge}
      BY <1>1, <1>5, <2>1, <3>1
    <3>2. CASE island_index[b] \notin {expand, merge}
      BY <1>1, <1>5, <2>1, <3>2
    <3> QED
      BY <3>1, <3>2
  <2>2. ASSUME NEW i \in Dynamic, NEW b \in island'[i].bodies
        PROVE  b \in B /\ island_index'[b] = i
    <3>1. CASE i = expand
      BY <1>1, <1>5, <2>2, <3>1
    <3>2. CASE i \notin {expand, merge}
      BY <1>1, <1>5, <2>2, <3>2
    <3> QED
      BY <1>1, <1>6, <2>2, <3>1, <3>2
  <2>3. ASSUME NEW i \in Dynamic, island'[i].bodies = {}
        PROVE  island'[i] = Unallocated
    BY <1>1, <1>5, <2>3
  <2> QED
    BY <2>1, <2>2, <2>3 DEF Housed
<1>8. Named(island')
  <2>1. ASSUME NEW i \in Dynamic, island'[i].bodies # {}
        PROVE  i \in island'[i].bodies
    BY <1>1, <1>5, <1>6, <2>1
  <2> QED
    BY <2>1 DEF Named
<1>9. Listed(island_index', island', l)
  <2> SUFFICES ASSUME NEW x \in Slots, NEW i \in Dynamic
               PROVE  x \in island'[i].contacts <=>
                        \E b \in l[x] \cap Dynamic : island_index'[b] = i
    BY DEF Listed
  <2>1. \A j \in Dynamic : x \in island[j].contacts <=>
                             \E b \in k[x] \cap Dynamic : island_index[b] = j
    BY <1>4 DEF Partition, Listed
  <2>2. \A b \in l[x] \cap Dynamic : b \in B
    BY <1>3
  <2>3. CASE i = merge
    BY <1>1, <1>6, <2>2, <2>3
  <2>4. CASE i = expand
    <3>1. CASE x = c
      <4>1. b0 \in l[x] \cap Dynamic
        BY <1>1, <1>3, <3>1 DEF B
      <4> QED
        BY <1>1, <2>4, <3>1, <4>1
    <3>2. CASE x # c
      <4>1. l[x] = k[x] /\ (x \in island'[i].contacts <=>
                              x \in island[expand].contacts \/ x \in island[merge].contacts)
        BY <1>1, <1>3, <2>4, <3>2
      <4>2. \A b \in l[x] \cap Dynamic : island_index'[b] = i <=>
                             island_index[b] = expand \/ island_index[b] = merge
        BY <1>1, <2>2, <2>4
      <4> QED
        BY <1>1, <2>1, <4>1, <4>2
    <3> QED
      BY <3>1, <3>2
  <2>5. CASE i \notin {expand, merge}
    <3>1. island'[i] = island[i]
      BY <1>1, <2>5
    <3>2. \A b \in l[x] \cap Dynamic : island_index'[b] = i <=> island_index[b] = i
      BY <1>1, <2>2, <2>5
    <3>3. CASE x = c
      BY <1>1, <1>3, <2>1, <2>5, <3>1, <3>2, <3>3
    <3>4. CASE x # c
      BY <1>3, <2>1, <3>1, <3>2, <3>4
    <3> QED
      BY <3>3, <3>4
  <2> QED
    BY <2>3, <2>4, <2>5
<1>10. Together(island_index', l)
  <2> SUFFICES ASSUME NEW x \in Slots, NEW b \in l[x] \cap Dynamic, NEW d \in l[x] \cap Dynamic
               PROVE  island_index'[b] = island_index'[d]
    BY DEF Together
  <2>1. b \in B /\ d \in B
    BY <1>3
  <2>2. CASE x = c
    BY <1>1, <1>3, <2>2
  <2>3. CASE x # c
    <3>1. island_index[b] = island_index[d]
      BY <1>3, <1>4, <2>3 DEF Partition, Together
    <3> QED
      BY <1>1, <2>1, <3>1
  <2> QED
    BY <2>2, <2>3
<1>11. ASSUME NEW i \in Dynamic
       PROVE  Joined(island', l, i)
  <2> SUFFICES ASSUME NEW S \in SUBSET Dynamic, Closed(S, l), S \cap island'[i].bodies # {}
               PROVE  island'[i].bodies \subseteq S
    BY DEF Joined
  <2>1. Closed(S, k)
    BY <1>3 DEF Closed
  <2>2. \A j \in Dynamic : S \cap island[j].bodies # {} => island[j].bodies \subseteq S
    BY <1>4, <2>1 DEF Partition, Joined
  <2>3. b0 \in S <=> b1 \in S
    <3>1. b0 \in l[c] \cap Dynamic /\ b1 \in l[c] \cap Dynamic
      BY <1>1, <1>3 DEF B
    <3> QED
      BY <3>1 DEF Closed
  <2>4. CASE i = expand
    BY <1>1, <2>2, <2>3, <2>4
  <2>5. CASE i # expand
    BY <1>1, <1>6, <2>2, <2>5
  <2> QED
    BY <2>4, <2>5
<1>12. Partition(island_index', island', B, l)
  BY <1>7, <1>8, <1>9, <1>10, <1>11 DEF Partition
<1>13. bodies' \cap Dynamic = B
  BY <1>2 DEF B
<1> QED
  BY <1>12, <1>13 DEF l

(* A merge of two islands and the setting of a contact, whichever way.     *)
LEMMA SettleIInv ==
  ASSUME IInv, NEW c \in contact_new, pc = "merge", contact_new' = contact_new \ {c},
         failed' \in BOOLEAN, island' \in [Dynamic -> Records],
         island_index' \in [Bodies -> Dynamic \cup {ISLAND_STATIC, ISLAND_NULL}],
         UNCHANGED <<sleep_enabled, bodies, rb_awake, low_velocity_time, key, persistent,
                     bit_count, frame, frame_bit_count, pc, moved, added, edits>>,
         Partition(island_index', island', bodies' \cap Dynamic, Settled'),
         sleep_enabled => \A b \in bodies \cap Dynamic :
           "awake" \in island[island_index[b]].flags => "awake" \in island'[island_index'[b]].flags,
         sleep_enabled => \A i \in Dynamic : island'[i].bodies # {} =>
           \/ island'[i].bodies = island[i].bodies /\ island'[i].flags = island[i].flags
           \/ "awake" \in island'[i].flags /\ "try_sleep" \notin island'[i].flags
  PROVE  IInv'
<1>1. TypeOK /\ BitsFollow /\ StirredAwake /\ SleepTogether
  BY DEF IInv
<1>2. TypeOK'
  BY <1>1 DEF TypeOK, Records
<1>3. Contacts' = Contacts
  BY DEF Contacts
<1>4. BitsFollow'
  BY <1>1, <1>3 DEF BitsFollow
<1>5. \A x \in Slots : key[x] \subseteq bodies
  BY <1>1 DEF BitsFollow
<1>6. StirredAwake'
  <2>1. ASSUME sleep_enabled, NEW x \in contact_new', key[x] \subseteq Dynamic
        PROVE  \E b \in key[x] : "awake" \in island'[island_index'[b]].flags
    <3>1. PICK b \in key[x] : "awake" \in island[island_index[b]].flags
      BY <1>1, <2>1 DEF StirredAwake, Awake
    <3>2. b \in bodies \cap Dynamic
      BY <1>1, <1>5, <2>1, <3>1 DEF TypeOK
    <3> QED
      BY <2>1, <3>1, <3>2
  <2>2. ASSUME sleep_enabled, NEW x \in persistent \ frame, key[x] \cap Static # {},
               NEW b \in key[x] \cap Dynamic
        PROVE  "awake" \in island'[island_index'[b]].flags
    <3>1. "awake" \in island[island_index[b]].flags
      BY <1>1, <2>2 DEF StirredAwake, Awake, DynamicBodies
    <3>2. b \in bodies \cap Dynamic
      BY <1>1, <1>5, <2>2 DEF TypeOK
    <3> QED
      BY <2>2, <3>1, <3>2
  <2> QED
    BY <1>1, <2>1, <2>2 DEF StirredAwake, Awake, DynamicBodies
<1>7. SleepTogether'
  <2> SUFFICES ASSUME sleep_enabled, NEW i \in Dynamic, island'[i].bodies # {}
               PROVE  /\ "awake" \notin island'[i].flags => island'[i].bodies \cap rb_awake = {}
                      /\ "try_sleep" \in island'[i].flags => island'[i].bodies \subseteq rb_awake
    BY DEF SleepTogether, Islands, Awake
  <2>1. CASE island'[i].bodies = island[i].bodies /\ island'[i].flags = island[i].flags
    BY <1>1, <2>1 DEF SleepTogether, Islands, Awake
  <2>2. CASE "awake" \in island'[i].flags /\ "try_sleep" \notin island'[i].flags
    BY <2>2
  <2> QED
    BY <2>1, <2>2
<1> QED
  BY <1>2, <1>4, <1>6, <1>7 DEF IInv

LEMMA MergeTwoIslandsIInv ==
  ASSUME IInv, NEW c \in Slots, MergeTwoIslands(c)
  PROVE  IInv'
<1>0. PICK b0, b1, expand, merge : Merging(c, b0, b1, expand, merge)
  BY MergeResult
<1>1. /\ expand \in Dynamic /\ merge \in Dynamic /\ expand # merge
      /\ island'[expand].flags = MergedFlags(expand, merge)
      /\ island'[merge] = Unallocated
      /\ \A i \in Dynamic \ {expand, merge} : island'[i] = island[i]
      /\ island' \in [Dynamic -> Records]
      /\ \A b \in bodies \cap Dynamic :
           island_index'[b] = (IF island_index[b] = merge THEN expand ELSE island_index[b])
      /\ island_index' \in [Bodies -> Dynamic \cup {ISLAND_STATIC, ISLAND_NULL}]
      /\ failed' = (sleep_enabled /\ ~Awake(expand) /\ ~Awake(merge))
  BY <1>0 DEF Merging
<1>2. /\ c \in contact_new /\ pc = "merge" /\ contact_new' = contact_new \ {c}
      /\ UNCHANGED <<sleep_enabled, bodies, rb_awake, low_velocity_time, key, persistent,
                     bit_count, frame, frame_bit_count, pc, moved, added, edits>>
  BY DEF MergeTwoIslands, worldVars
<1>3. sleep_enabled => /\ "awake" \in MergedFlags(expand, merge)
                       /\ "try_sleep" \notin MergedFlags(expand, merge)
  BY DEF MergedFlags, Awake
<1>4. ASSUME sleep_enabled, NEW b \in bodies \cap Dynamic,
             "awake" \in island[island_index[b]].flags
      PROVE  "awake" \in island'[island_index'[b]].flags
  <2>1. island_index[b] \in Dynamic
    BY BodiesHoused
  <2>2. CASE island_index[b] \in {expand, merge}
    BY <1>1, <1>3, <1>4, <2>2
  <2>3. CASE island_index[b] \notin {expand, merge}
    BY <1>1, <1>4, <2>1, <2>3
  <2> QED
    BY <2>2, <2>3
<1>5. ASSUME sleep_enabled, NEW i \in Dynamic, island'[i].bodies # {}
      PROVE  \/ island'[i].bodies = island[i].bodies /\ island'[i].flags = island[i].flags
             \/ "awake" \in island'[i].flags /\ "try_sleep" \notin island'[i].flags
  <2>1. i # merge
    BY <1>1, <1>5 DEF Unallocated
  <2>2. CASE i = expand
    BY <1>1, <1>3, <1>5, <2>2
  <2>3. CASE i # expand
    BY <1>1, <2>1, <2>3
  <2> QED
    BY <2>2, <2>3
<1>6. failed' \in BOOLEAN
  BY <1>1 DEF IInv, TypeOK, Awake
<1>7. Partition(island_index', island', bodies' \cap Dynamic, Settled')
  BY MergePartition
<1> QED
  BY <1>1, <1>2, <1>4, <1>5, <1>6, <1>7, SettleIInv

LEMMA AppendResult ==
  ASSUME IInv, NEW c \in Slots, AppendContact(c)
  PROVE  /\ c \in contact_new
         /\ \A b, d \in key[c] \cap Dynamic : island_index[b] = island_index[d]
         /\ \A i \in Dynamic :
              /\ island'[i].flags = island[i].flags /\ island'[i].bodies = island[i].bodies
              /\ \A x : x \in island'[i].contacts <=>
                   \/ x \in island[i].contacts
                   \/ x = c /\ \E b \in key[c] \cap Dynamic : island_index[b] = i
              /\ (\A b \in key[c] \cap Dynamic : island_index[b] # i) => island'[i] = island[i]
         /\ island' \in [Dynamic -> Records]
<1> DEFINE homes == {island_index[b] : b \in DynamicBodies(c)}
           with(i) == [island[i] EXCEPT !.contacts = @ \cup {c}]
<1>1. /\ c \in contact_new /\ Cardinality(homes) <= 1
      /\ island' = [i \in Dynamic |-> IF i \in homes THEN with(i) ELSE island[i]]
  BY DEF AppendContact
<1>2. \A i : i \in homes <=> \E b \in key[c] \cap Dynamic : island_index[b] = i
  BY DEF DynamicBodies
<1>3. \A h, g \in homes : h = g
  <2>1. key[c] \in Keys
    BY <1>1, NewContact
  <2>2. IsFiniteSet(homes)
    <3>1. key[c] = {Min(key[c]), Max(key[c])}
      BY <2>1, KeyPair
    <3>2. homes \subseteq {island_index[Min(key[c])], island_index[Max(key[c])]}
      BY <3>1 DEF DynamicBodies
    <3>3. IsFiniteSet({island_index[Min(key[c])], island_index[Max(key[c])]})
      <4>1. /\ IsFiniteSet({island_index[Min(key[c])]})
            /\ IsFiniteSet({island_index[Max(key[c])]})
        BY FS_Singleton
      <4>2. {island_index[Min(key[c])], island_index[Max(key[c])]}
              = {island_index[Min(key[c])]} \cup {island_index[Max(key[c])]}
        OBVIOUS
      <4> QED
        BY <4>1, <4>2, FS_Union
    <3> HIDE DEF homes
    <3> QED
      BY <3>2, <3>3, FS_Subset
  <2> HIDE DEF homes
  <2>3. SUFFICES ASSUME NEW h \in homes, NEW g \in homes, h # g
                 PROVE  FALSE
    OBVIOUS
  <2>4. Cardinality(homes \ {h}) = Cardinality(homes) - 1 /\ IsFiniteSet(homes \ {h})
    BY <2>2, FS_RemoveElement
  <2>5. Cardinality(homes \ {h}) \in Nat /\ Cardinality(homes) \in Nat
    BY <2>2, <2>4, FS_CardinalityType
  <2>6. Cardinality(homes \ {h}) = 0
    BY <1>1, <2>4, <2>5
  <2>7. homes \ {h} = {}
    BY <2>4, <2>6, FS_EmptySet
  <2> QED
    BY <2>3, <2>7
<1>4. island \in [Dynamic -> Records]
  BY DEF IInv, TypeOK, Records
<1>5. ASSUME NEW i \in Dynamic
      PROVE  /\ with(i) \in Records /\ with(i).flags = island[i].flags
             /\ with(i).bodies = island[i].bodies
             /\ with(i).contacts = island[i].contacts \cup {c}
  BY <1>4 DEF Records
<1> HIDE DEF homes, with, Records
<1>6. \A i \in Dynamic : island'[i] = IF i \in homes THEN with(i) ELSE island[i]
  BY <1>1
<1>7. island' \in [Dynamic -> Records]
  BY <1>1, <1>4, <1>5
<1>8. \A b, d \in key[c] \cap Dynamic : island_index[b] = island_index[d]
  BY <1>2, <1>3
<1>9. ASSUME NEW i \in Dynamic
      PROVE  /\ island'[i].flags = island[i].flags /\ island'[i].bodies = island[i].bodies
             /\ \A x : x \in island'[i].contacts <=>
                  \/ x \in island[i].contacts
                  \/ x = c /\ \E b \in key[c] \cap Dynamic : island_index[b] = i
             /\ (\A b \in key[c] \cap Dynamic : island_index[b] # i) => island'[i] = island[i]
  <2>1. CASE i \in homes
    BY <1>2, <1>5, <1>6, <2>1
  <2>2. CASE i \notin homes
    BY <1>2, <1>6, <2>2
  <2> QED
    BY <2>1, <2>2
<1> QED
  BY <1>1, <1>7, <1>8, <1>9

LEMMA AppendPartition ==
  ASSUME IInv, NEW c \in Slots, AppendContact(c)
  PROVE  Partition(island_index', island', bodies' \cap Dynamic, Settled')
<1> DEFINE B == bodies \cap Dynamic
           k == Settled
           l == Settled'
<1>1. /\ c \in contact_new
      /\ \A b, d \in key[c] \cap Dynamic : island_index[b] = island_index[d]
      /\ \A i \in Dynamic :
           /\ island'[i].flags = island[i].flags /\ island'[i].bodies = island[i].bodies
           /\ \A x : x \in island'[i].contacts <=>
                \/ x \in island[i].contacts
                \/ x = c /\ \E b \in key[c] \cap Dynamic : island_index[b] = i
           /\ (\A b \in key[c] \cap Dynamic : island_index[b] # i) => island'[i] = island[i]
  BY AppendResult
<1>2. /\ contact_new' = contact_new \ {c}
      /\ UNCHANGED <<bodies, key, island_index>>
  BY DEF AppendContact, bodyVars
<1>3. /\ k[c] = {} /\ l[c] = key[c]
      /\ \A x \in Slots \ {c} : l[x] = k[x]
      /\ \A x \in Slots : k[x] \subseteq l[x]
  <2>1. /\ l = [x \in Slots |-> IF x \in contact_new' THEN {} ELSE key'[x]]
        /\ k = [x \in Slots |-> IF x \in contact_new THEN {} ELSE key[x]]
    BY DEF Settled
  <2> HIDE DEF k, l
  <2> QED
    BY <1>1, <1>2, <2>1
<1>4. Partition(island_index, island, B, k)
  BY DEF IInv
<1>5. /\ \A b \in B : island_index[b] \in Dynamic /\ b \in island[island_index[b]].bodies
      /\ \A i \in Dynamic : \A b \in island[i].bodies : b \in B /\ island_index[b] = i
      /\ \A i \in Dynamic : island[i].bodies = {} => island[i] = Unallocated
      /\ \A i \in Dynamic : island[i].bodies # {} => i \in island[i].bodies
  BY BodiesHoused
<1>6. \A b \in key[c] \cap Dynamic : b \in B
  BY <1>1, NewContact
<1> HIDE DEF k, l, B
<1>7. Housed(island_index, island', B) /\ Named(island')
  <2>1. ASSUME NEW i \in Dynamic, island'[i].bodies = {}
        PROVE  island'[i] = Unallocated
    <3>1. \A b \in key[c] \cap Dynamic : island_index[b] # i
      BY <1>1, <1>5, <1>6, <2>1
    <3> QED
      BY <1>1, <1>5, <2>1, <3>1
  <2> QED
    BY <1>1, <1>5, <2>1 DEF Housed, Named
<1>8. Listed(island_index, island', l)
  <2> SUFFICES ASSUME NEW x \in Slots, NEW i \in Dynamic
               PROVE  x \in island'[i].contacts <=>
                        \E b \in l[x] \cap Dynamic : island_index[b] = i
    BY DEF Listed
  <2>1. x \in island[i].contacts <=> \E b \in k[x] \cap Dynamic : island_index[b] = i
    BY <1>4 DEF Partition, Listed
  <2>2. CASE x = c
    BY <1>1, <1>3, <2>1, <2>2
  <2>3. CASE x # c
    BY <1>1, <1>3, <2>1, <2>3
  <2> QED
    BY <2>2, <2>3
<1>9. Together(island_index, l)
  <2> SUFFICES ASSUME NEW x \in Slots, NEW b \in l[x] \cap Dynamic, NEW d \in l[x] \cap Dynamic
               PROVE  island_index[b] = island_index[d]
    BY DEF Together
  <2>1. CASE x = c
    BY <1>1, <1>3, <2>1
  <2>2. CASE x # c
    BY <1>3, <1>4, <2>2 DEF Partition, Together
  <2> QED
    BY <2>1, <2>2
<1>10. ASSUME NEW i \in Dynamic
       PROVE  Joined(island', l, i)
  <2> SUFFICES ASSUME NEW S \in SUBSET Dynamic, Closed(S, l), S \cap island'[i].bodies # {}
               PROVE  island'[i].bodies \subseteq S
    BY DEF Joined
  <2>1. Closed(S, k)
    BY <1>3 DEF Closed
  <2> QED
    BY <1>1, <1>4, <2>1 DEF Partition, Joined
<1>11. Partition(island_index, island', B, l)
  BY <1>7, <1>8, <1>9, <1>10 DEF Partition
<1>12. bodies' \cap Dynamic = B /\ island_index' = island_index
  BY <1>2 DEF B
<1> QED
  BY <1>11, <1>12 DEF l

LEMMA AppendContactIInv ==
  ASSUME IInv, NEW c \in Slots, AppendContact(c)
  PROVE  IInv'
<1>1. /\ c \in contact_new
      /\ \A i \in Dynamic :
           /\ island'[i].flags = island[i].flags /\ island'[i].bodies = island[i].bodies
      /\ island' \in [Dynamic -> Records]
  BY AppendResult
<1>2. /\ pc = "merge" /\ contact_new' = contact_new \ {c} /\ island_index' = island_index
      /\ failed' \in BOOLEAN
      /\ UNCHANGED <<sleep_enabled, bodies, rb_awake, low_velocity_time, key, persistent,
                     bit_count, frame, frame_bit_count, pc, moved, added, edits>>
  BY DEF AppendContact, bodyVars, worldVars
<1>3. island_index' \in [Bodies -> Dynamic \cup {ISLAND_STATIC, ISLAND_NULL}]
  BY <1>2 DEF IInv, TypeOK
<1>4. \A b \in bodies \cap Dynamic :
        "awake" \in island[island_index[b]].flags => "awake" \in island'[island_index'[b]].flags
  BY <1>1, <1>2, BodiesHoused
<1>5. Partition(island_index', island', bodies' \cap Dynamic, Settled')
  BY AppendPartition
<1> QED
  BY <1>1, <1>2, <1>3, <1>4, <1>5, SettleIInv

--------------------------------------------------------------------------------
(* SplitIslandsAndRemoveContacts *)

(* The contacts that are removed are those the frame does not confirm, and *)
(* the islands that are split are those of two dynamic bodies of them.     *)
LEMMA BrokenSplits ==
  ASSUME IInv, SplitIslandsAndRemoveContacts
  PROVE  /\ pc = "merge" /\ contact_new = {} /\ frame_bit_count = bit_count
         /\ key' = [c \in Slots |-> IF c \in persistent \ frame THEN {} ELSE key[c]]
         /\ \A c \in Slots : key'[c] # {} => InFrame(c)
         /\ failed' \in BOOLEAN
         /\ \E I, isl :
              /\ Splitting(bodies \cap Dynamic, bodies \cap Dynamic, persistent \ frame,
                           I, isl, key', {})
              /\ SplitIslands(I, isl, key', {})
              /\ \A i \in Dynamic : isl[i].flags = island[i].flags
<1> DEFINE B == bodies \cap Dynamic
           D == {c \in persistent : c < frame_bit_count /\ c \notin frame}
           split == {island_index[Min(key[c])] : c \in {d \in D : NeedsSplit(d)}}
           isl == [i \in Dynamic |-> [island[i] EXCEPT !.contacts = @ \ D]]
           k == [c \in Slots |-> IF c \in D THEN {} ELSE key[c]]
<1>1. /\ pc = "merge" /\ contact_new = {} /\ key' = k
      /\ SplitIslands(split, isl, k, {}) /\ failed' \in BOOLEAN
  BY DEF SplitIslandsAndRemoveContacts
<1>2. TypeOK /\ BitsFollow
  BY DEF IInv
<1>3. /\ D = persistent \ frame /\ frame_bit_count = bit_count /\ persistent \subseteq Contacts
      /\ D \subseteq Slots
  BY <1>1, <1>2 DEF BitsFollow, TypeOK
<1>4. /\ island_index \in [Bodies -> Dynamic \cup {ISLAND_STATIC, ISLAND_NULL}]
      /\ island \in [Dynamic -> Records]
      /\ key \in [Slots -> Keys \cup {{}}]
      /\ \A c \in Slots : key[c] \subseteq bodies
  BY <1>2 DEF TypeOK, BitsFollow, Records
<1>5. Partition(island_index, island, B, key)
  <2>1. Settled = [c \in Slots |-> key[c]]
    BY <1>1 DEF Settled
  <2>2. Settled = key
    BY <1>4, <2>1
  <2> QED
    BY <2>2 DEF IInv
<1>6. /\ \A x \in B : island_index[x] \in Dynamic
      /\ \A j \in Dynamic : \A x \in island[j].bodies : x \in B
      /\ \A j \in Dynamic : island[j].bodies = {} => island[j] = Unallocated
  BY BodiesHoused
<1>7. ASSUME NEW c \in D, key[c] \subseteq Dynamic
      PROVE  /\ Min(key[c]) \in B /\ island_index[Min(key[c])] \in split
             /\ \A x \in key[c] : island_index[x] = island_index[Min(key[c])]
  <2>1. c \in Slots /\ key[c] \in Keys
    BY <1>3, <1>4, <1>7 DEF Contacts
  <2>2. Min(key[c]) \in key[c]
    BY <2>1, KeyPair
  <2>3. Min(key[c]) \in B
    BY <1>4, <1>7, <2>1, <2>2
  <2>4. \A x \in key[c] : island_index[x] = island_index[Min(key[c])]
    BY <1>5, <1>7, <2>1, <2>2 DEF Partition, Together
  <2>5. island_index[Min(key[c])] \in split
    BY <1>7 DEF NeedsSplit
  <2> QED
    BY <2>3, <2>4, <2>5
<1>8. split \subseteq Dynamic
  BY <1>6, <1>7 DEF NeedsSplit
<1> HIDE DEF B, D, split
<1>9. /\ isl \in [Dynamic -> Records]
      /\ \A i \in Dynamic : /\ isl[i].bodies = island[i].bodies
                            /\ isl[i].contacts = island[i].contacts \ D
                            /\ isl[i].flags = island[i].flags
                            /\ island[i] = Unallocated => isl[i] = Unallocated
  <2>1. \A i \in Dynamic : isl[i] \in Records
    BY <1>4 DEF Records
  <2>2. isl \in [Dynamic -> Records]
    <3> HIDE DEF Records
    <3> QED
      BY <2>1
  <2>3. ASSUME NEW i \in Dynamic
        PROVE  /\ isl[i].bodies = island[i].bodies
               /\ isl[i].contacts = island[i].contacts \ D
               /\ isl[i].flags = island[i].flags
    BY <1>4 DEF Records
  <2>4. ASSUME NEW i \in Dynamic, island[i] = Unallocated
        PROVE  isl[i] = Unallocated
    BY <2>4 DEF Unallocated
  <2> QED
    BY <2>2, <2>3, <2>4
<1> HIDE DEF isl
<1>10. \A i \in Dynamic : /\ isl[i].bodies = island[i].bodies \cap B
                          /\ isl[i].contacts = island[i].contacts \ D
                          /\ i \notin split /\ isl[i].bodies = {} => isl[i] = Unallocated
  BY <1>6, <1>9
<1>11. \A c \in Slots : k[c] # {} => InFrame(c)
  <2> SUFFICES ASSUME NEW c \in Slots, k[c] # {}
               PROVE  InFrame(c)
    OBVIOUS
  <2>1. c \in Contacts /\ c \notin D
    BY DEF Contacts
  <2>2. c \in persistent => c \in frame
    BY <1>3, <2>1
  <2>3. c \notin persistent => c >= bit_count \/ c \in frame
    BY <1>1, <1>2, <2>1, Sizes DEF BitsFollow, TypeOK
  <2> QED
    BY <1>3, <2>2, <2>3 DEF InFrame
<1>12. \A c \in Slots : key[c] \cap Dynamic \subseteq B /\ k[c] \cap Dynamic \subseteq B
  BY <1>4 DEF B
<1>13. Splitting(B, B, D, split, isl, k, {})
  <2>1. /\ B \subseteq Dynamic /\ B \subseteq B /\ {} \cap B = {}
        /\ \A x \in B \ B : island_index[x] \in split
    BY DEF B
  <2>2. \A c \in D : key[c] \subseteq Dynamic => \A x \in key[c] : island_index[x] \in split
    BY <1>7
  <2> QED
    BY <1>3, <1>4, <1>5, <1>8, <1>9, <1>10, <1>11, <1>12, <2>1, <2>2 DEF Splitting
<1>14. /\ Splitting(B, B, D, split, isl, key', {})
       /\ SplitIslands(split, isl, key', {})
       /\ \A i \in Dynamic : isl[i].flags = island[i].flags
  <2> HIDE DEF k
  <2>1. SplitIslands(split, isl, k, {})
    BY <1>1 DEF isl
  <2> QED
    BY <1>1, <1>9, <1>13, <2>1
<1>15. \E I, f : /\ Splitting(B, B, D, I, f, key', {}) /\ SplitIslands(I, f, key', {})
                 /\ \A i \in Dynamic : f[i].flags = island[i].flags
  BY <1>14
<1>16. \A c \in Slots : key'[c] # {} => InFrame(c)
  BY <1>1, <1>11
<1>17. key' = [c \in Slots |-> IF c \in D THEN {} ELSE key[c]]
  BY <1>1
<1> QED
  BY <1>1, <1>3, <1>15, <1>16, <1>17 DEF B

LEMMA BrokenBits ==
  ASSUME IInv, SplitIslandsAndRemoveContacts
  PROVE  BitsFollow' /\ persistent' \subseteq Slots /\ bit_count' \in Nat
         /\ key' \in [Slots -> Keys \cup {{}}]
<1> DEFINE top == Max(Contacts \cup {0})
           count_max == top + 1
<1>1. /\ pc = "merge" /\ pc' = "solve" /\ contact_new = {} /\ contact_new' = {}
      /\ frame_bit_count = bit_count
      /\ key' = [c \in Slots |-> IF c \in persistent \ frame THEN {} ELSE key[c]]
      /\ \A c \in Slots : key'[c] # {} => InFrame(c)
      /\ UNCHANGED <<bodies, frame, frame_bit_count>>
  BY BrokenSplits DEF SplitIslandsAndRemoveContacts
<1>2. /\ bit_count' = (IF bit_count < count_max THEN Length(count_max) ELSE bit_count)
      /\ persistent' = {c \in frame : c < frame_bit_count}
                         \cup (IF bit_count < count_max THEN GrownBits(count_max) ELSE {})
  BY DEF SplitIslandsAndRemoveContacts
<1>3. TypeOK /\ BitsFollow /\ Slots = 1 .. 2 * MaxTouching /\ MaxTouching \in Nat
  BY Sizes DEF IInv
<1>4. Contacts \subseteq Slots /\ Contacts \cup {0} \in SUBSET Nat
  BY <1>3 DEF Contacts
<1>5. /\ top \in Contacts \cup {0} /\ \A c \in Contacts : c <= top
      /\ top \in Nat /\ top <= 2 * MaxTouching
  <2>1. \A c \in Contacts \cup {0} : c <= 2 * MaxTouching
    BY <1>3, <1>4
  <2>2. Max(Contacts \cup {0}) \in Contacts \cup {0}
        /\ \A c \in Contacts \cup {0} : c <= Max(Contacts \cup {0})
    <3> DEFINE S == Contacts \cup {0}
               n == 2 * MaxTouching
    <3>1. S \in SUBSET Nat /\ S # {} /\ n \in Nat /\ \A c \in S : c <= n
      BY <1>3, <1>4, <2>1
    <3>2. Max(S) \in S /\ \A c \in S : c <= Max(S)
      <4> HIDE DEF S, n
      <4> QED
        BY <3>1, GreatestOf
    <3> QED
      BY <3>2
  <2> QED
    BY <1>4, <2>1, <2>2
<1> HIDE DEF top
<1>6. Length(count_max) \in Nat /\ Length(count_max) >= count_max
  <2>1. Cardinality(Slots) = 2 * MaxTouching
    <3>1. IsFiniteSet(1 .. 2 * MaxTouching)
          /\ Cardinality(1 .. 2 * MaxTouching) = IF 1 > 2 * MaxTouching THEN 0
                                                 ELSE 2 * MaxTouching - 1 + 1
      BY <1>3, FS_Interval
    <3> QED
      BY <1>3, <3>1
  <2>2. count_max \in Nat /\ count_max <= Cardinality(Slots) + 1
    BY <1>3, <1>5, <2>1
  <2> HIDE DEF count_max
  <2> QED
    BY <2>2, LengthReaches
<1>7. bit_count \in Nat /\ bit_count >= 1 /\ count_max \in Nat /\ count_max - 1 = top
  BY <1>3, <1>5 DEF TypeOK, BitsFollow
<1>8. bit_count' \in Nat /\ bit_count' >= bit_count /\ bit_count' >= count_max
  BY <1>2, <1>6, <1>7
<1>9. Contacts' = Contacts \ (persistent \ frame)
  BY <1>1, <1>3 DEF Contacts, TypeOK
<1>10. persistent' = Contacts'
  <2>1. ASSUME NEW c \in persistent'
        PROVE  c \in Contacts'
    <3>1. CASE c \in frame /\ c < frame_bit_count
      BY <1>1, <1>3, <1>9, <3>1 DEF BitsFollow
    <3>2. CASE bit_count < count_max /\ c \in GrownBits(count_max)
      <4>1. c \in bit_count .. top
        BY <1>7, <3>2 DEF GrownBits
      <4>2. top \in Contacts
        BY <1>5, <1>7, <3>2
      <4>3. c \in Contacts
        BY <1>1, <1>3, <4>1, <4>2 DEF BitsFollow
      <4>4. c \notin persistent
        BY <1>3, <1>7, <4>1 DEF BitsFollow
      <4> QED
        BY <1>9, <4>3, <4>4
    <3> QED
      BY <1>2, <2>1, <3>1, <3>2
  <2>2. ASSUME NEW c \in Contacts'
        PROVE  c \in persistent'
    <3>1. c \in Contacts /\ (c \in persistent => c \in frame) /\ c \in Nat /\ c <= top
      BY <1>4, <1>5, <1>9
    <3>2. CASE c < bit_count
      <4>1. c \in frame
        BY <1>1, <1>3, <3>1, <3>2 DEF BitsFollow
      <4> QED
        BY <1>1, <1>2, <3>2, <4>1
    <3>3. CASE c >= bit_count
      <4>1. bit_count < count_max /\ c \in GrownBits(count_max)
        BY <1>5, <1>7, <3>1, <3>3 DEF GrownBits
      <4> QED
        BY <1>2, <4>1
    <3> QED
      BY <1>7, <3>1, <3>2, <3>3
  <2> QED
    BY <2>1, <2>2
<1>11. \A c \in persistent' : c < bit_count'
  BY <1>4, <1>5, <1>7, <1>8, <1>9, <1>10
<1>12. \A c \in Slots : key'[c] \subseteq bodies'
  BY <1>1, <1>3 DEF BitsFollow
<1>13. \A c \in Contacts' : InFrame(c)'
  <2>1. \A c \in Contacts' : c \in Slots /\ key'[c] # {}
    BY DEF Contacts
  <2> QED
    BY <1>1, <2>1 DEF InFrame
<1>14. BitsFollow'
  BY <1>1, <1>7, <1>8, <1>10, <1>11, <1>12, <1>13 DEF BitsFollow
<1>15. persistent' \subseteq Slots
  BY <1>4, <1>9, <1>10
<1>16. key' \in [Slots -> Keys \cup {{}}]
  BY <1>1, <1>3 DEF TypeOK
<1> QED
  BY <1>8, <1>14, <1>15, <1>16

LEMMA SplitIslandsAndRemoveContactsIInv ==
  ASSUME IInv, SplitIslandsAndRemoveContacts
  PROVE  IInv'
<1> DEFINE B == bodies \cap Dynamic
<1>1. PICK I, isl :
        /\ Splitting(B, B, persistent \ frame, I, isl, key', {})
        /\ SplitIslands(I, isl, key', {})
        /\ \A i \in Dynamic : isl[i].flags = island[i].flags
  BY BrokenSplits
<1>2. /\ pc = "merge" /\ pc' = "solve" /\ contact_new' = {} /\ failed' \in BOOLEAN
      /\ key' = [c \in Slots |-> IF c \in persistent \ frame THEN {} ELSE key[c]]
      /\ UNCHANGED <<sleep_enabled, bodies, rb_awake, low_velocity_time, frame,
                     frame_bit_count, moved, added, edits>>
  BY BrokenSplits DEF SplitIslandsAndRemoveContacts, worldVars
<1>3. /\ BitsFollow' /\ persistent' \subseteq Slots /\ bit_count' \in Nat
      /\ key' \in [Slots -> Keys \cup {{}}]
  BY BrokenBits
<1>4. TypeOK /\ StirredAwake /\ SleepTogether
  BY DEF IInv
<1>5. /\ island_index' \in [Bodies -> Dynamic \cup {ISLAND_STATIC, ISLAND_NULL}]
      /\ island' \in [Dynamic -> Records]
  BY <1>1, SplitResult
<1>6. TypeOK'
  BY <1>2, <1>3, <1>4, <1>5 DEF TypeOK, Records
<1>7. Partition(island_index', island', bodies' \cap Dynamic, Settled')
  <2>1. Settled' = key' /\ bodies' \cap Dynamic = B
    BY <1>2, <1>3, NextSettled
  <2>2. Partition(island_index', island', B, key')
    BY <1>1, SplitPartition
  <2> HIDE DEF B
  <2> QED
    BY <2>1, <2>2
<1>8. StirredAwake'
  <2>1. moved' = {} /\ added' = {}
    BY <1>2, <1>4 DEF StirredAwake
  <2> QED
    BY <1>2, <2>1 DEF StirredAwake
<1>9. SleepTogether'
  <2> SUFFICES ASSUME sleep_enabled, NEW i \in Dynamic, island'[i].bodies # {}
               PROVE  /\ "awake" \notin island'[i].flags => island'[i].bodies \cap rb_awake = {}
                      /\ "try_sleep" \in island'[i].flags => island'[i].bodies \subseteq rb_awake
    BY <1>2 DEF SleepTogether, Islands, Awake
  <2>1. \/ island'[i].flags = NewFlags
        \/ island'[i] = isl[i] /\ isl[i].bodies = island[i].bodies
    BY <1>1, SplitFlags
  <2>2. CASE island'[i].flags = NewFlags
    BY <2>2 DEF NewFlags
  <2>3. CASE island'[i] = isl[i] /\ isl[i].bodies = island[i].bodies
    <3>1. i \in Islands /\ island'[i].flags = island[i].flags
      BY <1>1, <2>3 DEF Islands
    <3> QED
      BY <1>4, <2>3, <3>1 DEF SleepTogether, Awake
  <2> QED
    BY <2>1, <2>2, <2>3
<1> QED
  BY <1>3, <1>6, <1>7, <1>8, <1>9 DEF IInv

--------------------------------------------------------------------------------
(* SolveIslands *)

(* The islands put to sleep and the islands that are solved, before and    *)
(* after.                                                                  *)
Solving(asleep, run) ==
  /\ asleep \subseteq Islands /\ run \subseteq Islands /\ asleep \cap run = {}
  /\ \A i \in Islands : i \in asleep <=>
       sleep_enabled /\ Awake(i) /\ "try_sleep" \in island[i].flags
  /\ \A i \in Islands : i \in run <=> i \notin asleep /\ (sleep_enabled => Awake(i))
  /\ \A i \in Dynamic :
       /\ island'[i].bodies = island[i].bodies
       /\ island'[i].contacts = island[i].contacts
       /\ i \notin Islands => island'[i] = island[i]
       /\ i \in asleep => island'[i].flags = {}
       /\ i \in run => (Awake(i) => "awake" \in island'[i].flags)
       /\ i \notin asleep \cup run => island'[i] = island[i]
  /\ ~sleep_enabled => island' = island /\ rb_awake' = rb_awake
  /\ sleep_enabled => \A b : b \in rb_awake' <=>
       \/ b \in rb_awake /\ \A i \in asleep : b \notin island[i].bodies
       \/ b \notin rb_awake /\ \E i \in asleep : b \in island[i].bodies
       \/ \E i \in run : b \in island[i].bodies
  /\ \A b : b \in moved' <=> b \in moved \/ \E i \in run : b \in island[i].bodies
  /\ island' \in [Dynamic -> Records]
  /\ low_velocity_time' \in [Bodies -> 0 .. Threshold]

LEMMA SolveResult ==
  ASSUME IInv, NEW quick \in SUBSET Dynamic, SolveIslands(quick)
  PROVE  \E asleep, run : Solving(asleep, run)
<1> DEFINE solved == {i \in Islands : sleep_enabled => Awake(i)}
           asleep == {i \in solved : sleep_enabled /\ "try_sleep" \in island[i].flags}
           run == solved \ asleep
           resting == UNION {island[i].bodies : i \in asleep}
           moving == UNION {island[i].bodies : i \in run}
           start(b) == IF "reset" \in island[island_index[b]].flags THEN 0
                       ELSE low_velocity_time[b]
           time == [b \in Bodies |->
                      IF sleep_enabled /\ b \in moving
                        THEN IF b \in quick THEN start(b) ELSE LowTime(start(b))
                        ELSE low_velocity_time[b]]
           solve(i) == [island[i] EXCEPT
                          !.flags = (@ \ {"reset"}) \cup
                            (IF \A b \in island[i].bodies : time[b] >= Threshold
                               THEN {"try_sleep"} ELSE {})]
           rest(i) == [island[i] EXCEPT !.flags = {}]
           next(i) == IF i \in asleep THEN rest(i)
                      ELSE IF i \in run /\ sleep_enabled THEN solve(i) ELSE island[i]
<1>1. /\ moved' = moved \cup moving /\ low_velocity_time' = time
      /\ rb_awake' = IF sleep_enabled
                       THEN AwakeAfterSolve((rb_awake \ resting) \cup (resting \ rb_awake), moving)
                       ELSE rb_awake
      /\ island' = [i \in Dynamic |-> next(i)]
  BY DEF SolveIslands
<1>2. TypeOK /\ island \in [Dynamic -> Records] /\ Islands \subseteq Dynamic
  BY DEF IInv, TypeOK, Records, Islands
<1>3. time \in [Bodies -> 0 .. Threshold]
  <2>1. Threshold \in Nat /\ low_velocity_time \in [Bodies -> 0 .. Threshold]
    BY <1>2, Sizes DEF TypeOK
  <2>2. ASSUME NEW t \in 0 .. Threshold
        PROVE  LowTime(t) \in 0 .. Threshold
    <3>1. {t + 1, Threshold} \in SUBSET Nat
      BY <2>1
    <3>2. Min({t + 1, Threshold}) \in {t + 1, Threshold}
          /\ \A x \in {t + 1, Threshold} : Min({t + 1, Threshold}) <= x
      BY <3>1, LeastOf
    <3> QED
      BY <2>1, <3>1, <3>2 DEF LowTime
  <2>3. \A b \in Bodies : start(b) \in 0 .. Threshold
    BY <2>1
  <2> HIDE DEF moving, start
  <2> QED
    BY <2>1, <2>2, <2>3
<1>4. \A i : i \in asleep <=> i \in Islands /\ sleep_enabled /\ Awake(i)
                              /\ "try_sleep" \in island[i].flags
  OBVIOUS
<1>5. \A i : i \in run <=> i \in Islands /\ i \notin asleep /\ (sleep_enabled => Awake(i))
  OBVIOUS
<1>6. /\ \A b : b \in resting <=> \E i \in asleep : b \in island[i].bodies
      /\ \A b : b \in moving <=> \E i \in run : b \in island[i].bodies
  OBVIOUS
<1> HIDE DEF time
<1>7. ASSUME NEW i \in Dynamic
      PROVE  /\ rest(i) \in Records /\ rest(i).flags = {}
             /\ rest(i).bodies = island[i].bodies /\ rest(i).contacts = island[i].contacts
             /\ solve(i) \in Records /\ ("awake" \in island[i].flags => "awake" \in solve(i).flags)
             /\ solve(i).bodies = island[i].bodies /\ solve(i).contacts = island[i].contacts
  <2>1. island[i] \in Records
    BY <1>2
  <2> DEFINE flags == (island[i].flags \ {"reset"}) \cup
                        (IF \A b \in island[i].bodies : time[b] >= Threshold
                           THEN {"try_sleep"} ELSE {})
  <2>2. flags \in SUBSET Flags /\ ("awake" \in island[i].flags => "awake" \in flags)
    BY <2>1 DEF Records, Flags
  <2>3. solve(i) = [island[i] EXCEPT !.flags = flags]
    OBVIOUS
  <2> HIDE DEF flags, solve
  <2>4. /\ solve(i) \in Records /\ solve(i).flags = flags
        /\ solve(i).bodies = island[i].bodies /\ solve(i).contacts = island[i].contacts
    BY <2>1, <2>2, <2>3 DEF Records
  <2>5. /\ rest(i) \in Records /\ rest(i).flags = {}
        /\ rest(i).bodies = island[i].bodies /\ rest(i).contacts = island[i].contacts
    BY <2>1 DEF Records
  <2> QED
    BY <2>2, <2>4, <2>5
<1> HIDE DEF asleep, run, resting, moving, solve, rest, Records
<1>8. /\ \A i \in Dynamic : island'[i] = next(i)
      /\ island' \in [Dynamic -> Records]
  BY <1>1, <1>2, <1>7
<1>9. ASSUME NEW i \in Dynamic
      PROVE  /\ island'[i].bodies = island[i].bodies /\ island'[i].contacts = island[i].contacts
             /\ i \notin Islands => island'[i] = island[i]
             /\ i \in asleep => island'[i].flags = {}
             /\ i \in run => (Awake(i) => "awake" \in island'[i].flags)
             /\ i \notin asleep \cup run => island'[i] = island[i]
  <2>1. CASE i \in asleep
    BY <1>4, <1>5, <1>7, <1>8, <2>1
  <2>2. CASE i \in run /\ sleep_enabled
    BY <1>5, <1>7, <1>8, <2>2 DEF Awake
  <2>3. CASE i \notin asleep /\ ~(i \in run /\ sleep_enabled)
    BY <1>8, <2>3 DEF Awake
  <2> QED
    BY <2>1, <2>2, <2>3
<1>10. ~sleep_enabled => island' = island /\ rb_awake' = rb_awake
  <2> SUFFICES ASSUME ~sleep_enabled
               PROVE  island' = island /\ rb_awake' = rb_awake
    OBVIOUS
  <2>1. \A i \in Dynamic : next(i) = island[i]
    BY <1>4
  <2>2. island' = [i \in Dynamic |-> island[i]]
    BY <1>1, <2>1
  <2> QED
    BY <1>1, <1>2, <2>2
<1>11. sleep_enabled => \A b : b \in rb_awake' <=>
                \/ b \in rb_awake /\ \A i \in asleep : b \notin island[i].bodies
                \/ b \notin rb_awake /\ \E i \in asleep : b \in island[i].bodies
                \/ \E i \in run : b \in island[i].bodies
  BY <1>1, <1>6 DEF AwakeAfterSolve
<1>12. \A b : b \in moved' <=> b \in moved \/ \E i \in run : b \in island[i].bodies
  BY <1>1, <1>6
<1>13. low_velocity_time' \in [Bodies -> 0 .. Threshold]
  BY <1>1, <1>3
<1>14. /\ asleep \subseteq Islands /\ run \subseteq Islands /\ asleep \cap run = {}
       /\ \A i \in Islands : i \in asleep <=>
            sleep_enabled /\ Awake(i) /\ "try_sleep" \in island[i].flags
       /\ \A i \in Islands : i \in run <=> i \notin asleep /\ (sleep_enabled => Awake(i))
  BY <1>4, <1>5
<1> HIDE DEF next
<1>15. Solving(asleep, run)
  BY <1>8, <1>9, <1>10, <1>11, <1>12, <1>13, <1>14 DEF Solving
<1> QED
  BY <1>15

LEMMA SolveIslandsIInv ==
  ASSUME IInv, NEW quick \in SUBSET Dynamic, SolveIslands(quick)
  PROVE  IInv'
<1>0. PICK asleep, run : Solving(asleep, run)
  BY SolveResult
<1>1. /\ asleep \subseteq Islands /\ run \subseteq Islands /\ asleep \cap run = {}
      /\ \A i \in Islands : i \in asleep <=>
           sleep_enabled /\ Awake(i) /\ "try_sleep" \in island[i].flags
      /\ \A i \in Islands : i \in run <=> i \notin asleep /\ (sleep_enabled => Awake(i))
      /\ \A i \in Dynamic :
           /\ island'[i].bodies = island[i].bodies
           /\ island'[i].contacts = island[i].contacts
           /\ i \notin Islands => island'[i] = island[i]
           /\ i \in asleep => island'[i].flags = {}
           /\ i \in run => (Awake(i) => "awake" \in island'[i].flags)
           /\ i \notin asleep \cup run => island'[i] = island[i]
      /\ ~sleep_enabled => island' = island /\ rb_awake' = rb_awake
      /\ sleep_enabled => \A b : b \in rb_awake' <=>
           \/ b \in rb_awake /\ \A i \in asleep : b \notin island[i].bodies
           \/ b \notin rb_awake /\ \E i \in asleep : b \in island[i].bodies
           \/ \E i \in run : b \in island[i].bodies
      /\ \A b : b \in moved' <=> b \in moved \/ \E i \in run : b \in island[i].bodies
      /\ island' \in [Dynamic -> Records]
      /\ low_velocity_time' \in [Bodies -> 0 .. Threshold]
  BY <1>0 DEF Solving
<1>2. /\ pc = "solve" /\ pc' = "idle"
      /\ UNCHANGED <<sleep_enabled, bodies, island_index, key, persistent, bit_count, frame,
                     frame_bit_count, contact_new, added, failed, edits>>
  BY DEF SolveIslands, contactVars
<1>3. TypeOK /\ BitsFollow /\ StirredAwake /\ SleepTogether
  BY DEF IInv
<1>4. /\ \A i \in Islands : i \in Dynamic /\ island[i].bodies # {}
      /\ \A i \in Dynamic : i \in Islands <=> island[i].bodies # {}
  BY DEF Islands
<1>5. \A i \in Dynamic : \A b \in island[i].bodies :
        b \in bodies /\ b \in Dynamic /\ island_index[b] = i
  BY BodiesHoused
<1>6. moved = {} /\ added = {}
  BY <1>2, <1>3 DEF StirredAwake
<1>7. moved' \subseteq bodies /\ moved' \subseteq Dynamic
  BY <1>1, <1>4, <1>5, <1>6
<1>8. TypeOK'
  <2>1. rb_awake' \subseteq bodies
    <3>1. CASE sleep_enabled
      BY <1>1, <1>3, <1>4, <1>5, <3>1 DEF TypeOK
    <3>2. CASE ~sleep_enabled
      BY <1>1, <1>3, <3>2 DEF TypeOK
    <3> QED
      BY <3>1, <3>2
  <2>2. /\ island' \in [Dynamic -> Records]
        /\ low_velocity_time' \in [Bodies -> 0 .. Threshold]
    BY <1>1
  <2> QED
    BY <1>2, <1>3, <1>7, <2>1, <2>2 DEF TypeOK, Records
<1>9. Partition(island_index', island', bodies' \cap Dynamic, Settled')
  <2>1. Settled' = Settled /\ bodies' \cap Dynamic = bodies \cap Dynamic
    BY <1>2 DEF Settled
  <2>2. \A i \in Dynamic : /\ island'[i].bodies = island[i].bodies
                           /\ island'[i].contacts = island[i].contacts
                           /\ island[i] = Unallocated => island'[i] = Unallocated
    BY <1>1, <1>4 DEF Unallocated
  <2>3. Partition(island_index, island, bodies \cap Dynamic, Settled)
    BY DEF IInv
  <2>4. Partition(island_index', island', bodies \cap Dynamic, Settled)
    BY <1>2, <2>2, <2>3, PartitionFrame
  <2> QED
    BY <2>1, <2>4
<1>10. BitsFollow'
  <2>1. Contacts' = Contacts
    BY <1>2 DEF Contacts
  <2> QED
    BY <1>2, <1>3, <2>1 DEF BitsFollow, InFrame
<1>11. StirredAwake'
  <2>1. ASSUME sleep_enabled, NEW b \in moved'
        PROVE  b \in rb_awake' /\ "awake" \in island'[island_index[b]].flags
    <3>1. PICK i \in run : b \in island[i].bodies
      BY <1>1, <1>6, <2>1
    <3>2. i \in Dynamic /\ i \in Islands /\ island_index[b] = i
      BY <1>1, <1>4, <1>5, <3>1
    <3>3. "awake" \in island'[i].flags
      BY <1>1, <2>1, <3>1, <3>2
    <3>4. b \in rb_awake'
      BY <1>1, <2>1, <3>1
    <3> QED
      BY <3>2, <3>3, <3>4
  <2> QED
    BY <1>2, <1>3, <1>6, <1>7, <2>1 DEF StirredAwake, Awake
<1>12. SleepTogether'
  <2> SUFFICES ASSUME sleep_enabled, NEW i \in Dynamic, island'[i].bodies # {}
               PROVE  /\ "awake" \notin island'[i].flags => island'[i].bodies \cap rb_awake' = {}
                      /\ \/ "try_sleep" \in island'[i].flags
                         \/ "awake" \in island'[i].flags /\ "reset" \notin island'[i].flags
                         => island'[i].bodies \subseteq rb_awake'
    BY <1>2 DEF SleepTogether, Islands, Awake
  <2>1. i \in Islands /\ island'[i].bodies = island[i].bodies
    BY <1>1, <1>4
  <2>2. /\ "awake" \notin island[i].flags => island[i].bodies \cap rb_awake = {}
        /\ "try_sleep" \in island[i].flags => island[i].bodies \subseteq rb_awake
    BY <1>3, <2>1 DEF SleepTogether, Awake
  <2>3. \A b \in island[i].bodies : \A j \in asleep \cup run : b \in island[j].bodies <=> i = j
    BY <1>1, <1>4, <1>5
  <2>4. CASE i \in asleep
    <3>1. island'[i].flags = {} /\ island[i].bodies \subseteq rb_awake /\ i \notin run
      BY <1>1, <2>1, <2>2, <2>4
    <3>2. \A b \in island[i].bodies : b \notin rb_awake'
      BY <1>1, <2>3, <2>4, <3>1
    <3> QED
      BY <2>1, <3>1, <3>2
  <2>5. CASE i \in run
    <3>1. "awake" \in island'[i].flags
      BY <1>1, <2>1, <2>5
    <3>2. \A b \in island[i].bodies : b \in rb_awake'
      BY <1>1, <2>5
    <3> QED
      BY <2>1, <3>1, <3>2
  <2>6. CASE i \notin asleep \cup run
    <3>1. island'[i] = island[i] /\ "awake" \notin island[i].flags
      BY <1>1, <2>1, <2>6 DEF Awake
    <3>2. \A b \in island[i].bodies : b \notin rb_awake'
      BY <1>1, <2>2, <2>3, <2>6, <3>1
    <3> QED
      BY <2>1, <2>2, <3>1, <3>2
  <2> QED
    BY <2>4, <2>5, <2>6
<1> QED
  BY <1>8, <1>9, <1>10, <1>11, <1>12 DEF IInv

--------------------------------------------------------------------------------
(* The invariant *)

LEMMA InitIInv ==
  ASSUME Init
  PROVE  IInv
<1>1. TypeOK
  <2>1. 0 \in 0 .. Threshold /\ 0 \in 0 .. MaxEdits /\ 0 \in Nat /\ InitialSize \in Nat
    BY Sizes
  <2> QED
    BY <2>1 DEF Init, TypeOK, Unallocated
<1>2. Partition(island_index, island, bodies \cap Dynamic, Settled)
  <2>1. /\ \A i \in Dynamic : /\ island[i] = Unallocated /\ island[i].bodies = {}
                              /\ island[i].contacts = {}
        /\ \A c \in Slots : Settled[c] = {}
        /\ bodies \cap Dynamic = {}
    BY DEF Init, Settled, Unallocated
  <2>2. Housed(island_index, island, bodies \cap Dynamic) /\ Named(island)
    BY <2>1 DEF Housed, Named
  <2>3. Listed(island_index, island, Settled) /\ Together(island_index, Settled)
    BY <2>1 DEF Listed, Together
  <2>4. \A i \in Dynamic : Joined(island, Settled, i)
    BY <2>1 DEF Joined
  <2> QED
    BY <2>2, <2>3, <2>4 DEF Partition
<1>3. BitsFollow
  <2>1. Contacts = {}
    BY DEF Init, Contacts
  <2> QED
    BY <2>1, Sizes DEF Init, BitsFollow
<1>4. StirredAwake
  BY DEF Init, StirredAwake
<1>5. SleepTogether
  BY DEF Init, SleepTogether, Islands, Unallocated
<1> QED
  BY <1>1, <1>2, <1>3, <1>4, <1>5 DEF IInv

LEMMA StutterIInv ==
  ASSUME IInv, UNCHANGED vars
  PROVE  IInv'
<1>1. UNCHANGED <<sleep_enabled, bodies, island_index, rb_awake, low_velocity_time, island, key,
                  persistent, bit_count, frame, frame_bit_count, contact_new, pc, moved, added,
                  failed, edits>>
  BY DEF vars, bodyVars, contactVars, worldVars
<1>2. Settled' = Settled /\ Contacts' = Contacts
  BY <1>1 DEF Settled, Contacts
<1>3. TypeOK'
  BY <1>1 DEF IInv, TypeOK
<1>4. Partition(island_index', island', bodies' \cap Dynamic, Settled')
  BY <1>1, <1>2 DEF IInv
<1>5. BitsFollow'
  BY <1>1, <1>2 DEF IInv, BitsFollow, InFrame
<1>6. StirredAwake'
  BY <1>1 DEF IInv, StirredAwake, Awake, DynamicBodies
<1>7. SleepTogether'
  BY <1>1 DEF IInv, SleepTogether, Islands, Awake
<1> QED
  BY <1>3, <1>4, <1>5, <1>6, <1>7 DEF IInv

LEMMA NextIInv ==
  ASSUME IInv, [Next]_vars
  PROVE  IInv'
<1>1. ASSUME NEW b \in Bodies, AddBody(b)
      PROVE  IInv'
  BY <1>1, AddBodyIInv
<1>2. ASSUME NEW b \in Bodies, RemoveDynamicBody(b)
      PROVE  IInv'
  BY <1>2, RemoveDynamicBodyIInv
<1>3. ASSUME NEW b \in Bodies, RemoveStaticBody(b)
      PROVE  IInv'
  BY <1>3, RemoveStaticBodyIInv
<1>4. ASSUME NEW pending \in BOOLEAN, UpdateSolverConfig(pending)
      PROVE  IInv'
  BY <1>4, UpdateSolverConfigIInv
<1>5. ASSUME NEW touching \in SUBSET {p \in Keys : p \subseteq bodies},
             CollisionDetection(touching)
      PROVE  IInv'
  BY <1>5, CollisionDetectionIInv
<1>6. ASSUME NEW c \in Slots, MergeTwoIslands(c)
      PROVE  IInv'
  BY <1>6, MergeTwoIslandsIInv
<1>7. ASSUME NEW c \in Slots, AppendContact(c)
      PROVE  IInv'
  BY <1>7, AppendContactIInv
<1>8. CASE SplitIslandsAndRemoveContacts
  BY <1>8, SplitIslandsAndRemoveContactsIInv
<1>9. ASSUME NEW quick \in SUBSET Dynamic, SolveIslands(quick)
      PROVE  IInv'
  BY <1>9, SolveIslandsIInv
<1>10. CASE UNCHANGED vars
  BY <1>10, StutterIInv
<1> QED
  BY <1>1, <1>2, <1>3, <1>4, <1>5, <1>6, <1>7, <1>8, <1>9, <1>10 DEF Next

(* The inductive invariant holds of the pipeline.                          *)
THEOREM Invariance == Spec => []IInv
<1>1. Init => IInv
  BY InitIInv
<1>2. IInv /\ [Next]_vars => IInv'
  BY NextIInv
<1> QED
  BY <1>1, <1>2, PTL DEF Spec

(* The variables of the pipeline keep their types.                         *)
THEOREM TypeCorrect == Spec => []TypeOK
<1>1. IInv => TypeOK
  BY DEF IInv
<1> QED
  BY <1>1, Invariance, PTL

(* Outside MergeIslands and the split, the islands are the connected       *)
(* components of the dynamic bodies: what merging by one contact at a time *)
(* and splitting by search leave is what the contacts define.              *)
THEOREM Components == Spec => []IslandsAreComponents
<1>1. ASSUME IInv
      PROVE  IslandsAreComponents
  <2> DEFINE B == bodies \cap Dynamic
             K == Range(key)
  <2> SUFFICES ASSUME pc \in {"idle", "solve"}, NEW b \in B
               PROVE  /\ island_index[b] \in Dynamic
                      /\ island[island_index[b]].bodies = Component(b, B, K)
    BY DEF IslandsAreComponents
  <2> DEFINE home == island_index[b]
             C == Component(b, B, K)
  <2>1. Settled = key /\ key \in [Slots -> Keys \cup {{}}]
    BY <1>1, AllSettled DEF IInv, TypeOK
  <2>2. Partition(island_index, island, B, key)
    BY <1>1, <2>1 DEF IInv
  <2>3. \A c \in Slots : key[c] \subseteq bodies
    BY <1>1 DEF IInv, BitsFollow
  <2>4. /\ home \in Dynamic /\ b \in island[home].bodies
        /\ \A x \in island[home].bodies : x \in B /\ island_index[x] = home
        /\ \A x \in B : x \in island[island_index[x]].bodies
    BY <1>1, BodiesHoused
  <2>5. /\ b \in C /\ C \subseteq B
        /\ \A e \in C : \A d \in B : {d, e} \in K => d \in C
        /\ \A S : b \in S /\ (\A e \in S : \A d \in B : {d, e} \in K => d \in S) => C \subseteq S
    <3>1. IsFiniteSet(B)
      BY DynamicsAssumption, FS_Subset
    <3> HIDE DEF B, K
    <3> QED
      BY <3>1, ComponentIs
  <2> HIDE DEF C
  <2>6. C \subseteq island[home].bodies
    <3>1. ASSUME NEW e \in island[home].bodies, NEW d \in B, {d, e} \in K
          PROVE  d \in island[home].bodies
      <4>1. PICK c \in Slots : key[c] = {d, e}
        BY <2>1, <3>1 DEF Range
      <4>2. island_index[d] = island_index[e]
        BY <2>2, <2>4, <3>1, <4>1 DEF Partition, Together
      <4> QED
        BY <2>4, <3>1, <4>2
    <3> QED
      BY <2>4, <2>5, <3>1
  <2>7. island[home].bodies \subseteq C
    <3>1. Closed(C, key)
      <4> SUFFICES ASSUME NEW c \in Slots, NEW x \in key[c] \cap Dynamic,
                          NEW y \in key[c] \cap Dynamic, x \in C
                   PROVE  y \in C
        BY DEF Closed
      <4>1. CASE x = y
        BY <4>1
      <4>2. CASE x # y
        <5>1. key[c] \in Keys /\ key[c] \in K
          BY <2>1 DEF Range
        <5>2. key[c] = {y, x}
          BY <4>2, <5>1 DEF Keys
        <5>3. y \in B
          BY <2>3
        <5> QED
          BY <2>5, <5>1, <5>2, <5>3
      <4> QED
        BY <4>1, <4>2
    <3>2. C \in SUBSET Dynamic /\ C \cap island[home].bodies # {}
      BY <2>4, <2>5
    <3> QED
      BY <2>2, <2>4, <3>1, <3>2 DEF Partition, Joined
  <2>8. island[home].bodies = C
    BY <2>6, <2>7
  <2> QED
    BY <2>4, <2>8 DEF C
<1>2. IInv => IslandsAreComponents
  BY <1>1
<1> QED
  BY <1>2, Invariance, PTL

(* A contact is in the list of one island, that of its dynamic bodies, and *)
(* the persistent bits are those of the contacts.                          *)
THEOREM ContactsInOneList == Spec => []ContactsAccounted
<1>1. ASSUME IInv
      PROVE  ContactsAccounted
  <2> SUFFICES ASSUME pc \in {"idle", "solve"}
               PROVE  /\ \A c \in Slots : {i \in Dynamic : c \in island[i].contacts}
                                            = {island_index[b] : b \in DynamicBodies(c)}
                      /\ persistent = Contacts
    BY DEF ContactsAccounted
  <2>1. persistent = Contacts /\ \A c \in Slots : key[c] \subseteq bodies
    BY <1>1 DEF IInv, BitsFollow
  <2>2. Partition(island_index, island, bodies \cap Dynamic, key)
    BY <1>1, AllSettled DEF IInv
  <2>3. ASSUME NEW c \in Slots
        PROVE  {i \in Dynamic : c \in island[i].contacts}
                 = {island_index[b] : b \in DynamicBodies(c)}
    <3>1. \A b \in key[c] \cap Dynamic : island_index[b] \in Dynamic
      BY <1>1, <2>1, BodiesHoused
    <3>2. \A i \in Dynamic : c \in island[i].contacts
                               <=> \E b \in key[c] \cap Dynamic : island_index[b] = i
      BY <2>2 DEF Partition, Listed
    <3> QED
      BY <3>1, <3>2 DEF DynamicBodies
  <2> QED
    BY <2>1, <2>3
<1>2. IInv => ContactsAccounted
  BY <1>1
<1> QED
  BY <1>2, Invariance, PTL

(* Sleep is a property of whole islands.                                   *)
THEOREM SleepAsWhole == Spec => []SleepCoherent
<1>1. IInv => SleepCoherent
  BY DEF IInv, SleepTogether, SleepCoherent
<1> QED
  BY <1>1, Invariance, PTL

(* No body has moved since its proxy was brought up to date when a         *)
(* collision detection is over.                                            *)
THEOREM ProxiesUpToDate == Spec => []ProxiesFresh
<1>1. IInv => ProxiesFresh
  BY DEF IInv, StirredAwake, ProxiesFresh
<1> QED
  BY <1>1, Invariance, PTL

--------------------------------------------------------------------------------
(* Bodies that lose a contact *)

LEMMA RemoveDynamicWakes ==
  ASSUME IInv, NEW b \in Bodies, RemoveDynamicBody(b), sleep_enabled,
         NEW c \in ContactsOf(b), NEW d \in DynamicBodies(c) \cap bodies'
  PROVE  "awake" \in island'[island_index'[d]].flags
<1> DEFINE B == bodies \cap Dynamic
<1>1. PICK isl : /\ Splitting(B, B \ {b}, ContactsOf(b), {island_index[b]}, isl, key', {b})
                 /\ SplitIslands({island_index[b]}, isl, key', {b})
  BY RemoveDynamicSplits
<1>2. FreeBody(b) /\ b \in Dynamic
  BY DEF RemoveDynamicBody
<1>3. /\ c \in Slots /\ b \in key[c] \cap Dynamic /\ d \in key[c] \cap Dynamic
      /\ bodies' = bodies \ {b} /\ pc = "idle"
  BY <1>2, FreeBodyStep DEF ContactsOf, DynamicBodies
<1>4. d \in B \ {b}
  BY <1>3 DEF DynamicBodies
<1>5. island_index[d] = island_index[b]
  BY <1>3, AllSettled DEF IInv, Partition, Together
<1>6. island'[island_index'[d]].flags = NewFlags
  BY <1>1, <1>4, <1>5, SplitFlags
<1> QED
  BY <1>6 DEF NewFlags

LEMMA RemoveStaticWakes ==
  ASSUME IInv, NEW b \in Bodies, RemoveStaticBody(b), sleep_enabled,
         NEW c \in ContactsOf(b), NEW d \in DynamicBodies(c) \cap bodies'
  PROVE  "awake" \in island'[island_index'[d]].flags
<1> DEFINE B == bodies \cap Dynamic
<1>1. PICK I, isl : /\ Splitting(B, B \ {b}, ContactsOf(b), I, isl, key', {b})
                    /\ SplitIslands(I, isl, key', {b})
                    /\ \A x \in ContactsOf(b) : \A y \in DynamicBodies(x) :
                         island_index[y] \in I \/ "awake" \in isl[island_index[y]].flags
  BY RemoveStaticSplits
<1>2. FreeBody(b)
  BY DEF RemoveStaticBody
<1>3. d \in B \ {b}
  BY <1>2, FreeBodyStep DEF DynamicBodies
<1>4. /\ island_index[d] \in I => island'[island_index'[d]].flags = NewFlags
      /\ island_index[d] \notin I => /\ island_index'[d] = island_index[d]
                                     /\ island'[island_index[d]] = isl[island_index[d]]
  BY <1>1, <1>3, SplitFlags
<1>5. CASE island_index[d] \in I
  BY <1>4, <1>5 DEF NewFlags
<1>6. CASE island_index[d] \notin I
  BY <1>1, <1>4, <1>6
<1> QED
  BY <1>5, <1>6

LEMMA BrokenWakes ==
  ASSUME IInv, SplitIslandsAndRemoveContacts, sleep_enabled,
         NEW c \in persistent \ frame, NEW d \in DynamicBodies(c) \cap bodies'
  PROVE  "awake" \in island'[island_index'[d]].flags
<1> DEFINE B == bodies \cap Dynamic
<1>1. PICK I, isl : /\ Splitting(B, B, persistent \ frame, I, isl, key', {})
                    /\ SplitIslands(I, isl, key', {})
                    /\ \A i \in Dynamic : isl[i].flags = island[i].flags
  BY BrokenSplits
<1>2. pc = "merge" /\ bodies' = bodies
  BY DEF SplitIslandsAndRemoveContacts
<1>3. d \in B /\ d \in key[c] \cap Dynamic /\ island_index[d] \in Dynamic
  BY <1>2, BodiesHoused DEF DynamicBodies
<1>4. /\ island_index[d] \in I => island'[island_index'[d]].flags = NewFlags
      /\ island_index[d] \notin I => /\ island_index'[d] = island_index[d]
                                     /\ island'[island_index[d]] = isl[island_index[d]]
  BY <1>1, <1>3, SplitFlags
<1>5. CASE island_index[d] \in I
  BY <1>4, <1>5 DEF NewFlags
<1>6. CASE island_index[d] \notin I
  <2>1. ~(key[c] \subseteq Dynamic)
    BY <1>1, <1>3, <1>6 DEF Splitting
  <2>2. key[c] \subseteq Bodies
    BY DEF IInv, TypeOK, BitsFollow
  <2>3. key[c] \cap Static # {}
    BY <2>1, <2>2 DEF Bodies
  <2>4. "awake" \in island[island_index[d]].flags
    BY <1>2, <2>3 DEF IInv, StirredAwake, Awake
  <2> QED
    BY <1>1, <1>3, <1>4, <1>6, <2>4
<1> QED
  BY <1>5, <1>6

(* A body that loses a contact is awake when the step that removes the     *)
(* contact is over.                                                        *)
THEOREM Woken == Spec => WokenWhenUnsupported
<1> DEFINE Wakes == \A c \in Contacts : sleep_enabled /\ key'[c] = {} =>
                      \A b \in DynamicBodies(c) \cap bodies' :
                        "awake" \in island'[island_index'[b]].flags
<1>1. ASSUME IInv, Next
      PROVE  Wakes
  <2> SUFFICES ASSUME NEW c \in Contacts, sleep_enabled, key'[c] = {},
                      NEW d \in DynamicBodies(c) \cap bodies'
               PROVE  "awake" \in island'[island_index'[d]].flags
    OBVIOUS
  <2>1. c \in Slots /\ key[c] # {}
    BY DEF Contacts
  <2>2. ASSUME NEW b \in Bodies, AddBody(b)
        PROVE  FALSE
    BY <2>1, <2>2 DEF AddBody, contactVars
  <2>3. ASSUME NEW b \in Bodies, RemoveDynamicBody(b)
        PROVE  "awake" \in island'[island_index'[d]].flags
    <3>1. c \in ContactsOf(b)
      BY <2>1, <2>3 DEF RemoveDynamicBody, FreeBody, ContactsOf
    <3> QED
      BY <1>1, <2>3, <3>1, RemoveDynamicWakes
  <2>4. ASSUME NEW b \in Bodies, RemoveStaticBody(b)
        PROVE  "awake" \in island'[island_index'[d]].flags
    <3>1. c \in ContactsOf(b)
      BY <2>1, <2>4 DEF RemoveStaticBody, FreeBody, ContactsOf
    <3> QED
      BY <1>1, <2>4, <3>1, RemoveStaticWakes
  <2>5. ASSUME NEW pending \in BOOLEAN, UpdateSolverConfig(pending)
        PROVE  FALSE
    BY <2>1, <2>5 DEF UpdateSolverConfig
  <2>6. ASSUME NEW touching \in SUBSET {p \in Keys : p \subseteq bodies},
               CollisionDetection(touching)
        PROVE  FALSE
    BY <1>1, <2>1, <2>6, CollisionKeys
  <2>7. ASSUME NEW x \in Slots, MergeTwoIslands(x)
        PROVE  FALSE
    BY <2>1, <2>7 DEF MergeTwoIslands
  <2>8. ASSUME NEW x \in Slots, AppendContact(x)
        PROVE  FALSE
    BY <2>1, <2>8 DEF AppendContact
  <2>9. CASE SplitIslandsAndRemoveContacts
    <3>1. c \in persistent \ frame
      BY <1>1, <2>1, <2>9, BrokenSplits
    <3> QED
      BY <1>1, <2>9, <3>1, BrokenWakes
  <2>10. ASSUME NEW quick \in SUBSET Dynamic, SolveIslands(quick)
         PROVE  FALSE
    BY <2>1, <2>10 DEF SolveIslands, contactVars
  <2> QED
    BY <1>1, <2>2, <2>3, <2>4, <2>5, <2>6, <2>7, <2>8, <2>9, <2>10 DEF Next
<1>2. IInv /\ [Next]_vars => [Wakes]_vars
  BY <1>1
<1>3. WokenWhenUnsupported <=> [][Wakes]_vars
  BY DEF WokenWhenUnsupported
<1> HIDE DEF Wakes
<1> QED
  BY <1>2, <1>3, Invariance, PTL DEF Spec

--------------------------------------------------------------------------------
(* The assertions *)

(* No contact is of two static bodies, which nothing in the code sees to.  *)
StaticApart == \A c \in Contacts : ~(key[c] \subseteq Static)

LEMMA RemovalAsserts ==
  ASSUME IInv, StaticApart, NEW b \in Bodies, RemoveDynamicBody(b) \/ RemoveStaticBody(b)
  PROVE  ~failed'
<1>1. FreeBody(b)
  BY DEF RemoveDynamicBody, RemoveStaticBody
<1>2. pc = "idle" /\ b \in bodies
  BY <1>1, FreeBodyStep
<1>3. Partition(island_index, island, bodies \cap Dynamic, key)
  BY <1>2, AllSettled DEF IInv
<1>4. CASE RemoveDynamicBody(b)
  <2>1. b \in bodies \cap Dynamic /\ island_index[b] \in Dynamic
    BY <1>4, RemoveDynamicSplits
  <2>2. b \in island[island_index[b]].bodies
    BY <2>1, BodiesHoused
  <2>3. \A c \in ContactsOf(b) : c \in island[island_index[b]].contacts
    BY <1>3, <2>1 DEF ContactsOf, Partition, Listed
  <2> QED
    BY <1>4, <2>2, <2>3, RemoveDynamicSplits
<1>5. CASE RemoveStaticBody(b)
  <2>1. b \in Static
    BY <1>5 DEF RemoveStaticBody
  <2>2. ASSUME NEW c \in ContactsOf(b), NEW d \in key[c], d # b, d \in Static
        PROVE  FALSE
    <3>1. c \in Slots /\ b \in key[c] /\ key[c] \in Keys /\ c \in Contacts
      BY DEF ContactsOf, Contacts, IInv, TypeOK
    <3>2. key[c] = {b, d}
      BY <2>2, <3>1 DEF Keys
    <3> QED
      BY <2>1, <2>2, <3>1, <3>2 DEF StaticApart
  <2>3. failed' = (((UNION {key[c] : c \in ContactsOf(b)}) \ {b}) \cap Static # {})
    BY <1>5 DEF RemoveStaticBody
  <2>4. ((UNION {key[c] : c \in ContactsOf(b)}) \ {b}) \cap Static = {}
    <3> SUFFICES ASSUME NEW d \in UNION {key[c] : c \in ContactsOf(b)}, d # b, d \in Static
                 PROVE  FALSE
      OBVIOUS
    <3>1. PICK c \in ContactsOf(b) : d \in key[c]
      OBVIOUS
    <3> QED
      BY <2>2, <3>1
  <2> QED
    BY <2>3, <2>4
<1> QED
  BY <1>4, <1>5

(* Of two islands that are merged one is awake.                            *)
LEMMA MergeAsserts ==
  ASSUME IInv, NEW c \in Slots, MergeTwoIslands(c)
  PROVE  ~failed'
<1>0. PICK b0, b1, expand, merge : Merging(c, b0, b1, expand, merge)
  BY MergeResult
<1>1. /\ key[c] = {b0, b1} /\ expand = island_index[b0] /\ merge = island_index[b1]
      /\ failed' = (sleep_enabled /\ ~Awake(expand) /\ ~Awake(merge))
  BY <1>0 DEF Merging
<1>2. pc = "merge" /\ c \in contact_new /\ key[c] \subseteq Dynamic
  BY DEF MergeTwoIslands
<1>3. sleep_enabled => \E b \in key[c] : Awake(island_index[b])
  BY <1>2 DEF IInv, StirredAwake
<1> QED
  BY <1>1, <1>3

(* An island without contacts has one body.                                *)
LEMMA AppendAsserts ==
  ASSUME IInv, NEW c \in Slots, AppendContact(c)
  PROVE  ~failed'
<1> SUFFICES ASSUME key[c] \subseteq Dynamic, NEW b \in key[c],
                    island[island_index[b]].contacts = {}
             PROVE  FALSE
  BY DEF AppendContact, DynamicBodies
<1>1. c \in contact_new /\ \A x, y \in key[c] \cap Dynamic : island_index[x] = island_index[y]
  BY AppendResult
<1>2. key[c] \in Keys /\ \A x \in key[c] : x \in bodies \cap Dynamic
  BY <1>1, NewContact
<1>3. PICK d \in key[c] : d # b
  BY <1>2 DEF Keys
<1>4. island_index[d] = island_index[b]
  BY <1>1, <1>2
<1>5. /\ island_index[b] \in Dynamic
      /\ b \in island[island_index[b]].bodies /\ d \in island[island_index[b]].bodies
  BY <1>2, <1>4, BodiesHoused
<1>6. Closed({b}, Settled)
  <2>1. \A x \in Slots : b \notin Settled[x] \cap Dynamic
    BY <1>5 DEF IInv, Partition, Listed
  <2> QED
    BY <2>1 DEF Closed
<1>7. {b} \in SUBSET Dynamic
  BY <1>2
<1>8. island[island_index[b]].bodies \subseteq {b}
  BY <1>5, <1>6, <1>7 DEF IInv, Partition, Joined
<1> QED
  BY <1>3, <1>5, <1>8

LEMMA BrokenAsserts ==
  ASSUME IInv, StaticApart, SplitIslandsAndRemoveContacts
  PROVE  ~failed'
<1> DEFINE D == {c \in persistent : c < frame_bit_count /\ c \notin frame}
<1>1. pc = "merge" /\ contact_new = {}
  BY DEF SplitIslandsAndRemoveContacts
<1>2. ASSUME NEW c \in D
      PROVE  /\ ~(key[c] \subseteq Static)
             /\ \E b \in DynamicBodies(c) : c \in island[island_index[b]].contacts
  <2>1. c \in Slots /\ c \in Contacts /\ key[c] \subseteq bodies
    BY DEF IInv, BitsFollow, Contacts
  <2>2. ~(key[c] \subseteq Static)
    BY <2>1 DEF StaticApart
  <2>3. PICK b \in key[c] : b \in bodies \cap Dynamic
    BY <2>1, <2>2 DEF IInv, TypeOK, Bodies
  <2>4. island_index[b] \in Dynamic
    BY <2>3, BodiesHoused
  <2>5. Settled[c] = key[c]
    BY <1>1, <2>1 DEF Settled
  <2>6. c \in island[island_index[b]].contacts
    BY <2>1, <2>3, <2>4, <2>5 DEF IInv, Partition, Listed
  <2> QED
    BY <2>2, <2>3, <2>6 DEF DynamicBodies
<1>3. failed' = \E c \in D : \/ key[c] \subseteq Static
                             \/ \A b \in DynamicBodies(c) :
                                  c \notin island[island_index[b]].contacts
  BY DEF SplitIslandsAndRemoveContacts
<1> HIDE DEF D
<1> QED
  BY <1>2, <1>3

(* An assertion of the pipeline can only fail for a contact of two static  *)
(* bodies: as long as there is none, all hold.                             *)
THEOREM OnlyStaticPairsFail == Spec /\ []StaticApart => []AssertionsHold
<1>1. Init => AssertionsHold
  BY DEF Init, AssertionsHold
<1>2. ASSUME IInv, StaticApart, AssertionsHold, [Next]_vars
      PROVE  AssertionsHold'
  <2> SUFFICES ~failed'
    BY DEF AssertionsHold
  <2>1. ~failed
    BY <1>2 DEF AssertionsHold
  <2>2. ASSUME NEW b \in Bodies, AddBody(b)
        PROVE  ~failed'
    BY <2>1, <2>2 DEF AddBody
  <2>3. ASSUME NEW b \in Bodies, RemoveDynamicBody(b) \/ RemoveStaticBody(b)
        PROVE  ~failed'
    BY <1>2, <2>3, RemovalAsserts
  <2>4. ASSUME NEW pending \in BOOLEAN, UpdateSolverConfig(pending)
        PROVE  ~failed'
    BY <2>1, <2>4 DEF UpdateSolverConfig
  <2>5. ASSUME NEW touching \in SUBSET {p \in Keys : p \subseteq bodies},
               CollisionDetection(touching)
        PROVE  ~failed'
    BY <2>1, <2>5 DEF CollisionDetection
  <2>6. ASSUME NEW c \in Slots, MergeTwoIslands(c)
        PROVE  ~failed'
    BY <1>2, <2>6, MergeAsserts
  <2>7. ASSUME NEW c \in Slots, AppendContact(c)
        PROVE  ~failed'
    BY <1>2, <2>7, AppendAsserts
  <2>8. CASE SplitIslandsAndRemoveContacts
    BY <1>2, <2>8, BrokenAsserts
  <2>9. ASSUME NEW quick \in SUBSET Dynamic, SolveIslands(quick)
        PROVE  ~failed'
    BY <2>1, <2>9 DEF SolveIslands
  <2>10. CASE UNCHANGED vars
    BY <2>1, <2>10 DEF vars
  <2> QED
    BY <1>2, <2>2, <2>3, <2>4, <2>5, <2>6, <2>7, <2>8, <2>9, <2>10 DEF Next
<1>3. IInv /\ StaticApart /\ AssertionsHold /\ [Next]_vars => AssertionsHold'
  BY <1>2
<1> QED
  BY <1>1, <1>3, Invariance, PTL DEF Spec

===============================================================================
