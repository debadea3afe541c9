----------------------------- MODULE CommonLemmas -----------------------------
(***************************************************************************)
(* Facts the proofs have in common: about \div and %, for the counters     *)
(* that wrap (32-bit tickets, ring indices, generations); induction on the *)
(* natural numbers; and what a walk from link to link of a list visits.    *)
(***************************************************************************)
EXTENDS Integers, FiniteSetTheorems, WellFoundedInduction, TLAPS

-------------------------------------------------------------------------------
(* Remainders *)

(* Division with remainder, which is what the provers know of % and \div.  *)
LEMMA DivMod ==
  ASSUME NEW k \in Nat, NEW m \in Nat \ {0}
  PROVE  /\ k = (m * (k \div m)) + (k % m)
         /\ k % m \in 0 .. m - 1
         /\ k \div m \in Nat
  BY Z3

(* The remainder is unique.                                                *)
LEMMA ModUnique ==
  ASSUME NEW m \in Nat \ {0}, NEW q \in Nat, NEW r \in 0 .. m - 1
  PROVE  ((m * q) + r) % m = r
<1> DEFINE k == (m * q) + r
           s == k \div m
           u == k % m
<1>1. k \in Nat
  BY Z3
<1> HIDE DEF k
<1>2. k = (m * s) + u /\ u \in 0 .. m - 1 /\ s \in Nat
  BY <1>1, DivMod
<1>3. s \in Nat /\ u \in 0 .. m - 1 /\ (m * q) + r = (m * s) + u
  BY <1>2 DEF k
<1> HIDE DEF s, u
<1>4. CASE s < q
  BY <1>3, <1>4, Z3
<1>5. CASE s > q
  BY <1>3, <1>5, Z3
<1>6. CASE s = q
  BY <1>3, <1>6, Z3
<1>7. u = r
  BY <1>3, <1>4, <1>5, <1>6
<1> QED
  BY <1>7 DEF u, k

(* Taking the remainder before an increment does not change the result.    *)
LEMMA ModSucc ==
  ASSUME NEW k \in Nat, NEW m \in Nat \ {0}
  PROVE  ((k % m) + 1) % m = (k + 1) % m
<1> DEFINE q == k \div m
           r == k % m
<1>1. k = (m * q) + r /\ r \in 0 .. m - 1 /\ q \in Nat
  BY DivMod
<1> HIDE DEF q, r
<1>2. CASE r + 1 < m
  <2>1. r + 1 \in 0 .. m - 1
    BY <1>1, <1>2
  <2>2. ((m * q) + (r + 1)) % m = r + 1
    BY <1>1, <2>1, ModUnique
  <2>3. ((m * 0) + (r + 1)) % m = r + 1
    BY <2>1, ModUnique
  <2>4. (m * 0) + (r + 1) = r + 1 /\ (m * q) + (r + 1) = k + 1
    BY <1>1, <2>1, Z3
  <2> QED
    BY <2>2, <2>3, <2>4 DEF r
<1>3. CASE r + 1 = m
  <2>1. ((m * (q + 1)) + 0) % m = 0
    BY <1>1, ModUnique
  <2>2. ((m * 1) + 0) % m = 0
    BY ModUnique
  <2>3. (m * (q + 1)) + 0 = k + 1 /\ (m * 1) + 0 = r + 1
    BY <1>1, <1>3, Z3
  <2> QED
    BY <2>1, <2>2, <2>3 DEF r
<1> QED
  BY <1>1, <1>2, <1>3

(* A counter that wraps at a multiple of m keeps its remainder modulo m.   *)
LEMMA ModOfMultiple ==
  ASSUME NEW k \in Nat, NEW m \in Nat \ {0}, NEW j \in Nat \ {0}
  PROVE  (k % (m * j)) % m = k % m
<1> DEFINE n == m * j
           q == k \div n
           r == k % n
           a == r \div m
           b == r % m
<1>1. n \in Nat \ {0}
  BY Z3
<1>2. k = (n * q) + r /\ r \in 0 .. n - 1 /\ q \in Nat
  <2> HIDE DEF n
  <2> QED BY <1>1, DivMod
<1>3. r = (m * a) + b /\ b \in 0 .. m - 1 /\ a \in Nat
  <2> HIDE DEF n
  <2>1. r \in Nat
    BY <1>1, <1>2
  <2> HIDE DEF r
  <2> QED BY <2>1, DivMod
<1> HIDE DEF q, r, a, b
<1>4. k = (m * ((j * q) + a)) + b
  BY <1>2, <1>3, Z3
<1>5. (j * q) + a \in Nat
  BY <1>2, <1>3, Z3
<1>6. k % m = b
  <2> DEFINE c == (j * q) + a
  <2>1. c \in Nat /\ k = (m * c) + b
    BY <1>4, <1>5
  <2> HIDE DEF c
  <2> QED
    BY <1>3, <2>1, ModUnique
<1> QED
  BY <1>6 DEF b, r

(* Division with remainder of any integer.                                 *)
LEMMA DivModInt ==
  ASSUME NEW k \in Int, NEW m \in Nat \ {0}
  PROVE  /\ k = (m * (k \div m)) + (k % m)
         /\ k % m \in 0 .. m - 1
         /\ k \div m \in Int
  BY Z3

(* An integer is determined by its quotient and remainder.                 *)
LEMMA ModUniqueInt ==
  ASSUME NEW m \in Nat \ {0}, NEW q \in Int, NEW r \in 0 .. m - 1
  PROVE  ((m * q) + r) % m = r
<1> DEFINE k == (m * q) + r
           s == k \div m
           u == k % m
<1>1. k \in Int
  BY Z3
<1> HIDE DEF k
<1>2. k = (m * s) + u /\ u \in 0 .. m - 1 /\ s \in Int
  BY <1>1, DivModInt
<1>3. s \in Int /\ u \in 0 .. m - 1 /\ (m * q) + r = (m * s) + u
  BY <1>2 DEF k
<1> HIDE DEF s, u
<1>4. CASE s < q
  BY <1>3, <1>4, Z3
<1>5. CASE s > q
  BY <1>3, <1>5, Z3
<1>6. CASE s = q
  BY <1>3, <1>6, Z3
<1>7. u = r
  BY <1>3, <1>4, <1>5, <1>6
<1> QED
  BY <1>7 DEF u, k

(* Taking the remainder before an addition does not change the result.     *)
LEMMA ModAdd ==
  ASSUME NEW k \in Nat, NEW c \in Int, NEW m \in Nat \ {0}
  PROVE  ((k % m) + c) % m = (k + c) % m
<1> DEFINE q == k \div m
           r == k % m
           p == (r + c) \div m
           s == (r + c) % m
<1>1. k = (m * q) + r /\ r \in 0 .. m - 1 /\ q \in Nat
  BY DivMod
<1> HIDE DEF q, r
<1>2. r + c = (m * p) + s /\ s \in 0 .. m - 1 /\ p \in Int
  <2>1. r + c \in Int
    BY <1>1
  <2> QED
    BY <2>1, DivModInt
<1> HIDE DEF p, s
<1>3. k + c = (m * (q + p)) + s /\ q + p \in Int
  BY <1>1, <1>2, Z3
<1>4. (k + c) % m = s
  BY <1>2, <1>3, ModUniqueInt
<1> QED
  BY <1>4 DEF r, s

(* Two numbers less than m apart with the same remainder are equal.        *)
LEMMA ModInjective ==
  ASSUME NEW k \in Nat, NEW l \in Nat, NEW m \in Nat \ {0},
         k - l < m, l - k < m, k % m = l % m
  PROVE  k = l
<1> DEFINE a == k \div m
           b == l \div m
           r == k % m
<1>1. k = (m * a) + r /\ a \in Nat /\ r \in 0 .. m - 1
  BY DivMod
<1>2. l = (m * b) + r /\ b \in Nat
  BY DivMod
<1> HIDE DEF a, b, r
<1>3. m * a - m * b < m /\ m * b - m * a < m
  BY <1>1, <1>2, Z3
<1>4. CASE a < b
  BY <1>1, <1>2, <1>3, <1>4, Z3
<1>5. CASE a > b
  BY <1>1, <1>2, <1>3, <1>5, Z3
<1>6. CASE a = b
  BY <1>1, <1>2, <1>6
<1> QED
  BY <1>1, <1>2, <1>4, <1>5, <1>6

(* The distance of two numbers less than m apart, from their remainders.   *)
LEMMA ModDistance ==
  ASSUME NEW k \in Nat, NEW l \in Nat, NEW m \in Nat \ {0},
         l <= k, k - l < m
  PROVE  ((k % m) - (l % m)) % m = k - l
<1> DEFINE q == l \div m
           r == l % m
           d == k - l
<1>1. l = (m * q) + r /\ q \in Nat /\ r \in 0 .. m - 1
  BY DivMod
<1>2. d \in 0 .. m - 1
  OBVIOUS
<1>3. ((k % m) + (0 - r)) % m = (k + (0 - r)) % m
  <2>1. 0 - r \in Int
    BY <1>1
  <2> QED
    BY <2>1, ModAdd
<1>4. k + (0 - r) = (m * q) + d /\ (k % m) - r = (k % m) + (0 - r)
  <2>1. k % m \in Nat
    BY DivMod
  <2> HIDE DEF q, r
  <2> QED
    BY <1>1, <2>1, Z3
<1>5. ((m * q) + d) % m = d
  <2> HIDE DEF d, q, r
  <2>1. q \in Int
    BY <1>1
  <2> QED
    BY <1>2, <2>1, ModUniqueInt, Zenon
<1> QED
  BY <1>3, <1>4, <1>5

-------------------------------------------------------------------------------
(* Induction *)

(* A set of natural numbers has a least element.                           *)
LEMMA Least ==
  ASSUME NEW S \in SUBSET Nat, S # {}
  PROVE  \E m \in S : \A k \in S : m <= k
<1>1. PICK m \in S : \A k \in S : ~(<<k, m>> \in OpToRel(<, Nat))
  BY NatLessThanWellFounded, WFMin
<1>2. \A k \in S : ~(k < m)
  BY <1>1 DEF OpToRel
<1>3. m \in Nat /\ \A k \in S : k \in Nat
  OBVIOUS
<1>4. \A k \in S : m <= k
  BY <1>2, <1>3
<1> QED
  BY <1>4

(* What holds of 0 and is handed on holds of all natural numbers.          *)
LEMMA Induction ==
  ASSUME NEW S, 0 \in S, \A n \in Nat : n \in S => n + 1 \in S
  PROVE  \A n \in Nat : n \in S
<1> SUFFICES ASSUME Nat \ S # {} PROVE FALSE
  OBVIOUS
<1>1. PICK m \in Nat \ S : \A k \in Nat \ S : m <= k
  BY Least
<1>2. m - 1 \in Nat /\ m - 1 \notin Nat \ S
  BY <1>1
<1>3. m - 1 + 1 \in S /\ m - 1 + 1 = m
  BY <1>2
<1> QED
  BY <1>1, <1>3

-------------------------------------------------------------------------------
(* Iterations and lists *)

(* f is the iteration of F, a function on D, from x, as far as m.          *)
Iteration(f, m, F, x, D) ==
  f \in [0 .. m -> D] /\ f[0] = x /\ \A n \in 1 .. m : f[n] = F[f[n - 1]]

(* A function on D can be iterated from any x in D.                        *)
LEMMA Iterates ==
  ASSUME NEW D, NEW F \in [D -> D], NEW x \in D, NEW m \in Nat
  PROVE  \E f : Iteration(f, m, F, x, D)
<1> USE DEF Iteration
<1> DEFINE Is(f, k) == Iteration(f, k, F, x, D)
           P == {k \in Nat : \E f : Is(f, k)}
<1>1. 0 \in P
  <2>1. Is([n \in 0 .. 0 |-> x], 0)
    OBVIOUS
  <2> QED
    BY <2>1
<1>2. ASSUME NEW k \in Nat, k \in P
      PROVE  k + 1 \in P
  <2>1. PICK f : Is(f, k)
    BY <1>2
  <2> DEFINE g == [n \in 0 .. k + 1 |-> IF n <= k THEN f[n] ELSE F[f[k]]]
  <2>2. \A n \in 0 .. k : g[n] = f[n] /\ f[n] \in D
    BY <2>1
  <2>3. g[k + 1] = F[f[k]] /\ F[f[k]] \in D
    BY <2>1
  <2>4. g \in [0 .. k + 1 -> D]
    BY <2>1, <2>3
  <2> HIDE DEF g
  <2>5. ASSUME NEW n \in 1 .. k + 1
        PROVE  g[n] = F[g[n - 1]]
    <3>1. CASE n = k + 1
      BY <2>2, <2>3, <3>1
    <3>2. CASE n # k + 1
      <4>1. n \in 0 .. k /\ n - 1 \in 0 .. k /\ n \in 1 .. k
        BY <3>2
      <4> QED
        BY <2>1, <2>2, <4>1
    <3> QED
      BY <3>1, <3>2
  <2>6. Is(g, k + 1)
    BY <2>1, <2>2, <2>4, <2>5
  <2> HIDE DEF Is, Iteration
  <2> QED
    BY <2>6
<1>3. m \in P
  <2> HIDE DEF P
  <2> QED
    BY <1>1, <1>2, Induction
<1> QED
  BY <1>3

(* An iteration stays in any set that is closed under the step.            *)
LEMMA IterationWithin ==
  ASSUME NEW D, NEW F \in [D -> D], NEW x \in D, NEW m \in Nat, NEW f,
         Iteration(f, m, F, x, D), NEW C \in SUBSET D, x \in C, \A y \in C : F[y] \in C
  PROVE  \A n \in 0 .. m : f[n] \in C
<1> DEFINE P == {n \in Nat : n <= m => f[n] \in C}
<1>1. 0 \in P
  BY DEF Iteration
<1>2. ASSUME NEW n \in Nat, n \in P
      PROVE  n + 1 \in P
  <2>1. ASSUME n + 1 <= m
        PROVE  f[n + 1] = F[f[n]] /\ f[n] \in C
    <3>1. n + 1 \in 1 .. m /\ n + 1 - 1 = n /\ n <= m
      BY <2>1
    <3> QED
      BY <1>2, <3>1 DEF Iteration
  <2> QED
    BY <2>1
<1>3. \A n \in Nat : n \in P
  <2> HIDE DEF P
  <2> QED
    BY <1>1, <1>2, Induction
<1> QED
  BY <1>3

(* F only adds members, of U.                                              *)
Widens(F, U) ==
  F \in [SUBSET U -> SUBSET U] /\ \A S \in SUBSET U : S \subseteq F[S]

(* The iteration of a step that only adds members of a finite set has      *)
(* nothing left to add when it has gone on for as long as the set is big.  *)
LEMMA Saturates ==
  ASSUME NEW U, IsFiniteSet(U), NEW F, Widens(F, U), NEW x \in SUBSET U, x # {},
         NEW m \in Nat, NEW f, Iteration(f, m, F, x, SUBSET U),
         NEW c \in 0 .. m, Cardinality(U) <= c
  PROVE  F[f[c]] = f[c]
<1> USE DEF Widens
<1> DEFINE P == {n \in Nat : n <= c => F[f[n]] = f[n] \/ n + 1 <= Cardinality(f[n])}
<1>1. \A S \in SUBSET U : IsFiniteSet(S) /\ Cardinality(S) \in Nat /\ Cardinality(S) <= Cardinality(U)
  BY FS_Subset, FS_CardinalityType
<1>2. \A n \in 0 .. m : f[n] \in SUBSET U
  BY DEF Iteration
<1>3. 0 \in P
  <2>1. f[0] = x /\ IsFiniteSet(x) /\ Cardinality(x) \in Nat
    BY <1>1 DEF Iteration
  <2>2. Cardinality(x) # 0
    BY <2>1, FS_EmptySet
  <2> QED
    BY <2>1, <2>2
<1>4. ASSUME NEW n \in Nat, n \in P
      PROVE  n + 1 \in P
  <2>1. SUFFICES ASSUME n + 1 <= c
                 PROVE  F[f[n + 1]] = f[n + 1] \/ n + 2 <= Cardinality(f[n + 1])
    OBVIOUS
  <2>2. n + 1 \in 1 .. m /\ n + 1 - 1 = n /\ n <= c /\ n \in 0 .. m /\ n + 1 \in 0 .. m
    BY <2>1
  <2>3. f[n + 1] = F[f[n]]
    BY <2>2 DEF Iteration
  <2>4. CASE F[f[n]] = f[n]
    BY <2>3, <2>4
  <2>5. CASE F[f[n]] # f[n]
    <3> DEFINE S == f[n]
               T == f[n + 1]
    <3>1. S \subseteq T /\ S # T /\ T \in SUBSET U
      BY <1>2, <2>2, <2>3, <2>5
    <3>2. n + 1 <= Cardinality(S) /\ S \in SUBSET U
      BY <1>2, <1>4, <2>2, <2>5
    <3> HIDE DEF S, T
    <3>3. Cardinality(S) <= Cardinality(T) /\ Cardinality(S) # Cardinality(T)
      BY <1>1, <3>1, FS_Subset
    <3>4. n + 2 <= Cardinality(T)
      BY <1>1, <3>1, <3>2, <3>3
    <3> QED
      BY <3>4 DEF T
  <2> QED
    BY <2>4, <2>5
<1>5. c \in Nat /\ c \in 0 .. m
  OBVIOUS
<1>6. c \in P
  <2> HIDE DEF P
  <2> QED
    BY <1>3, <1>4, <1>5, Induction
<1>7. Cardinality(f[c]) \in Nat /\ Cardinality(f[c]) <= Cardinality(U) /\ Cardinality(U) \in Nat
  BY <1>1, <1>2, <1>5, FS_CardinalityType
<1> QED
  BY <1>6, <1>7

(* A walk that starts at first and follows links until it is at end: if no *)
(* two members of U lead to the same place, none leads to first and there  *)
(* is no set of members that lead to each other only, the walk visits each *)
(* member once and then is at end.                                         *)
LEMMA WalkVisitsAll ==
  ASSUME NEW U, IsFiniteSet(U), NEW end, end \notin U, NEW m \in Nat, Cardinality(U) <= m,
         NEW next \in [U -> U \cup {end}], NEW first \in U \cup {end},
         \A b, c \in U : next[b] = next[c] => b = c,
         \A b \in U : next[b] # first,
         \A S \in SUBSET U : S # {} => \E b \in S : next[b] \notin S,
         NEW at \in [0 .. m -> U \cup {end}], at[0] = first,
         \A n \in 1 .. m : at[n] = IF at[n - 1] = end THEN end ELSE next[at[n - 1]]
  PROVE  /\ {at[n] : n \in 0 .. m} \ {end} = U
         /\ Cardinality(U) \in 0 .. m /\ at[Cardinality(U)] = end
<1>1. Cardinality(U) \in Nat
  BY FS_CardinalityType
<1>2. ASSUME NEW j \in Nat
      PROVE  \A k \in 0 .. m : j < k /\ at[j] = at[k] => at[j] = end
  <2> DEFINE P == {i \in Nat : \A k \in 0 .. m : i < k /\ at[i] = at[k] => at[i] = end}
  <2>1. 0 \in P
    <3>1. ASSUME NEW k \in 0 .. m, 0 < k, at[0] = at[k], at[0] # end
          PROVE  FALSE
      <4>1. k \in 1 .. m /\ k - 1 \in 0 .. m
        BY <3>1
      <4>2. at[k - 1] # end /\ at[k] = next[at[k - 1]] /\ at[k - 1] \in U
        BY <3>1, <4>1
      <4> QED
        BY <3>1, <4>2
    <3> QED
      BY <3>1
  <2>2. ASSUME NEW i \in Nat, i \in P
        PROVE  i + 1 \in P
    <3>1. ASSUME NEW k \in 0 .. m, i + 1 < k, at[i + 1] = at[k], at[i + 1] # end
          PROVE  FALSE
      <4>1. /\ k \in 1 .. m /\ k - 1 \in 0 .. m /\ i \in 0 .. m /\ i + 1 \in 1 .. m
            /\ i < k - 1 /\ i + 1 - 1 = i
        BY <3>1
      <4>2. at[k - 1] # end /\ at[k] = next[at[k - 1]] /\ at[k - 1] \in U
        BY <3>1, <4>1
      <4>3. at[i] # end /\ at[i + 1] = next[at[i]] /\ at[i] \in U
        BY <3>1, <4>1
      <4>4. at[i] = at[k - 1]
        BY <3>1, <4>2, <4>3
      <4> QED
        BY <2>2, <4>1, <4>3, <4>4
    <3> QED
      BY <3>1
  <2>3. j \in P
    <3> HIDE DEF P
    <3> QED
      BY <2>1, <2>2, Induction
  <2> QED
    BY <2>3
<1>3. \E k \in 0 .. m : at[k] = end
  <2> SUFFICES ASSUME \A k \in 0 .. m : at[k] # end PROVE FALSE
    OBVIOUS
  <2>1. at \in Injection(0 .. m, U)
    <3>1. at \in [0 .. m -> U]
      OBVIOUS
    <3>2. \A j, k \in 0 .. m : at[j] = at[k] => j = k
      <4>1. SUFFICES ASSUME NEW j \in 0 .. m, NEW k \in 0 .. m, at[j] = at[k], j # k
                     PROVE  FALSE
        OBVIOUS
      <4>2. j < k \/ k < j
        BY <4>1
      <4>3. j \in Nat /\ k \in Nat
        OBVIOUS
      <4> QED
        BY <1>2, <4>1, <4>2, <4>3
    <3> QED
      BY <3>1, <3>2 DEF Injection, IsInjective
  <2>2. Cardinality(0 .. m) <= Cardinality(U)
    BY <2>1, FS_Injection
  <2>3. Cardinality(0 .. m) = m + 1
    <3>1. 0 \in Int /\ m \in Int /\ ~(0 > m)
      OBVIOUS
    <3>2. Cardinality(0 .. m) = m - 0 + 1
      BY <3>1, FS_Interval, Zenon
    <3> QED
      BY <3>2
  <2> QED
    BY <1>1, <2>2, <2>3
<1>4. PICK k \in 0 .. m : at[k] = end /\ \A j \in 0 .. m : at[j] = end => k <= j
  <2> DEFINE E == {i \in 0 .. m : at[i] = end}
  <2>1. E \in SUBSET Nat /\ E # {}
    <3>1. \A i \in 0 .. m : i \in Nat
      OBVIOUS
    <3>2. E # {}
      BY <1>3
    <3> QED
      BY <3>1, <3>2
  <2>2. PICK i \in E : \A j \in E : i <= j
    <3> HIDE DEF E
    <3> QED
      BY <2>1, Least
  <2> QED
    BY <2>2
<1>5. \A i \in Nat : i \in 0 .. k - 1 => i \in 0 .. m /\ at[i] \in U
  BY <1>4
<1>6. \A n \in 0 .. m : k <= n => at[n] = end
  <2> DEFINE P == {i \in Nat : k + i <= m => at[k + i] = end}
  <2>1. 0 \in P
    BY <1>4
  <2>2. ASSUME NEW i \in Nat, i \in P
        PROVE  i + 1 \in P
    <3>1. ASSUME k + (i + 1) <= m
          PROVE  at[k + (i + 1)] = end
      <4>1. k + (i + 1) \in 1 .. m /\ k + (i + 1) - 1 = k + i /\ k + i <= m
        BY <3>1
      <4> QED
        BY <2>2, <4>1
    <3> QED
      BY <3>1
  <2>3. \A i \in Nat : i \in P
    <3> HIDE DEF P
    <3> QED
      BY <2>1, <2>2, Induction
  <2>4. ASSUME NEW n \in 0 .. m, k <= n
        PROVE  at[n] = end
    <3>1. n - k \in Nat /\ k + (n - k) = n
      BY <2>4
    <3>2. n - k \in P
      BY <2>3, <3>1
    <3> QED
      BY <3>1, <3>2
  <2> QED
    BY <2>4
<1> DEFINE V == {at[n] : n \in 0 .. k - 1}
<1>7. V \subseteq U
  BY <1>5
<1>8. \A b \in U : next[b] \in V \cup {end} => b \in V
  <2>1. SUFFICES ASSUME NEW b \in U, next[b] \in V \cup {end}
                 PROVE  b \in V
    OBVIOUS
  <2>2. PICK n \in 0 .. k : next[b] = at[n]
    BY <1>4, <2>1
  <2>3. n # 0
    BY <2>2
  <2>4. n \in 1 .. m /\ n - 1 \in 0 .. k - 1 /\ n - 1 \in Nat
    BY <1>4, <2>3
  <2>5. at[n - 1] \in U /\ at[n] = next[at[n - 1]]
    BY <1>5, <2>4
  <2>6. b = at[n - 1]
    BY <2>2, <2>5
  <2> QED
    BY <2>4, <2>6
<1>9. V = U
  <2> SUFFICES ASSUME U \ V # {} PROVE FALSE
    BY <1>7
  <2> HIDE DEF V
  <2>1. PICK b \in U \ V : next[b] \notin U \ V
    OBVIOUS
  <2>2. next[b] \in V \cup {end}
    BY <2>1
  <2> QED
    BY <1>8, <2>1, <2>2
<1>10. {at[n] : n \in 0 .. m} \ {end} = V
  <2>1. ASSUME NEW n \in 0 .. m, at[n] # end
        PROVE  n \in 0 .. k - 1
    BY <1>4, <1>6, <2>1
  <2>2. \A n \in 0 .. k - 1 : n \in 0 .. m /\ at[n] # end
    BY <1>4, <1>5
  <2> QED
    BY <2>1, <2>2
<1>11. Cardinality(U) = k
  <2> DEFINE h == [i \in 1 .. k |-> at[i - 1]]
  <2>1. \A i \in 1 .. k : i - 1 \in 0 .. k - 1 /\ i - 1 \in Nat /\ i - 1 \in 0 .. m
    BY <1>4
  <2>2. h \in [1 .. k -> U]
    BY <1>5, <2>1
  <2>3. \A i, j \in 1 .. k : h[i] = h[j] => i = j
    <3>1. SUFFICES ASSUME NEW i \in 1 .. k, NEW j \in 1 .. k, h[i] = h[j], i # j
                   PROVE  FALSE
      OBVIOUS
    <3>2. i - 1 < j - 1 \/ j - 1 < i - 1
      BY <3>1
    <3>3. at[i - 1] = at[j - 1] /\ at[i - 1] # end
      BY <1>5, <2>1, <3>1
    <3> QED
      BY <1>2, <2>1, <3>2, <3>3
  <2>4. \A b \in U : \E i \in 1 .. k : h[i] = b
    <3>1. SUFFICES ASSUME NEW b \in U PROVE \E i \in 1 .. k : h[i] = b
      OBVIOUS
    <3>2. PICK n \in 0 .. k - 1 : b = at[n]
      BY <1>9
    <3>3. n + 1 \in 1 .. k /\ n + 1 - 1 = n
      BY <1>4
    <3> QED
      BY <3>2, <3>3
  <2> HIDE DEF h
  <2>5. h \in Bijection(1 .. k, U)
    BY <2>2, <2>3, <2>4 DEF Bijection, Injection, IsInjective, Surjection
  <2> QED
    BY <2>5, FS_CountingElements DEF ExistsBijection
<1> QED
  BY <1>4, <1>9, <1>10, <1>11
===============================================================================
