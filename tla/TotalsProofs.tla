---------------------------- MODULE TotalsProofs ----------------------------
(***************************************************************************)
(* What Total returns, preserves and bounds; and induction over intervals, *)
(* stated about sets, with which loops are reasoned about.                 *)
(***************************************************************************)
EXTENDS Totals, FiniteSetTheorems, TLAPS

\* A unit is a holder and a number.
LEMMA UnitsMember ==
    ASSUME NEW S, NEW f \in [S -> Nat], NEW T \in SUBSET S, NEW p
    PROVE  p \in Units(f, T) <=> \E s \in T : \E k \in 1..f[s] : p = <<s, k>>
BY DEF Units

\* One holder's units are as many as it holds.
LEMMA HolderUnits ==
    ASSUME NEW s, NEW n \in Nat
    PROVE  /\ IsFiniteSet({s} \X (1..n))
           /\ Cardinality({s} \X (1..n)) = n
<1> DEFINE g == [k \in 1..n |-> <<s, k>>]
<1>1. g \in Bijection(1..n, {s} \X (1..n))
  <2>1. g \in [1..n -> {s} \X (1..n)]
    OBVIOUS
  <2>2. \A a, b \in 1..n : g[a] = g[b] => a = b
    OBVIOUS
  <2>3. \A t \in {s} \X (1..n) : \E k \in 1..n : g[k] = t
    OBVIOUS
  <2> QED BY <2>1, <2>2, <2>3 DEF Bijection, Injection, Surjection, IsInjective
<1>2. ExistsBijection(1..n, {s} \X (1..n))
  BY <1>1 DEF ExistsBijection
<1>3. IsFiniteSet(1..n) /\ Cardinality(1..n) = n
  BY FS_Interval
<1> QED BY <1>2, <1>3, FS_Bijection

\* Finitely many holders hold finitely many units.
LEMMA UnitsFinite ==
    ASSUME NEW S, IsFiniteSet(S), NEW f \in [S -> Nat], NEW T \in SUBSET S
    PROVE  IsFiniteSet(Units(f, T))
<1> DEFINE g == [s \in T |-> {s} \X (1..f[s])]
           R == {{s} \X (1..f[s]) : s \in T}
<1>1. IsFiniteSet(T)
  BY FS_Subset
<1>2. g \in Surjection(T, R)
  BY DEF Surjection
<1>3. IsFiniteSet(R)
  <2> HIDE DEF g, R
  <2> QED BY <1>1, <1>2, FS_Surjection
<1>4. \A Q \in R : IsFiniteSet(Q)
  <2> TAKE Q \in R
  <2>1. PICK s \in T : Q = {s} \X (1..f[s])
    OBVIOUS
  <2>2. f[s] \in Nat
    BY <2>1
  <2>3. IsFiniteSet({s} \X (1..f[s]))
    BY <2>2, HolderUnits
  <2> QED BY <2>1, <2>3
<1>5. IsFiniteSet(UNION R)
  <2> HIDE DEF R
  <2> QED BY <1>3, <1>4, FS_UNION
<1> QED BY <1>5 DEF Units

LEMMA TotalType ==
    ASSUME NEW S, IsFiniteSet(S), NEW f \in [S -> Nat], NEW T \in SUBSET S
    PROVE  Total(f, T) \in Nat
BY UnitsFinite, FS_CardinalityType DEF Total

\* Taking one holder out of the sum.
LEMMA TotalSplit ==
    ASSUME NEW S, IsFiniteSet(S), NEW f \in [S -> Nat],
           NEW T \in SUBSET S, NEW x \in T
    PROVE  Total(f, T) = Total(f, T \ {x}) + f[x]
<1> DEFINE A == Units(f, T \ {x})
           B == {x} \X (1..f[x])
<1>1. Units(f, T) = A \cup B
  BY DEF Units
<1>2. A \cap B = {}
  BY DEF Units
<1>3. IsFiniteSet(A) /\ IsFiniteSet(B) /\ Cardinality(B) = f[x]
  BY UnitsFinite, HolderUnits
<1>4. Cardinality(A) \in Nat
  BY <1>3, FS_CardinalityType
<1>5. Cardinality(A \cup B) =
        Cardinality(A) + Cardinality(B) - Cardinality(A \cap B)
  <2> HIDE DEF A, B
  <2> QED BY <1>3, FS_Union
<1>6. Cardinality(A \cap B) = 0
  BY <1>2, FS_EmptySet
<1> QED BY <1>1, <1>3, <1>4, <1>5, <1>6 DEF Total

\* The sum only depends on the amounts of the holders summed over.
LEMMA TotalSame ==
    ASSUME NEW f, NEW g, NEW T, \A s \in T : f[s] = g[s]
    PROVE  Total(f, T) = Total(g, T)
<1>1. Units(f, T) = Units(g, T)
  BY DEF Units
<1> QED BY <1>1 DEF Total

\* Changing what one holder holds.
LEMMA TotalUpdate ==
    ASSUME NEW S, IsFiniteSet(S), NEW f \in [S -> Nat], NEW g \in [S -> Nat],
           NEW x \in S, \A s \in S \ {x} : f[s] = g[s]
    PROVE  Total(g, S) = Total(f, S) - f[x] + g[x]
<1>1. Total(f, S \ {x}) = Total(g, S \ {x})
  BY TotalSame
<1>2. Total(f, S) = Total(f, S \ {x}) + f[x]
  BY TotalSplit
<1>3. Total(g, S) = Total(g, S \ {x}) + g[x]
  BY TotalSplit
<1>4. Total(f, S \ {x}) \in Nat /\ f[x] \in Nat /\ g[x] \in Nat
  BY TotalType
<1> QED BY <1>1, <1>2, <1>3, <1>4

\* Holders with nothing do not count.
LEMMA TotalIgnoresZero ==
    ASSUME NEW S, NEW f \in [S -> Nat], NEW T \in SUBSET S,
           \A s \in S \ T : f[s] = 0
    PROVE  Total(f, S) = Total(f, T)
<1>1. \A p : p \in Units(f, S) <=> p \in Units(f, T)
  BY UnitsMember
<1>2. Units(f, S) = Units(f, T)
  BY <1>1
<1> QED BY <1>2 DEF Total

\* Holding less makes the sum no larger.
LEMMA TotalMonotone ==
    ASSUME NEW S, IsFiniteSet(S), NEW f \in [S -> Nat], NEW g \in [S -> Nat],
           \A s \in S : f[s] <= g[s]
    PROVE  Total(f, S) <= Total(g, S)
<1>1. \A p : p \in Units(f, S) => p \in Units(g, S)
  BY UnitsMember
<1>2. IsFiniteSet(Units(g, S)) /\ Units(f, S) \in SUBSET Units(g, S)
  BY <1>1, UnitsFinite
<1> QED BY <1>2, FS_Subset DEF Total

\* Renaming the holders keeps the sum.
LEMMA TotalRename ==
    ASSUME NEW S, IsFiniteSet(S), NEW f \in [S -> Nat],
           NEW T, NEW g \in [T -> Nat], NEW h \in Bijection(S, T),
           \A s \in S : g[h[s]] = f[s]
    PROVE  Total(g, T) = Total(f, S)
<1>1. /\ h \in [S -> T]
      /\ \A a, b \in S : h[a] = h[b] => a = b
      /\ \A t \in T : \E s \in S : h[s] = t
  BY DEF Bijection, Injection, Surjection, IsInjective
<1> DEFINE A == Units(f, S)
           B == Units(g, T)
           u == [p \in A |-> <<h[p[1]], p[2]>>]
<1>2. u \in [A -> B]
  <2> SUFFICES ASSUME NEW p \in A PROVE <<h[p[1]], p[2]>> \in B
    OBVIOUS
  <2>1. PICK s \in S : \E k \in 1..f[s] : p = <<s, k>>
    BY UnitsMember
  <2>2. PICK k \in 1..f[s] : p = <<s, k>>
    BY <2>1
  <2>3. h[s] \in T /\ k \in 1..g[h[s]]
    BY <1>1, <2>1
  <2>4. <<h[s], k>> \in B
    BY <2>3, UnitsMember
  <2> QED BY <2>2, <2>4
<1>3. \A p, q \in A : u[p] = u[q] => p = q
  <2> SUFFICES ASSUME NEW p \in A, NEW q \in A,
                      <<h[p[1]], p[2]>> = <<h[q[1]], q[2]>>
               PROVE  p = q
    OBVIOUS
  <2>1. PICK s \in S : \E k \in 1..f[s] : p = <<s, k>>
    BY UnitsMember
  <2>2. PICK r \in S : \E j \in 1..f[r] : q = <<r, j>>
    BY UnitsMember
  <2>3. h[s] = h[r] /\ p[2] = q[2]
    BY <2>1, <2>2
  <2> QED BY <1>1, <2>1, <2>2, <2>3
<1>4. \A q \in B : \E p \in A : u[p] = q
  <2> SUFFICES ASSUME NEW q \in B PROVE \E p \in A : u[p] = q
    OBVIOUS
  <2>1. PICK t \in T : \E k \in 1..g[t] : q = <<t, k>>
    BY UnitsMember
  <2>2. PICK k \in 1..g[t] : q = <<t, k>>
    BY <2>1
  <2>3. PICK s \in S : h[s] = t
    BY <1>1
  <2>4. k \in 1..f[s]
    BY <2>2, <2>3
  <2>5. <<s, k>> \in A
    BY <2>4, UnitsMember
  <2> QED BY <2>2, <2>3, <2>5
<1>5. ExistsBijection(A, B)
  <2> HIDE DEF A, B
  <2>1. u \in Bijection(A, B)
    <3> HIDE DEF u
    <3> QED BY <1>2, <1>3, <1>4
          DEF Bijection, Injection, Surjection, IsInjective
  <2> QED BY <2>1 DEF ExistsBijection
<1>6. IsFiniteSet(A)
  BY UnitsFinite
<1>7. Cardinality(A) = Cardinality(B)
  <2> HIDE DEF A, B
  <2> QED BY <1>5, <1>6, FS_Bijection
<1> QED BY <1>7 DEF Total

\* Fewer holders hold no more.
LEMMA TotalSubset ==
    ASSUME NEW S, IsFiniteSet(S), NEW f \in [S -> Nat],
           NEW U \in SUBSET S, NEW T \in SUBSET U
    PROVE  Total(f, T) <= Total(f, U)
<1>1. Units(f, T) \in SUBSET Units(f, U)
  BY DEF Units
<1>2. IsFiniteSet(Units(f, U))
  BY UnitsFinite
<1> QED BY <1>1, <1>2, FS_Subset DEF Total

\* Nobody holds nothing.
LEMMA TotalEmpty ==
    ASSUME NEW f
    PROVE  Total(f, {}) = 0
<1>1. Units(f, {}) = {}
  BY DEF Units
<1> QED BY <1>1, FS_EmptySet DEF Total

\* A set of numbers that has, with a number, all smaller ones is an interval.
LEMMA PrefixSet ==
    ASSUME NEW n \in Nat, NEW K \in SUBSET (1..n),
           \A k \in K : \A j \in 1..k : j \in K
    PROVE  Cardinality(K) \in 0..n /\ K = 1..Cardinality(K)
<1>1. IsFiniteSet(1..n) /\ Cardinality(1..n) = n
  BY FS_Interval
<1>2. IsFiniteSet(K) /\ Cardinality(K) <= n
  BY <1>1, FS_Subset
<1>3. Cardinality(K) \in Nat
  BY <1>2, FS_CardinalityType
<1> DEFINE m == Cardinality(K)
<1>4. \A k \in K : k <= m
  <2> TAKE k \in K
  <2>1. k \in Nat /\ 1..k \in SUBSET K
    OBVIOUS
  <2>2. Cardinality(1..k) = k
    BY <2>1, FS_Interval
  <2>3. Cardinality(1..k) <= m
    BY <1>2, <2>1, FS_Subset
  <2> QED BY <2>2, <2>3
<1>5. IsFiniteSet(1..m) /\ Cardinality(1..m) = m
  BY <1>3, FS_Interval
<1>6. K \in SUBSET (1..m)
  <2> HIDE DEF m
  <2> QED BY <1>3, <1>4
<1>7. K = 1..m
  BY <1>5, <1>6, FS_Subset
<1> QED BY <1>2, <1>3, <1>7
\* Sums of two functions add up.
LEMMA TotalAdd ==
    ASSUME NEW S, IsFiniteSet(S), NEW f \in [S -> Nat], NEW g \in [S -> Nat],
           NEW h \in [S -> Nat], \A s \in S : h[s] = f[s] + g[s]
    PROVE  Total(h, S) = Total(f, S) + Total(g, S)
<1> DEFINE A == Units(f, S)
           B == Units(g, S)
           C == Units(h, S) \ A
           u == [p \in B |-> <<p[1], f[p[1]] + p[2]>>]
<1>1. A \in SUBSET Units(h, S)
  <2> SUFFICES ASSUME NEW p \in A PROVE p \in Units(h, S)
    OBVIOUS
  <2>1. PICK s \in S : \E k \in 1..f[s] : p = <<s, k>>
    BY UnitsMember
  <2>2. PICK k \in 1..f[s] : p = <<s, k>>
    BY <2>1
  <2>3. k \in 1..h[s]
    BY <2>2
  <2> QED BY <2>2, <2>3, UnitsMember
<1>2. \A s \in S : \A k \in Nat : <<s, k>> \in C <=> k \in (f[s] + 1)..h[s]
  <2> TAKE s \in S
  <2> TAKE k \in Nat
  <2>1. <<s, k>> \in Units(h, S) <=> k \in 1..h[s]
    BY UnitsMember
  <2>2. <<s, k>> \in A <=> k \in 1..f[s]
    BY UnitsMember
  <2>3. f[s] \in Nat /\ h[s] \in Nat
    OBVIOUS
  <2> QED BY <2>1, <2>2, <2>3
<1>3. u \in [B -> C]
  <2> SUFFICES ASSUME NEW p \in B PROVE <<p[1], f[p[1]] + p[2]>> \in C
    OBVIOUS
  <2>1. PICK s \in S : \E k \in 1..g[s] : p = <<s, k>>
    BY UnitsMember
  <2>2. PICK k \in 1..g[s] : p = <<s, k>>
    BY <2>1
  <2>3. f[s] + k \in (f[s] + 1)..h[s] /\ f[s] + k \in Nat
    BY <2>2
  <2>4. <<s, f[s] + k>> \in C
    BY <1>2, <2>3
  <2> QED BY <2>2, <2>4
<1>4. \A p, q \in B : u[p] = u[q] => p = q
  <2> SUFFICES ASSUME NEW p \in B, NEW q \in B,
                      <<p[1], f[p[1]] + p[2]>> = <<q[1], f[q[1]] + q[2]>>
               PROVE  p = q
    OBVIOUS
  <2>1. PICK s \in S : \E k \in 1..g[s] : p = <<s, k>>
    BY UnitsMember
  <2>2. PICK r \in S : \E j \in 1..g[r] : q = <<r, j>>
    BY UnitsMember
  <2>3. PICK k \in 1..g[s] : p = <<s, k>>
    BY <2>1
  <2>4. PICK j \in 1..g[r] : q = <<r, j>>
    BY <2>2
  <2>5. s = r /\ f[s] + k = f[r] + j
    BY <2>3, <2>4
  <2>6. k = j
    BY <2>5
  <2> QED BY <2>3, <2>4, <2>5, <2>6
<1>5. \A q \in C : \E p \in B : u[p] = q
  <2> SUFFICES ASSUME NEW q \in C PROVE \E p \in B : u[p] = q
    OBVIOUS
  <2>1. PICK s \in S : \E k \in 1..h[s] : q = <<s, k>>
    BY UnitsMember
  <2>2. PICK k \in 1..h[s] : q = <<s, k>>
    BY <2>1
  <2>3. k \in (f[s] + 1)..h[s]
    BY <1>2, <2>2
  <2>4. k - f[s] \in 1..g[s]
    BY <2>3
  <2>5. <<s, k - f[s]>> \in B
    BY <2>4, UnitsMember
  <2>6. f[s] + (k - f[s]) = k
    BY <2>3
  <2>7. u[<<s, k - f[s]>>] = <<s, f[s] + (k - f[s])>>
    BY <2>5
  <2> QED BY <2>2, <2>5, <2>6, <2>7
<1>6. IsFiniteSet(A) /\ IsFiniteSet(B) /\ IsFiniteSet(C)
  <2>1. IsFiniteSet(Units(h, S))
    BY UnitsFinite
  <2> QED BY <2>1, UnitsFinite, FS_Subset
<1>7. Cardinality(C) = Cardinality(B)
  <2> HIDE DEF B, C
  <2>1. u \in Bijection(B, C)
    <3> HIDE DEF u
    <3> QED BY <1>3, <1>4, <1>5
          DEF Bijection, Injection, Surjection, IsInjective
  <2>2. ExistsBijection(B, C)
    BY <2>1 DEF ExistsBijection
  <2> QED BY <1>6, <2>2, FS_Bijection
<1>8. Units(h, S) = A \cup C /\ A \cap C = {}
  BY <1>1
<1>9. Cardinality(A \cup C) = Cardinality(A) + Cardinality(C)
  <2>1. Cardinality(A \cap C) = 0
    BY <1>8, FS_EmptySet
  <2>2. Cardinality(A) \in Nat /\ Cardinality(C) \in Nat
    BY <1>6, FS_CardinalityType
  <2>3. Cardinality(A \cup C) =
          Cardinality(A) + Cardinality(C) - Cardinality(A \cap C)
    <3> HIDE DEF A, C
    <3> QED BY <1>6, FS_Union
  <2> HIDE DEF A, C
  <2> QED BY <2>1, <2>2, <2>3
<1> QED BY <1>7, <1>8, <1>9 DEF Total

\* A multiple of every amount makes a multiple of the sum.
LEMMA TotalScale ==
    ASSUME NEW S, IsFiniteSet(S), NEW f \in [S -> Nat], NEW h \in [S -> Nat],
           NEW c \in Nat, \A s \in S : h[s] = c * f[s]
    PROVE  Total(h, S) = c * Total(f, S)
<1> DEFINE A == Units(f, S)
           B == Units(h, S)
           u == [p \in A \X (1..c) |-> <<p[1][1], (p[1][2] - 1) * c + p[2]>>]
<1>1. \A k, n, i \in Nat : k \in 1..n /\ i \in 1..c
        => (k - 1) * c + i \in 1..(c * n)
  <2> SUFFICES ASSUME NEW k \in Nat, NEW n \in Nat, NEW i \in Nat,
                      k \in 1..n, i \in 1..c
               PROVE  (k - 1) * c + i \in 1..(c * n)
    OBVIOUS
  <2>1. (k - 1) * c \in Nat /\ c * n \in Nat
    OBVIOUS
  <2>2. k * c <= c * n
    OBVIOUS
  <2>3. (k - 1) * c + c = k * c
    OBVIOUS
  <2> QED BY <2>1, <2>2, <2>3
<1>2. \A k, j, i, l \in Nat : /\ k > 0 /\ j > 0 /\ i \in 1..c /\ l \in 1..c
                              /\ (k - 1) * c + i = (j - 1) * c + l
        => k = j /\ i = l
  <2> SUFFICES ASSUME NEW k \in Nat, NEW j \in Nat, NEW i \in Nat, NEW l \in Nat,
                      k > 0, j > 0, i \in 1..c, l \in 1..c,
                      (k - 1) * c + i = (j - 1) * c + l
               PROVE  k = j /\ i = l
    OBVIOUS
  <2>1. \A a, b \in Nat : a < b => a * c + c <= b * c
    <3> SUFFICES ASSUME NEW a \in Nat, NEW b \in Nat, a < b
                 PROVE  a * c + c <= b * c
      OBVIOUS
    <3>1. (a + 1) * c <= b * c
      OBVIOUS
    <3>2. (a + 1) * c = a * c + c
      OBVIOUS
    <3> QED BY <3>1, <3>2
  <2>2. (k - 1) * c \in Nat /\ (j - 1) * c \in Nat
    OBVIOUS
  <2>3. ~(k < j)
    BY <2>1, <2>2
  <2>4. ~(j < k)
    BY <2>1, <2>2
  <2>5. k = j
    BY <2>3, <2>4
  <2> QED BY <2>2, <2>5
<1>3. \A m, n \in Nat : m \in 1..(c * n)
        => \E k \in 1..n, i \in 1..c : (k - 1) * c + i = m
  <2> SUFFICES ASSUME NEW m \in Nat, NEW n \in Nat, m \in 1..(c * n)
               PROVE  \E k \in 1..n, i \in 1..c : (k - 1) * c + i = m
    OBVIOUS
  <2>1. c > 0
    <3>1. c = 0 => c * n = 0
      OBVIOUS
    <3> QED BY <3>1
  <2> DEFINE q == (m - 1) \div c
             r == (m - 1) % c
  <2>2. q \in Nat /\ r \in 0..(c - 1) /\ m - 1 = c * q + r
    BY <2>1
  <2> HIDE DEF q, r
  <2>3. q < n
    <3>1. q >= n => c * q >= c * n
      BY <2>2
    <3>2. c * q \in Nat /\ c * n \in Nat
      BY <2>2
    <3> QED BY <2>2, <3>1, <3>2
  <2>4. q + 1 \in 1..n /\ r + 1 \in 1..c
    BY <2>2, <2>3
  <2> DEFINE k == q + 1
             i == r + 1
  <2>5. k \in 1..n /\ i \in 1..c /\ k - 1 = q /\ i = r + 1
    BY <2>2, <2>4
  <2> HIDE DEF k, i
  <2>6. (k - 1) * c + i = m
    <3>1. (k - 1) * c = c * q
      BY <2>2, <2>5
    <3>2. c * q \in Nat
      BY <2>2
    <3> QED BY <2>2, <2>5, <3>1, <3>2
  <2> QED BY ONLY <2>5, <2>6
<1>4. u \in [A \X (1..c) -> B]
  <2> SUFFICES ASSUME NEW p \in A \X (1..c)
               PROVE  <<p[1][1], (p[1][2] - 1) * c + p[2]>> \in B
    OBVIOUS
  <2>1. PICK s \in S : \E k \in 1..f[s] : p[1] = <<s, k>>
    BY UnitsMember
  <2>2. PICK k \in 1..f[s] : p[1] = <<s, k>>
    BY <2>1
  <2>3. f[s] \in Nat /\ k \in Nat /\ p[2] \in Nat /\ p[2] \in 1..c
    BY <2>2
  <2>4. (k - 1) * c + p[2] \in 1..h[s]
    BY <1>1, <2>2, <2>3
  <2>5. <<s, (k - 1) * c + p[2]>> \in B
    BY <2>4, UnitsMember
  <2> QED BY <2>2, <2>5
<1>5. \A p, q \in A \X (1..c) : u[p] = u[q] => p = q
  <2> SUFFICES ASSUME NEW p \in A \X (1..c), NEW q \in A \X (1..c),
                      <<p[1][1], (p[1][2] - 1) * c + p[2]>>
                        = <<q[1][1], (q[1][2] - 1) * c + q[2]>>
               PROVE  p = q
    OBVIOUS
  <2>1. PICK s \in S : \E k \in 1..f[s] : p[1] = <<s, k>>
    BY UnitsMember
  <2>2. PICK t \in S : \E j \in 1..f[t] : q[1] = <<t, j>>
    BY UnitsMember
  <2>3. PICK k \in 1..f[s] : p[1] = <<s, k>>
    BY <2>1
  <2>4. PICK j \in 1..f[t] : q[1] = <<t, j>>
    BY <2>2
  <2>5. s = t /\ (k - 1) * c + p[2] = (j - 1) * c + q[2]
    BY <2>3, <2>4
  <2>6. /\ k \in Nat /\ k > 0 /\ j \in Nat /\ j > 0
        /\ p[2] \in Nat /\ q[2] \in Nat /\ p[2] \in 1..c /\ q[2] \in 1..c
    OBVIOUS
  <2>7. k = j /\ p[2] = q[2]
    BY ONLY <1>2, <2>5, <2>6
  <2>8. p = <<p[1], p[2]>> /\ q = <<q[1], q[2]>>
    OBVIOUS
  <2> QED BY <2>3, <2>4, <2>5, <2>7, <2>8
<1>6. \A q \in B : \E p \in A \X (1..c) : u[p] = q
  <2> SUFFICES ASSUME NEW q \in B PROVE \E p \in A \X (1..c) : u[p] = q
    OBVIOUS
  <2>1. PICK s \in S : \E m \in 1..h[s] : q = <<s, m>>
    BY UnitsMember
  <2>2. PICK m \in 1..h[s] : q = <<s, m>>
    BY <2>1
  <2>3. m \in Nat /\ f[s] \in Nat /\ m \in 1..(c * f[s])
    BY <2>2
  <2>4. PICK k \in 1..f[s], i \in 1..c : (k - 1) * c + i = m
    BY <1>3, <2>3
  <2>5. <<s, k>> \in A
    BY UnitsMember
  <2> DEFINE p == <<<<s, k>>, i>>
  <2>6. p \in A \X (1..c) /\ p[1][1] = s /\ p[1][2] = k /\ p[2] = i
    BY <2>5
  <2>7. u[p] = <<s, m>>
    BY <2>4, <2>6
  <2> QED BY <2>2, <2>6, <2>7
<1>7. IsFiniteSet(A) /\ IsFiniteSet(1..c) /\ Cardinality(1..c) = c
  <2>1. IsFiniteSet(A)
    BY UnitsFinite
  <2>2. IsFiniteSet(1..c) /\ Cardinality(1..c) = c
    BY FS_Interval
  <2> QED BY <2>1, <2>2
<1>8. /\ IsFiniteSet(A \X (1..c))
      /\ Cardinality(A \X (1..c)) = Cardinality(A) * c
  <2> HIDE DEF A
  <2> QED BY <1>7, FS_Product
<1>9. Cardinality(A \X (1..c)) = Cardinality(B)
  <2> HIDE DEF A, B
  <2>1. u \in Bijection(A \X (1..c), B)
    <3> HIDE DEF u
    <3> QED BY <1>4, <1>5, <1>6
          DEF Bijection, Injection, Surjection, IsInjective
  <2>2. ExistsBijection(A \X (1..c), B)
    BY <2>1 DEF ExistsBijection
  <2> QED BY <1>8, <2>2, FS_Bijection
<1>10. Cardinality(A) \in Nat
  BY <1>7, FS_CardinalityType
<1> QED BY <1>8, <1>9, <1>10 DEF Total

-----------------------------------------------------------------------------
(***************************************************************************)
(* Induction and recursion over an interval, stated with sets instead of   *)
(* predicates: a set that has 0 and with each number the next one has them *)
(* all.                                                                    *)
(***************************************************************************)

LEMMA IntervalInduction ==
    ASSUME NEW n \in Nat, NEW S, 0 \in S,
           \A k \in 1..n : k - 1 \in S => k \in S
    PROVE  \A k \in 0..n : k \in S
<1> DEFINE below == {p \in Nat \X Nat : p[1] < p[2]}
           T == {k \in 0..n : k \notin S}
<1>1. IsWellFoundedOn(below, Nat)
  <2>1. OpToRel(<, Nat) = below
    BY DEF OpToRel
  <2> HIDE DEF below
  <2> QED BY <2>1, NatLessThanWellFounded
<1>2. SUFFICES ASSUME T # {} PROVE FALSE
  OBVIOUS
<1>3. PICK x \in T : \A y \in T : ~(<<y, x>> \in below)
  <2>1. T \subseteq Nat
    OBVIOUS
  <2> HIDE DEF below, T
  <2> QED BY <1>1, <1>2, <2>1, WFMin
<1>4. x \in 1..n /\ x - 1 \in 0..n /\ x \notin S
  OBVIOUS
<1>5. x - 1 \notin T
  <2>1. <<x - 1, x>> \in below
    BY <1>4
  <2> HIDE DEF below, T
  <2> QED BY <1>3, <2>1
<1> QED BY <1>4, <1>5

\* A step for every number defines a sequence of values.
StepsOf(n, X) == [1..n -> [X -> X]]

Iterations(n, X, x0, step) ==
    {g \in [0..n -> X] :
       g[0] = x0 /\ \A k \in 1..n : g[k] = step[k][g[k - 1]]}

LEMMA IterationExists ==
    ASSUME NEW n \in Nat, NEW X, NEW x0 \in X, NEW step \in StepsOf(n, X)
    PROVE  Iterations(n, X, x0, step) # {}
<1> USE DEF StepsOf
<1> DEFINE Upto(m) == \E g \in [0..m -> X] :
             g[0] = x0 /\ \A k \in 1..m : g[k] = step[k][g[k - 1]]
           S == {m \in 0..n : Upto(m)}
<1>1. 0 \in S
  <2> DEFINE g == [k \in 0..0 |-> x0]
  <2>1. g \in [0..0 -> X] /\ g[0] = x0 /\ 1..0 = {}
    OBVIOUS
  <2>2. Upto(0)
    <3> HIDE DEF g
    <3> QED BY <2>1
  <2> HIDE DEF Upto
  <2> QED BY <2>2
<1>2. ASSUME NEW m \in 1..n, m - 1 \in S
      PROVE  m \in S
  <2>1. PICK g \in [0..(m - 1) -> X] :
          g[0] = x0 /\ \A k \in 1..(m - 1) : g[k] = step[k][g[k - 1]]
    BY <1>2
  <2> DEFINE h == [k \in 0..m |-> IF k = m THEN step[m][g[m - 1]] ELSE g[k]]
  <2>2. g[m - 1] \in X /\ step[m][g[m - 1]] \in X
    BY <2>1
  <2>3. h \in [0..m -> X]
    <3> SUFFICES ASSUME NEW k \in 0..m
                 PROVE  (IF k = m THEN step[m][g[m - 1]] ELSE g[k]) \in X
      OBVIOUS
    <3>1. CASE k = m
      BY <2>2, <3>1
    <3>2. CASE k # m
      BY <2>1, <3>2
    <3> QED BY <3>1, <3>2
  <2>4. h[0] = x0
    BY <2>1
  <2>5. ASSUME NEW k \in 1..m
        PROVE  h[k] = step[k][h[k - 1]]
    <3>1. h[k - 1] = g[k - 1]
      OBVIOUS
    <3>2. CASE k = m
      BY <3>1, <3>2
    <3>3. CASE k # m
      <4>1. k \in 1..(m - 1) /\ h[k] = g[k]
        BY <3>3
      <4> QED BY <2>1, <3>1, <4>1
    <3> QED BY <3>2, <3>3
  <2>6. Upto(m)
    <3> HIDE DEF h
    <3> QED BY <2>3, <2>4, <2>5
  <2> HIDE DEF Upto
  <2> QED BY <2>6
<1>3. n \in S
  <2>1. \A k \in 1..n : k - 1 \in S => k \in S
    BY <1>2
  <2>2. \A k \in 0..n : k \in S
    <3> HIDE DEF S
    <3> QED BY <1>1, <2>1, IntervalInduction
  <2>3. n \in 0..n
    OBVIOUS
  <2> QED BY <2>2, <2>3, Zenon
<1>4. Upto(n)
  <2> HIDE DEF Upto
  <2> QED BY <1>3
<1> QED BY <1>4 DEF Iterations

\* Sums over disjoint sets.
LEMMA TotalUnion ==
    ASSUME NEW S, IsFiniteSet(S), NEW f \in [S -> Nat],
           NEW A \in SUBSET S, NEW B \in SUBSET S, A \cap B = {}
    PROVE  Total(f, A \cup B) = Total(f, A) + Total(f, B)
<1>1. Units(f, A \cup B) = Units(f, A) \cup Units(f, B)
  BY DEF Units
<1>2. Units(f, A) \cap Units(f, B) = {}
  <2> SUFFICES ASSUME NEW p \in Units(f, A), p \in Units(f, B)
               PROVE  FALSE
    OBVIOUS
  <2>1. /\ \E s \in A : \E k \in 1..f[s] : p = <<s, k>>
        /\ \E s \in B : \E k \in 1..f[s] : p = <<s, k>>
    BY UnitsMember
  <2> QED BY <2>1
<1>3. IsFiniteSet(Units(f, A)) /\ IsFiniteSet(Units(f, B))
  BY UnitsFinite
<1>4. /\ Cardinality(Units(f, A)) \in Nat /\ Cardinality(Units(f, B)) \in Nat
      /\ Cardinality(Units(f, A) \cap Units(f, B)) = 0
  BY <1>2, <1>3, FS_CardinalityType, FS_EmptySet
<1>5. Cardinality(Units(f, A) \cup Units(f, B)) =
        Cardinality(Units(f, A)) + Cardinality(Units(f, B))
          - Cardinality(Units(f, A) \cap Units(f, B))
  BY <1>3, FS_Union
<1>6. Cardinality(Units(f, A) \cup Units(f, B)) =
        Cardinality(Units(f, A)) + Cardinality(Units(f, B))
  BY <1>4, <1>5
<1> QED BY <1>1, <1>6, Zenon DEF Total
=============================================================================
