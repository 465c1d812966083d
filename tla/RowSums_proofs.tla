--------------------------- MODULE RowSums_proofs ---------------------------
(* Facts about Total, for any number of rows.                              *)
EXTENDS RowSums, WellFoundedInduction, TLAPS

\* A non-empty set of naturals has a least element.
LEMMA LeastNatural ==
    ASSUME NEW T \in SUBSET Nat, T # {}
    PROVE  \E m \in T : \A k \in T : m <= k
  <1> DEFINE R == {ss \in Nat \X Nat : ss[1] < ss[2]}
  <1>1. IsWellFoundedOn(R, Nat)
    BY NatLessThanWellFounded DEF OpToRel
  <1> HIDE DEF R
  <1>2. PICK m \in T : \A k \in T : ~ (<<k, m>> \in R)
    BY <1>1, WFMin
  <1>3. ASSUME NEW k \in T PROVE m <= k
    <2>1. <<k, m>> \in Nat \X Nat /\ <<k, m>> \notin R
      BY <1>2
    <2>2. ~ (k < m)
      BY <2>1 DEF R
    <2> QED
      BY <2>2
  <1> QED
    BY <1>3

\* Induction along 0..n, stated of a set so that it can be cited.
LEMMA PrefixInduction ==
    ASSUME NEW n \in Nat, NEW T, 0 \in T,
           \A k \in 1..n : k - 1 \in T => k \in T
    PROVE  \A k \in 0..n : k \in T
  <1> DEFINE Bad == {k \in 0..n : k \notin T}
  <1>1. ASSUME Bad # {} PROVE FALSE
    <2>1. Bad \in SUBSET Nat
      OBVIOUS
    <2> HIDE DEF Bad
    <2>2. PICK m \in Bad : \A j \in Bad : m <= j
      BY <1>1, <2>1, LeastNatural
    <2> USE DEF Bad
    <2>3. m \in 1..n /\ m - 1 \in 0..n /\ m \notin T
      BY <2>2
    <2>4. m - 1 \notin Bad
      BY <2>2, <2>3
    <2> QED
      BY <2>3, <2>4
  <1> QED
    BY <1>1

\* The functions that are the partial sums of f up to k.
Sums(f, k) ==
    {S \in [0..k -> Int] : /\ S[0] = 0
                           /\ \A j \in 1..k : S[j] = S[j - 1] + f[j]}

\* Partial sums of f extend from a prefix to the next entry.
LEMMA SumsStep ==
    ASSUME NEW n \in Nat, NEW f \in [1..n -> Int], NEW m \in 1..n, Sums(f, m - 1) # {}
    PROVE  Sums(f, m) # {}
  <1>1. PICK S \in [0..(m - 1) -> Int] : /\ S[0] = 0
                                         /\ \A j \in 1..(m - 1) : S[j] = S[j - 1] + f[j]
    BY DEF Sums
  <1> DEFINE R == [j \in 0..m |-> IF j = m THEN S[m - 1] + f[m] ELSE S[j]]
  <1>2. R \in [0..m -> Int]
    <2>1. S[m - 1] \in Int /\ f[m] \in Int
      BY <1>1
    <2>2. \A j \in 0..m : j # m => S[j] \in Int
      BY <1>1
    <2> QED
      BY <2>1, <2>2
  <1>3. R[0] = 0 /\ \A j \in 1..m : R[j] = R[j - 1] + f[j]
    BY <1>1
  <1> HIDE DEF R
  <1> QED
    BY <1>2, <1>3 DEF Sums

\* Partial sums exist for every function with integer values.
LEMMA SumsExist ==
    ASSUME NEW n \in Nat, NEW f \in [1..n -> Int]
    PROVE  Sums(f, n) # {}
  <1> DEFINE T == {k \in 0..n : Sums(f, k) # {}}
  <1>1. [j \in 0..0 |-> 0] \in Sums(f, 0)
    BY DEF Sums
  <1>2. 0 \in T
    BY <1>1
  <1>3. ASSUME NEW k \in 1..n, k - 1 \in T PROVE k \in T
    BY <1>3, SumsStep
  <1> HIDE DEF T
  <1>4. \A k \in 0..n : k \in T
    BY <1>2, <1>3, PrefixInduction
  <1>5. n \in T
    BY <1>4
  <1> QED
    BY <1>5 DEF T

\* Total is the last of the partial sums.
LEMMA TotalIsSum ==
    ASSUME NEW n \in Nat, NEW f \in [1..n -> Int]
    PROVE  \E S \in Sums(f, n) : Total(f, n) = S[n]
  <1> DEFINE F == CHOOSE S : S = [k \in 0..n |-> IF k = 0 THEN 0 ELSE S[k - 1] + f[k]]
  <1>1. Total(f, n) = F[n]
    BY DEF Total
  <1>2. PICK S \in Sums(f, n) : TRUE
    BY SumsExist
  <1>3. S = [k \in 0..n |-> IF k = 0 THEN 0 ELSE S[k - 1] + f[k]]
    BY <1>2 DEF Sums
  <1>4. F = [k \in 0..n |-> IF k = 0 THEN 0 ELSE F[k - 1] + f[k]]
    BY <1>3
  <1> HIDE DEF F
  <1> DEFINE T == {k \in 0..n : F[k] = S[k]}
  <1>5. 0 \in T
    BY <1>2, <1>4 DEF Sums
  <1>6. ASSUME NEW k \in 1..n, k - 1 \in T PROVE k \in T
    <2>1. F[k] = F[k - 1] + f[k]
      BY <1>4
    <2>2. S[k] = S[k - 1] + f[k]
      BY <1>2 DEF Sums
    <2> QED
      BY <1>6, <2>1, <2>2
  <1> HIDE DEF T
  <1>7. \A k \in 0..n : k \in T
    BY <1>5, <1>6, PrefixInduction
  <1> QED
    BY <1>1, <1>2, <1>7 DEF T

\* g is f moved by the increments of e.
Shifts(f, g, e, n) ==
    /\ e[0] = 0
    /\ \A k \in 1..n : g[k] = f[k] + (e[k] - e[k - 1])

\* If g differs from f by the increments of e, its total differs by e[n].
LEMMA TotalShift ==
    ASSUME NEW n \in Nat, NEW f \in [1..n -> Int], NEW g \in [1..n -> Int],
           NEW e \in [0..n -> Int], Shifts(f, g, e, n)
    PROVE  Total(g, n) = Total(f, n) + e[n]
  <1>1. PICK S \in Sums(f, n) : Total(f, n) = S[n]
    BY TotalIsSum
  <1>2. PICK R \in Sums(g, n) : Total(g, n) = R[n]
    BY TotalIsSum
  <1> DEFINE T == {k \in 0..n : R[k] = S[k] + e[k]}
  <1>3. 0 \in T
    BY <1>1, <1>2 DEF Sums, Shifts
  <1>4. ASSUME NEW k \in 1..n, k - 1 \in T PROVE k \in T
    <2>1. R[k] = R[k - 1] + g[k] /\ S[k] = S[k - 1] + f[k]
      BY <1>1, <1>2 DEF Sums
    <2>2. R[k - 1] = S[k - 1] + e[k - 1]
      BY <1>4
    <2>3. S[k - 1] \in Int /\ e[k - 1] \in Int /\ e[k] \in Int /\ f[k] \in Int
      <3>1. k - 1 \in 0..n /\ k \in 0..n
        OBVIOUS
      <3> QED
        BY <1>1, <3>1 DEF Sums
    <2>4. g[k] = f[k] + (e[k] - e[k - 1])
      BY DEF Shifts
    <2>5. R[k] = (S[k - 1] + e[k - 1]) + (f[k] + (e[k] - e[k - 1]))
      BY <2>1, <2>2, <2>4
    <2>6. (S[k - 1] + e[k - 1]) + (f[k] + (e[k] - e[k - 1])) = (S[k - 1] + f[k]) + e[k]
      BY <2>3
    <2>7. R[k] = S[k] + e[k]
      BY <2>1, <2>5, <2>6
    <2> QED
      BY <2>7
  <1> HIDE DEF T
  <1>5. \A k \in 0..n : k \in T
    BY <1>3, <1>4, PrefixInduction
  <1> QED
    BY <1>1, <1>2, <1>5 DEF T

\* Changing one entry moves the total by the difference.
LEMMA TotalUpdate ==
    ASSUME NEW n \in Nat, NEW f \in [1..n -> Int], NEW g \in [1..n -> Int],
           NEW x \in 1..n,
           \A k \in 1..n : k # x => g[k] = f[k]
    PROVE  Total(g, n) = Total(f, n) + (g[x] - f[x])
  <1> DEFINE d == g[x] - f[x]
  <1> DEFINE e == [k \in 0..n |-> IF k >= x THEN d ELSE 0]
  <1>1. d \in Int /\ g[x] = f[x] + d
    OBVIOUS
  <1> HIDE DEF d
  <1>2. e \in [0..n -> Int] /\ e[0] = 0 /\ e[n] = d
    BY <1>1
  <1>3. ASSUME NEW k \in 1..n PROVE g[k] = f[k] + (e[k] - e[k - 1])
    <2>0. f[k] \in Int /\ g[k] \in Int
      OBVIOUS
    <2>1. CASE k = x
      BY <1>1, <2>0, <2>1
    <2>2. CASE k # x
      <3>1. e[k] = e[k - 1]
        BY <2>2
      <3>2. e[k] \in Int
        BY <1>2
      <3> QED
        BY <2>0, <2>2, <3>1, <3>2
    <2> QED
      BY <2>1, <2>2
  <1> HIDE DEF e
  <1>4. Total(g, n) = Total(f, n) + e[n]
    BY <1>2, <1>3, TotalShift DEF Shifts
  <1> QED
    BY <1>2, <1>4 DEF d

\* Appending an entry adds it to the total.
LEMMA TotalExtend ==
    ASSUME NEW n \in Nat, NEW f \in [1..n -> Int], NEW g \in [1..(n + 1) -> Int],
           \A k \in 1..n : g[k] = f[k]
    PROVE  Total(g, n + 1) = Total(f, n) + g[n + 1]
  <1>1. PICK S \in Sums(f, n) : Total(f, n) = S[n]
    BY TotalIsSum
  <1>2. n + 1 \in Nat
    OBVIOUS
  <1>3. PICK R \in Sums(g, n + 1) : Total(g, n + 1) = R[n + 1]
    BY <1>2, TotalIsSum
  <1> DEFINE T == {k \in 0..n : R[k] = S[k]}
  <1>4. 0 \in T
    BY <1>1, <1>3 DEF Sums
  <1>5. ASSUME NEW k \in 1..n, k - 1 \in T PROVE k \in T
    BY <1>1, <1>3, <1>5 DEF Sums
  <1> HIDE DEF T
  <1>6. \A k \in 0..n : k \in T
    BY <1>4, <1>5, PrefixInduction
  <1>7. R[n + 1] = R[n] + g[n + 1]
    BY <1>3 DEF Sums
  <1> QED
    BY <1>1, <1>3, <1>6, <1>7 DEF T

\* The total of no rows is zero.
LEMMA TotalEmpty ==
    ASSUME NEW f \in [1..0 -> Int]
    PROVE  Total(f, 0) = 0
  BY TotalIsSum DEF Sums

\* The total of naturals is at least each of them.
LEMMA TotalBound ==
    ASSUME NEW n \in Nat, NEW f \in [1..n -> Nat], NEW x \in 1..n
    PROVE  Total(f, n) \in Nat /\ f[x] <= Total(f, n)
  <1>1. PICK S \in Sums(f, n) : Total(f, n) = S[n]
    BY TotalIsSum
  <1> DEFINE T == {k \in 0..n : S[k] >= 0 /\ (k >= x => S[k] >= f[x])}
  <1>2. 0 \in T
    BY <1>1 DEF Sums
  <1>3. ASSUME NEW k \in 1..n, k - 1 \in T PROVE k \in T
    <2>1. S[k] = S[k - 1] + f[k] /\ S[k - 1] \in Int /\ f[k] \in Nat /\ f[x] \in Nat
      BY <1>1 DEF Sums
    <2>2. S[k - 1] >= 0 /\ (k - 1 >= x => S[k - 1] >= f[x])
      BY <1>3
    <2> QED
      BY <2>1, <2>2
  <1> HIDE DEF T
  <1>4. \A k \in 0..n : k \in T
    BY <1>2, <1>3, PrefixInduction
  <1> QED
    BY <1>1, <1>4 DEF T, Sums

\* The total of integers is an integer.
LEMMA TotalType ==
    ASSUME NEW n \in Nat, NEW f \in [1..n -> Int]
    PROVE  Total(f, n) \in Int
  BY TotalIsSum DEF Sums

\* Totals are monotone in their entries.
LEMMA TotalMonotone ==
    ASSUME NEW n \in Nat, NEW f \in [1..n -> Int], NEW g \in [1..n -> Int],
           \A k \in 1..n : f[k] <= g[k]
    PROVE  Total(f, n) <= Total(g, n)
  <1>1. PICK S \in Sums(f, n) : Total(f, n) = S[n]
    BY TotalIsSum
  <1>2. PICK R \in Sums(g, n) : Total(g, n) = R[n]
    BY TotalIsSum
  <1> DEFINE T == {k \in 0..n : S[k] <= R[k]}
  <1>3. 0 \in T
    BY <1>1, <1>2 DEF Sums
  <1>4. ASSUME NEW k \in 1..n, k - 1 \in T PROVE k \in T
    <2>1. R[k] = R[k - 1] + g[k] /\ S[k] = S[k - 1] + f[k]
      BY <1>1, <1>2 DEF Sums
    <2>2. R[k - 1] \in Int /\ S[k - 1] \in Int /\ f[k] \in Int /\ g[k] \in Int
      BY <1>1, <1>2 DEF Sums
    <2> QED
      BY <1>4, <2>1, <2>2
  <1> HIDE DEF T
  <1>5. \A k \in 0..n : k \in T
    BY <1>3, <1>4, PrefixInduction
  <1> QED
    BY <1>1, <1>2, <1>5 DEF T

\* Totals add up entry by entry.
LEMMA TotalAdd ==
    ASSUME NEW n \in Nat, NEW f \in [1..n -> Int], NEW g \in [1..n -> Int],
           NEW h \in [1..n -> Int],
           \A k \in 1..n : h[k] = f[k] + g[k]
    PROVE  Total(h, n) = Total(f, n) + Total(g, n)
  <1>1. PICK e \in Sums(g, n) : Total(g, n) = e[n]
    BY TotalIsSum
  <1>2. e \in [0..n -> Int] /\ e[0] = 0 /\ \A k \in 1..n : e[k] = e[k - 1] + g[k]
    BY <1>1 DEF Sums
  <1>3. ASSUME NEW k \in 1..n PROVE h[k] = f[k] + (e[k] - e[k - 1])
    <2>1. e[k] = e[k - 1] + g[k] /\ e[k - 1] \in Int /\ g[k] \in Int
      BY <1>2
    <2>2. e[k] - e[k - 1] = g[k]
      BY <2>1
    <2> QED
      BY <2>2
  <1>4. Shifts(f, h, e, n)
    BY <1>2, <1>3 DEF Shifts
  <1> QED
    BY <1>1, <1>2, <1>4, TotalShift

\* The total of zeros is zero.
LEMMA TotalZero ==
    ASSUME NEW n \in Nat, NEW f \in [1..n -> Int], \A k \in 1..n : f[k] = 0
    PROVE  Total(f, n) = 0
  <1>1. Total(f, n) = Total(f, n) + Total(f, n)
    BY TotalAdd
  <1> QED
    BY <1>1, TotalType

\* The total of naturals is a natural.
LEMMA TotalNat ==
    ASSUME NEW n \in Nat, NEW f \in [1..n -> Nat]
    PROVE  Total(f, n) \in Nat
  <1> DEFINE z == [k \in 1..n |-> 0]
  <1>1. z \in [1..n -> Int] /\ f \in [1..n -> Int] /\ \A k \in 1..n : z[k] = 0 /\ z[k] <= f[k]
    OBVIOUS
  <1> HIDE DEF z
  <1>2. Total(z, n) = 0 /\ Total(z, n) <= Total(f, n) /\ Total(f, n) \in Int
    BY <1>1, TotalZero, TotalMonotone, TotalType
  <1> QED
    BY <1>2

Prefix(h, k) == [j \in 1..k |-> h[j]]
InGroup(g, h, a, k) == [j \in 1..k |-> IF g[j] = a THEN h[j] ELSE 0]
GroupTotals(g, h, n, k) == [a \in 1..n |-> Total(InGroup(g, h, a, k), k)]

\* Grouping rows (SQL's GROUP BY) and adding the groups' totals gives the
\* total of all rows; g is the grouping key and 0 is the key of no group.
LEMMA TotalByGroup ==
    ASSUME NEW n \in Nat, NEW m \in Nat, NEW h \in [1..m -> Int], NEW g \in [1..m -> 0..n],
           \A j \in 1..m : g[j] = 0 => h[j] = 0
    PROVE  Total(GroupTotals(g, h, n, m), n) = Total(h, m)
  <1> DEFINE T == {k \in 0..m : Total(GroupTotals(g, h, n, k), n) = Total(Prefix(h, k), k)}
  <1>0. ASSUME NEW k \in 0..m PROVE /\ GroupTotals(g, h, n, k) \in [1..n -> Int]
                                    /\ \A a \in 1..n : InGroup(g, h, a, k) \in [1..k -> Int]
                                    /\ Prefix(h, k) \in [1..k -> Int]
    <2>1. ASSUME NEW a \in 1..n PROVE InGroup(g, h, a, k) \in [1..k -> Int]
      BY DEF InGroup
    <2>2. ASSUME NEW a \in 1..n PROVE Total(InGroup(g, h, a, k), k) \in Int
      BY <2>1, TotalType
    <2> QED
      BY <2>1, <2>2 DEF GroupTotals, Prefix
  <1>1. 0 \in T
    <2>1. ASSUME NEW a \in 1..n PROVE GroupTotals(g, h, n, 0)[a] = 0
      BY <1>0, TotalEmpty DEF GroupTotals
    <2>2. Total(GroupTotals(g, h, n, 0), n) = 0
      <3>1. GroupTotals(g, h, n, 0) \in [1..n -> Int]
        BY <1>0
      <3> QED
        BY <2>1, <3>1, TotalZero
    <2>3. Total(Prefix(h, 0), 0) = 0
      BY <1>0, TotalEmpty
    <2> QED
      BY <2>2, <2>3
  <1>2. ASSUME NEW k \in 1..m, k - 1 \in T PROVE k \in T
    <2>0. k - 1 \in Nat /\ k - 1 \in 0..m /\ k \in 0..m /\ (k - 1) + 1 = k
      OBVIOUS
    <2>1. Total(Prefix(h, k), k) = Total(Prefix(h, k - 1), k - 1) + h[k]
      <3>1. \A j \in 1..(k - 1) : Prefix(h, k)[j] = Prefix(h, k - 1)[j]
        BY DEF Prefix
      <3>2. Prefix(h, k)[k] = h[k]
        BY DEF Prefix
      <3>3. /\ Prefix(h, k - 1) \in [1..(k - 1) -> Int]
            /\ Prefix(h, k) \in [1..((k - 1) + 1) -> Int]
        BY <1>0, <2>0
      <3>4. Total(Prefix(h, k), (k - 1) + 1) = Total(Prefix(h, k - 1), k - 1) + Prefix(h, k)[(k - 1) + 1]
        BY <2>0, <3>1, <3>3, TotalExtend
      <3> QED
        BY <2>0, <3>2, <3>4
    <2>2. ASSUME NEW a \in 1..n
          PROVE  GroupTotals(g, h, n, k)[a] = GroupTotals(g, h, n, k - 1)[a] + (IF g[k] = a THEN h[k] ELSE 0)
      <3>1. \A j \in 1..(k - 1) : InGroup(g, h, a, k)[j] = InGroup(g, h, a, k - 1)[j]
        BY DEF InGroup
      <3>2. InGroup(g, h, a, k)[k] = IF g[k] = a THEN h[k] ELSE 0
        BY DEF InGroup
      <3>3. Total(InGroup(g, h, a, k), k) = Total(InGroup(g, h, a, k - 1), k - 1) + InGroup(g, h, a, k)[k]
        BY <1>0, <2>0, <3>1, TotalExtend
      <3> QED
        BY <3>2, <3>3 DEF GroupTotals
    <2>3. Total(GroupTotals(g, h, n, k), n) = Total(GroupTotals(g, h, n, k - 1), n) + h[k]
      <3>1. CASE g[k] = 0
        <4>1. h[k] = 0
          BY <3>1
        <4>2. ASSUME NEW a \in 1..n PROVE GroupTotals(g, h, n, k)[a] = GroupTotals(g, h, n, k - 1)[a]
          <5>1. GroupTotals(g, h, n, k - 1)[a] \in Int
            BY <1>0, <2>0
          <5> QED
            BY <2>2, <3>1, <5>1
        <4>3. GroupTotals(g, h, n, k) = GroupTotals(g, h, n, k - 1)
          BY <4>2 DEF GroupTotals
        <4>4. Total(GroupTotals(g, h, n, k - 1), n) \in Int
          BY <1>0, <2>0, TotalType
        <4> QED
          BY <4>1, <4>3, <4>4
      <3>2. CASE g[k] # 0
        <4>1. g[k] \in 1..n /\ h[k] \in Int
          BY <3>2
        <4>2. ASSUME NEW a \in 1..n, a # g[k]
              PROVE  GroupTotals(g, h, n, k)[a] = GroupTotals(g, h, n, k - 1)[a]
          <5>1. GroupTotals(g, h, n, k - 1)[a] \in Int
            BY <1>0, <2>0
          <5>2. GroupTotals(g, h, n, k)[a] = GroupTotals(g, h, n, k - 1)[a] + 0
            BY <2>2, <4>2
          <5> QED
            BY <5>1, <5>2
        <4>3. GroupTotals(g, h, n, k)[g[k]] = GroupTotals(g, h, n, k - 1)[g[k]] + h[k]
          BY <2>2, <4>1
        <4>4. GroupTotals(g, h, n, k) \in [1..n -> Int] /\ GroupTotals(g, h, n, k - 1) \in [1..n -> Int]
          BY <1>0, <2>0
        <4>5. GroupTotals(g, h, n, k)[g[k]] - GroupTotals(g, h, n, k - 1)[g[k]] = h[k]
          BY <4>1, <4>3, <4>4
        <4> QED
          BY <4>1, <4>2, <4>4, <4>5, TotalUpdate
      <3> QED
        BY <3>1, <3>2
    <2>4. Total(GroupTotals(g, h, n, k - 1), n) = Total(Prefix(h, k - 1), k - 1)
      BY <1>2
    <2> QED
      BY <2>0, <2>1, <2>3, <2>4
  <1> HIDE DEF T
  <1>3. \A k \in 0..m : k \in T
    BY <1>1, <1>2, PrefixInduction
  <1>4. Prefix(h, m) = h
    BY DEF Prefix
  <1> QED
    BY <1>3, <1>4 DEF T
=============================================================================
