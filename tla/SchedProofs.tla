---------------------------- MODULE SchedProofs -----------------------------
(***************************************************************************)
(* Proofs about SchedSim, for any file of processes and any quantum: each  *)
(* policy keeps the order it stands for, and round robin is fair.          *)
(*                                                                         *)
(* What holds in every state is proved by one induction on the steps.  The *)
(* functions it speaks of are recursive: the sums of the community modules *)
(* and the waiting times of findWaitingTime.  What is needed of them is    *)
(* shown by induction on subsets and on places in the list, from the least *)
(* number for which it would fail.                                         *)
(***************************************************************************)
EXTENDS SchedSim, FiniteSetTheorems, NaturalsInduction, WellFoundedInduction, TLAPS

LEMMA LeastNatural ==
  ASSUME NEW S \in SUBSET Nat, S # {}
  PROVE  \E n \in S : \A m \in S : n <= m
<1>1. PICK n \in S : \A m \in S : <<m, n>> \notin OpToRel(<, Nat)
  BY NatLessThanWellFounded, WFMin
<1>2. \A m \in S : ~(m < n)
  BY <1>1 DEF OpToRel
<1> QED
  BY <1>2

(* Induction, for sets of numbers and for sets of subsets: what recursive       *)
(* functions return is shown with these.                                        *)
LEMMA AllNaturals ==
  ASSUME NEW G, 0 \in G, \A n \in Nat : n \in G => n + 1 \in G
  PROVE  \A n \in Nat : n \in G
<1> DEFINE bad == {n \in Nat : n \notin G}
<1> SUFFICES ASSUME bad # {} PROVE FALSE
  OBVIOUS
<1>1. PICK n \in bad : \A m \in bad : n <= m
  BY LeastNatural
<1>2. n # 0 /\ n \in Nat
  OBVIOUS
<1>3. n - 1 \in Nat /\ ~(n <= n - 1) /\ (n - 1) + 1 = n
  BY <1>2
<1>4. n - 1 \in G
  BY <1>1, <1>3
<1> QED
  BY <1>3, <1>4

Pick(s) == CHOOSE x \in s : TRUE

LEMMA Picked == ASSUME NEW s, s # {} PROVE Pick(s) \in s
BY DEF Pick

LEMMA AllSubsets ==
  ASSUME NEW S, IsFiniteSet(S), NEW G, {} \in G,
         \A s \in SUBSET S : s # {} /\ s \ {Pick(s)} \in G => s \in G
  PROVE  \A s \in SUBSET S : s \in G
<1> DEFINE N == {n \in Nat : \A s \in SUBSET S : Cardinality(s) = n => s \in G}
<1>0. \A s \in SUBSET S : IsFiniteSet(s) /\ Cardinality(s) \in Nat
  BY FS_Subset, FS_CardinalityType
<1>1. 0 \in N
  <2>1. ASSUME NEW s \in SUBSET S, Cardinality(s) = 0 PROVE s = {}
    BY <1>0, <2>1, FS_EmptySet
  <2> QED
    BY <2>1
<1>2. ASSUME NEW n \in Nat, n \in N PROVE n + 1 \in N
  <2>1. ASSUME NEW s \in SUBSET S, Cardinality(s) = n + 1 PROVE s \in G
    <3>1. s # {}
      <4>1. Cardinality({}) = 0
        BY FS_EmptySet
      <4>2. n + 1 # 0
        OBVIOUS
      <4> QED
        BY <2>1, <4>1, <4>2
    <3>2. Pick(s) \in s
      BY <3>1, Picked
    <3>3. Cardinality(s \ {Pick(s)}) = n
      BY <1>0, <2>1, <3>2, FS_RemoveElement
    <3> QED
      BY <1>2, <3>1, <3>3
  <2> QED
    BY <2>1
<1> HIDE DEF N
<1>3. \A n \in Nat : n \in N
  BY <1>1, <1>2, AllNaturals
<1> QED
  BY <1>0, <1>3 DEF N

-----------------------------------------------------------------------------
(* The sums of the community modules, element by element. *)
Sums(f, S, sum) ==
  sum = [s \in SUBSET S |-> IF s = {} THEN 0 ELSE f[Pick(s)] + sum[s \ {Pick(s)}]]

(* The sets of at most so many elements. *)
Small(S, n) == {s \in SUBSET S : Cardinality(s) <= n}
SumsUpTo(f, S, n, sum) ==
  sum = [s \in Small(S, n) |-> IF s = {} THEN 0 ELSE f[Pick(s)] + sum[s \ {Pick(s)}]]

LEMMA SumsExist ==
  ASSUME NEW S, IsFiniteSet(S), NEW f
  PROVE  \E sum : Sums(f, S, sum)
<1> DEFINE G == {n \in Nat : \E sum : SumsUpTo(f, S, n, sum)}
<1>0. /\ \A s \in SUBSET S : IsFiniteSet(s) /\ Cardinality(s) \in Nat /\ Cardinality(s) <= Cardinality(S)
      /\ \A s \in SUBSET S : s # {} => /\ s \ {Pick(s)} \in SUBSET S
                                        /\ Cardinality(s \ {Pick(s)}) = Cardinality(s) - 1
  BY FS_Subset, FS_CardinalityType, FS_RemoveElement, Picked
<1>1. 0 \in G
  <2>1. \A s \in Small(S, 0) : s = {}
    BY <1>0, FS_EmptySet DEF Small
  <2> DEFINE zero == [s \in Small(S, 0) |-> 0]
  <2>2. SumsUpTo(f, S, 0, zero)
    BY <2>1 DEF SumsUpTo
  <2> QED
    BY <2>2
<1>2. ASSUME NEW n \in Nat, n \in G PROVE n + 1 \in G
  <2>1. PICK sum : SumsUpTo(f, S, n, sum)
    BY <1>2
  <2> DEFINE more == [s \in Small(S, n + 1) |-> IF s = {} THEN 0 ELSE f[Pick(s)] + sum[s \ {Pick(s)}]]
  <2>2. ASSUME NEW s \in Small(S, n) PROVE s \in Small(S, n + 1) /\ more[s] = sum[s]
    <3>1. s \in Small(S, n + 1)
      BY <1>0 DEF Small
    <3>2. sum[s] = IF s = {} THEN 0 ELSE f[Pick(s)] + sum[s \ {Pick(s)}]
      BY <2>1, Zenon DEF SumsUpTo
    <3> QED
      BY <3>1, <3>2
  <2>3. ASSUME NEW s \in Small(S, n + 1), s # {} PROVE s \ {Pick(s)} \in Small(S, n)
    BY <1>0, <2>3 DEF Small
  <2> HIDE DEF more
  <2>4. ASSUME NEW s \in Small(S, n + 1), s # {} PROVE more[s \ {Pick(s)}] = sum[s \ {Pick(s)}]
    BY <2>2, <2>3, <2>4
  <2>5. SumsUpTo(f, S, n + 1, more)
    BY <2>4 DEF SumsUpTo, more
  <2> QED
    BY <2>5
<1> HIDE DEF G
<1>3. \A n \in Nat : n \in G
  BY <1>1, <1>2, AllNaturals
<1>4. Cardinality(S) \in Nat
  BY FS_CardinalityType
<1>5. PICK sum : SumsUpTo(f, S, Cardinality(S), sum)
  BY <1>3, <1>4 DEF G
<1>6. Small(S, Cardinality(S)) = SUBSET S
  BY <1>0 DEF Small
<1> QED
  BY <1>5, <1>6 DEF SumsUpTo, Sums

LEMMA SumIs ==
  ASSUME NEW S, IsFiniteSet(S), NEW f, DOMAIN f = S
  PROVE  \E sum : Sums(f, S, sum) /\ SumFunction(f) = sum[S]
<1> DEFINE found == CHOOSE sum : Sums(f, S, sum)
<1>1. Sums(f, S, found)
  BY SumsExist, Zenon
<1>2. SumFunction(f) = found[S]
  BY Zenon DEF SumFunction, SumFunctionOnSet, FoldFunctionOnSet, MapThenFoldSet, Sums, Pick
<1> QED
  BY <1>1, <1>2

LEMMA SumSteps ==
  ASSUME NEW S, IsFiniteSet(S), NEW f \in [S -> Int], NEW sum, Sums(f, S, sum)
  PROVE  /\ sum[{}] = 0
         /\ \A s \in SUBSET S : s # {} => /\ Pick(s) \in s /\ s \ {Pick(s)} \in SUBSET S
                                          /\ sum[s] = f[Pick(s)] + sum[s \ {Pick(s)}]
         /\ \A s \in SUBSET S : sum[s] \in Int
<1>1. /\ sum[{}] = 0
      /\ \A s \in SUBSET S : s # {} => sum[s] = f[Pick(s)] + sum[s \ {Pick(s)}]
  <2>1. \A s \in SUBSET S : sum[s] = IF s = {} THEN 0 ELSE f[Pick(s)] + sum[s \ {Pick(s)}]
    BY Zenon DEF Sums
  <2> QED
    BY <2>1
<1>2. \A s \in SUBSET S : s # {} => Pick(s) \in s /\ s \ {Pick(s)} \in SUBSET S
  BY Picked
<1> DEFINE G == {s \in SUBSET S : sum[s] \in Int}
<1>3. {} \in G
  BY <1>1
<1>4. ASSUME NEW s \in SUBSET S, s # {}, s \ {Pick(s)} \in G PROVE s \in G
  BY <1>1, <1>2, <1>4
<1> HIDE DEF G
<1>5. \A s \in SUBSET S : s \in G
  BY <1>3, <1>4, AllSubsets
<1> QED
  BY <1>1, <1>2, <1>5 DEF G

(* An entry more or less in a sum. *)
Grown(f, g, p, d) == \A x \in DOMAIN f : g[x] = IF x = p THEN f[x] + d ELSE f[x]

LEMMA SumChanges ==
  ASSUME NEW S, IsFiniteSet(S), NEW f \in [S -> Int], NEW p \in S, NEW d \in Int,
         NEW g \in [S -> Int], Grown(f, g, p, d)
  PROVE  SumFunction(g) = SumFunction(f) + d
<1>0. DOMAIN g = S /\ DOMAIN f = S /\ \A x \in S : g[x] = IF x = p THEN f[x] + d ELSE f[x]
  BY DEF Grown
<1>1. PICK a : Sums(f, S, a) /\ SumFunction(f) = a[S]
  BY <1>0, SumIs
<1>2. PICK b : Sums(g, S, b) /\ SumFunction(g) = b[S]
  BY <1>0, SumIs
<1>3. /\ a[{}] = 0
      /\ \A s \in SUBSET S : s # {} => /\ Pick(s) \in s /\ s \ {Pick(s)} \in SUBSET S
                                       /\ a[s] = f[Pick(s)] + a[s \ {Pick(s)}]
      /\ \A s \in SUBSET S : a[s] \in Int
  BY <1>1, SumSteps
<1>4. /\ b[{}] = 0
      /\ \A s \in SUBSET S : s # {} => /\ Pick(s) \in s /\ s \ {Pick(s)} \in SUBSET S
                                       /\ b[s] = g[Pick(s)] + b[s \ {Pick(s)}]
      /\ \A s \in SUBSET S : b[s] \in Int
  <2>1. Sums(g, S, b) /\ g \in [S -> Int]
    BY <1>0, <1>2
  <2> QED
    BY <2>1, SumSteps
<1> DEFINE G == {s \in SUBSET S : b[s] = a[s] + IF p \in s THEN d ELSE 0}
<1>5. {} \in G
  BY <1>3, <1>4
<1>6. ASSUME NEW s \in SUBSET S, s # {}, s \ {Pick(s)} \in G PROVE s \in G
  <2>1. /\ Pick(s) \in S /\ a[s] = f[Pick(s)] + a[s \ {Pick(s)}] /\ b[s] = g[Pick(s)] + b[s \ {Pick(s)}]
        /\ a[s] \in Int /\ a[s \ {Pick(s)}] \in Int /\ f[Pick(s)] \in Int
    BY <1>3, <1>4, <1>6
  <2>2. b[s \ {Pick(s)}] = a[s \ {Pick(s)}] + IF p \in s \ {Pick(s)} THEN d ELSE 0
    BY <1>6
  <2>3. CASE Pick(s) = p
    <3>1. p \in s /\ p \notin s \ {Pick(s)} /\ g[Pick(s)] = f[Pick(s)] + d
      BY <1>0, <1>3, <1>6, <2>1, <2>3
    <3>2. b[s] = a[s] + d
      BY <2>1, <2>2, <3>1
    <3> QED
      BY <3>1, <3>2
  <2>4. CASE Pick(s) # p
    BY <1>0, <1>6, <2>1, <2>2, <2>4
  <2> QED
    BY <2>3, <2>4
<1> HIDE DEF G
<1>7. \A s \in SUBSET S : s \in G
  BY <1>5, <1>6, AllSubsets
<1>8. b[S] = a[S] + d
  BY <1>7 DEF G
<1> QED
  BY <1>1, <1>2, <1>8

(* A sum whose entries are all zero. *)
LEMMA SumOfZeros ==
  ASSUME NEW S, IsFiniteSet(S), NEW f \in [S -> Int], \A x \in S : f[x] = 0
  PROVE  SumFunction(f) = 0
<1>1. PICK a : Sums(f, S, a) /\ SumFunction(f) = a[S]
  BY SumIs
<1>2. /\ a[{}] = 0
      /\ \A s \in SUBSET S : s # {} => Pick(s) \in s /\ a[s] = f[Pick(s)] + a[s \ {Pick(s)}]
  BY <1>1, SumSteps
<1> DEFINE G == {s \in SUBSET S : a[s] = 0}
<1>3. {} \in G /\ \A s \in SUBSET S : s # {} /\ s \ {Pick(s)} \in G => s \in G
  BY <1>2
<1> HIDE DEF G
<1>4. \A s \in SUBSET S : s \in G
  BY <1>3, AllSubsets
<1> QED
  BY <1>1, <1>4 DEF G

(* A sum of which one entry is known and the others are bounded. *)
LEMMA SumBounded ==
  ASSUME NEW S, IsFiniteSet(S), NEW f \in [S -> Int], NEW p \in S, NEW most \in Nat,
         \A x \in S : x # p => f[x] \in 0..most
  PROVE  SumFunction(f) - f[p] \in 0..(most * (Cardinality(S) - 1))
<1>1. PICK a : Sums(f, S, a) /\ SumFunction(f) = a[S]
  BY SumIs
<1>2. /\ a[{}] = 0
      /\ \A s \in SUBSET S : s # {} => /\ Pick(s) \in s /\ s \ {Pick(s)} \in SUBSET S
                                       /\ a[s] = f[Pick(s)] + a[s \ {Pick(s)}]
      /\ \A s \in SUBSET S : a[s] \in Int
  BY <1>1, SumSteps
<1>3. \A s \in SUBSET S : IsFiniteSet(s) /\ Cardinality(s) \in Nat
  BY FS_Subset, FS_CardinalityType
<1>4. \A s \in SUBSET S : s # {} => Cardinality(s) = Cardinality(s \ {Pick(s)}) + 1
  <2>1. ASSUME NEW s \in SUBSET S, s # {} PROVE Cardinality(s) = Cardinality(s \ {Pick(s)}) + 1
    <3>1. Pick(s) \in s /\ IsFiniteSet(s) /\ Cardinality(s) \in Nat
      BY <1>2, <1>3, <2>1
    <3>2. Cardinality(s \ {Pick(s)}) = Cardinality(s) - 1
      BY <3>1, FS_RemoveElement
    <3> QED
      BY <3>1, <3>2
  <2> QED
    BY <2>1
<1> DEFINE G == {s \in SUBSET S : IF p \in s THEN a[s] - f[p] \in 0..(most * (Cardinality(s) - 1))
                                   ELSE a[s] \in 0..(most * Cardinality(s))}
<1>5. {} \in G
  BY <1>2, FS_EmptySet
<1>6. ASSUME NEW s \in SUBSET S, s # {}, s \ {Pick(s)} \in G PROVE s \in G
  <2> DEFINE x == Pick(s)
             r == s \ {x}
             n == Cardinality(r)
  <2>1. /\ x \in S /\ r \in SUBSET S /\ a[s] = f[x] + a[r] /\ a[r] \in Int /\ f[x] \in Int /\ f[p] \in Int
        /\ n \in Nat /\ Cardinality(s) = n + 1
    BY <1>2, <1>3, <1>4, <1>6
  <2>2. IF p \in r THEN a[r] - f[p] \in 0..(most * (n - 1)) ELSE a[r] \in 0..(most * n)
    BY <1>6
  <2>3. p \in s <=> p \in r \/ p = x
    BY <1>2, <1>6
  <2>4. p \in r => p # x
    OBVIOUS
  <2>5. most * (n + 1) = most * n + most /\ most * (n - 1) + most = most * n /\ most * n \in Nat
    BY <2>1
  <2> HIDE DEF x, r, n
  <2>6. CASE p = x
    BY <2>1, <2>2, <2>3, <2>4, <2>5, <2>6
  <2>7. CASE p # x /\ p \in r
    BY <2>1, <2>2, <2>3, <2>4, <2>5, <2>7
  <2>8. CASE p # x /\ p \notin r
    BY <2>1, <2>2, <2>3, <2>4, <2>5, <2>8
  <2> QED
    BY <2>6, <2>7, <2>8
<1> HIDE DEF G
<1>7. \A s \in SUBSET S : s \in G
  BY <1>5, <1>6, AllSubsets
<1> QED
  BY <1>1, <1>7 DEF G

-----------------------------------------------------------------------------
(* What a file is. *)
FileOk == file \in Seq(Jobs) /\ Ids # {}

LEMMA FileFacts ==
  ASSUME FileOk
  PROVE  /\ Len(file) \in Nat /\ Len(file) >= 1 /\ Ids = 1..Len(file) /\ Ids \subseteq Nat
         /\ IsFiniteSet(Ids) /\ Cardinality(Ids) = Len(file)
         /\ \A p \in Ids : Bt(p) \in Nat \ {0} /\ file[p].art \in Nat /\ file[p].pri \in Int
<1>1. Len(file) \in Nat /\ Ids = 1..Len(file) /\ \A p \in Ids : file[p] \in Jobs
  BY DEF FileOk, Ids
<1>2. \A j \in Jobs : j.bt \in Nat \ {0} /\ j.art \in Nat /\ j.pri \in Int
  BY SchedAssumption DEF SchedAssumption
<1>3. \A p \in Ids : Bt(p) \in Nat \ {0} /\ file[p].art \in Nat /\ file[p].pri \in Int
  BY <1>1, <1>2 DEF Bt
<1>4. Len(file) >= 1
  BY <1>1 DEF FileOk
<1>5. IsFiniteSet(1..Len(file)) /\ Cardinality(1..Len(file)) = Len(file)
  BY <1>1, <1>4, FS_Interval
<1> QED
  BY <1>1, <1>3, <1>4, <1>5

(* The recursive function of findWaitingTime, on the first places of a list and *)
(* on all of them.                                                              *)
Waits(l, w) ==
  w = [k \in DOMAIN l |-> IF k = 1 THEN file[l[1]].art ELSE Bt(l[k - 1]) + w[k - 1]]
WaitsUpTo(l, n, w) ==
  w = [k \in 1..n |-> IF k = 1 THEN file[l[1]].art ELSE Bt(l[k - 1]) + w[k - 1]]

LEMMA WaitsExist ==
  ASSUME NEW l, NEW n \in Nat, DOMAIN l = 1..n
  PROVE  \E w : Waits(l, w)
<1> DEFINE G == {m \in Nat : \E w : WaitsUpTo(l, m, w)}
<1>1. 0 \in G
  <2>1. WaitsUpTo(l, 0, [k \in 1..0 |-> 0])
    BY DEF WaitsUpTo
  <2> QED
    BY <2>1
<1>2. ASSUME NEW m \in Nat, m \in G PROVE m + 1 \in G
  <2>1. PICK w : WaitsUpTo(l, m, w)
    BY <1>2
  <2> DEFINE more == [k \in 1..m + 1 |-> IF k = 1 THEN file[l[1]].art ELSE Bt(l[k - 1]) + w[k - 1]]
  <2>2. ASSUME NEW k \in 1..m PROVE k \in 1..m + 1 /\ more[k] = w[k]
    <3>1. k \in 1..m + 1
      OBVIOUS
    <3>2. w[k] = IF k = 1 THEN file[l[1]].art ELSE Bt(l[k - 1]) + w[k - 1]
      BY <2>1, Zenon DEF WaitsUpTo
    <3> QED
      BY <3>1, <3>2
  <2>3. ASSUME NEW k \in 1..m + 1, k # 1 PROVE k - 1 \in 1..m
    BY <2>3
  <2> HIDE DEF more
  <2>4. ASSUME NEW k \in 1..m + 1, k # 1 PROVE more[k - 1] = w[k - 1]
    BY <2>2, <2>3, <2>4
  <2>5. WaitsUpTo(l, m + 1, more)
    BY <2>4 DEF WaitsUpTo, more
  <2> QED
    BY <2>5
<1> HIDE DEF G
<1>3. \A m \in Nat : m \in G
  BY <1>1, <1>2, AllNaturals
<1> QED
  BY <1>3 DEF G, Waits, WaitsUpTo

(* Each waits until the one before it is finished. *)
LEMMA WaitsRise ==
  ASSUME FileOk, NEW n \in Nat, NEW l \in [1..n -> Ids], NEW w, Waits(l, w)
  PROVE  /\ \A k \in 1..n : w[k] \in Nat
         /\ \A j, k \in 1..n : j < k => w[j] + Bt(l[j]) <= w[k]
<1>0. \A k \in 1..n : Bt(l[k]) \in Nat /\ file[l[k]].art \in Nat
  BY FileFacts
<1>1. \A k \in 1..n : w[k] = IF k = 1 THEN file[l[1]].art ELSE Bt(l[k - 1]) + w[k - 1]
  BY Zenon DEF Waits
<1> DEFINE G == {k \in Nat : k \in 1..n => w[k] \in Nat /\ \A j \in 1..k - 1 : w[j] \in Nat /\ w[j] + Bt(l[j]) <= w[k]}
<1>2. 0 \in G
  OBVIOUS
<1>3. ASSUME NEW m \in Nat, m \in G PROVE m + 1 \in G
  <2> SUFFICES ASSUME m + 1 \in 1..n
               PROVE  w[m + 1] \in Nat /\ \A j \in 1..m : w[j] \in Nat /\ w[j] + Bt(l[j]) <= w[m + 1]
    <3>1. (m + 1) - 1 = m
      OBVIOUS
    <3> QED
      BY <3>1
  <2>1. CASE m = 0
    <3>1. w[m + 1] = file[l[1]].art /\ 1 \in 1..n
      BY <1>1, <2>1
    <3> QED
      BY <1>0, <2>1, <3>1
  <2>2. CASE m # 0
    <3>1. m \in 1..n /\ m + 1 # 1 /\ (m + 1) - 1 = m
      BY <2>2
    <3>2. w[m + 1] = Bt(l[m]) + w[m]
      BY <1>1, <3>1
    <3>3. w[m] \in Nat /\ \A j \in 1..m - 1 : w[j] \in Nat /\ w[j] + Bt(l[j]) <= w[m]
      BY <1>3, <3>1
    <3>4. Bt(l[m]) \in Nat
      BY <1>0, <3>1
    <3>5. ASSUME NEW j \in 1..m PROVE w[j] \in Nat /\ w[j] + Bt(l[j]) <= w[m + 1]
      <4>1. CASE j = m
        BY <3>2, <3>3, <3>4, <4>1
      <4>2. CASE j # m
        <5>1. j \in 1..m - 1 /\ j \in 1..n
          BY <3>1, <4>2
        <5>2. Bt(l[j]) \in Nat /\ w[j] \in Nat /\ w[j] + Bt(l[j]) <= w[m]
          BY <1>0, <3>3, <5>1
        <5> QED
          BY <3>2, <3>3, <3>4, <5>2
      <4> QED
        BY <4>1, <4>2
    <3> QED
      BY <3>2, <3>3, <3>4, <3>5
  <2> QED
    BY <2>1, <2>2
<1> HIDE DEF G
<1>4. \A k \in Nat : k \in G
  BY <1>2, <1>3, AllNaturals
<1>5. \A k \in 1..n : w[k] \in Nat /\ \A j \in 1..k - 1 : w[j] + Bt(l[j]) <= w[k]
  BY <1>4 DEF G
<1> QED
  BY <1>5

(* The orders that findWaitingTime is called with. *)
Orders == {l \in [1..Len(file) -> Ids] : \A j, k \in 1..Len(file) : j # k => l[j] # l[k]}

LEMMA OrdersAre == ASSUME FileOk PROVE SetToSeqs(Ids) = Orders
BY FileFacts DEF SetToSeqs, Orders

LEMMA IdentityIsOrder == ASSUME FileOk PROVE [k \in Ids |-> k] \in Orders
BY FileFacts DEF Orders

LEMMA OneBehindTheOther ==
  ASSUME FileOk, NEW l \in Orders
  PROVE  /\ FindWaitingTime(l) \in [Ids -> Nat]
         /\ \A p \in Ids : \E k \in 1..Len(file) : l[k] = p
         /\ \A j, k \in 1..Len(file) :
              j < k => FindWaitingTime(l)[l[j]] + Bt(l[j]) <= FindWaitingTime(l)[l[k]]
<1> DEFINE n == Len(file)
           w == CHOOSE w : Waits(l, w)
           at(p) == CHOOSE k \in DOMAIN l : l[k] = p
<1>0. /\ n \in Nat /\ Ids = 1..n /\ IsFiniteSet(Ids) /\ l \in [1..n -> Ids] /\ DOMAIN l = 1..n
      /\ \A j, k \in 1..n : l[j] = l[k] => j = k
  BY FileFacts DEF Orders
<1>1. Waits(l, w)
  <2>1. \E v : Waits(l, v)
    BY <1>0, WaitsExist
  <2> QED
    BY <2>1, Zenon
<1>2. FindWaitingTime(l) = [p \in Ids |-> w[at(p)]]
  BY Zenon DEF FindWaitingTime, Waits
<1> HIDE DEF w, n
<1>3. l \in Surjection(1..n, Ids)
  <2>1. l \in Injection(1..n, Ids)
    BY <1>0 DEF Injection, IsInjective
  <2> QED
    BY <1>0, <2>1, FS_Injection
<1>4. \A p \in Ids : \E k \in 1..n : l[k] = p
  BY <1>3 DEF Surjection
<1>5. \A p \in Ids : at(p) \in 1..n /\ l[at(p)] = p
  BY <1>0, <1>4
<1>6. \A k \in 1..n : l[k] \in Ids /\ at(l[k]) = k
  BY <1>0, <1>5
<1> HIDE DEF at
<1>7. /\ \A k \in 1..n : w[k] \in Nat
      /\ \A j, k \in 1..n : j < k => w[j] + Bt(l[j]) <= w[k]
  BY <1>0, <1>1, WaitsRise
<1>8. \A k \in 1..n : FindWaitingTime(l)[l[k]] = w[k]
  BY <1>2, <1>6
<1> QED
  BY <1>2, <1>4, <1>5, <1>7, <1>8 DEF n

-----------------------------------------------------------------------------
(* What holds in every state. *)
Sane == SchedInv /\ RRIsFair

LEMMA SaneFacts ==
  ASSUME Sane
  PROVE  /\ TypeOK /\ OneAtATime /\ ShortestRuns /\ RoundsKept /\ RRIsFair /\ FileOk
         /\ wt \in [Policies -> [Ids -> Int]] /\ rem_bt \in [Ids -> Int] /\ t \in Nat
BY DEF Sane, SchedInv, TypeOK, FileOk

LEMMA AfterIs ==
  /\ After("FCFS") <=> policy # "FCFS"
  /\ After("Priority") <=> policy \in {"RR", "done"}
  /\ After("RR") <=> policy = "done"
BY DEF After

(* The waiting times of FCFS and priority once they are found. *)
Separate(ws, before) ==
  \A p, o \in Ids : p # o =>
    /\ Bt(p) + ws[p] <= ws[o] \/ Bt(o) + ws[o] <= ws[p]
    /\ <<p, o>> \in before => Bt(p) + ws[p] <= ws[o]
Sooner == {po \in Ids \X Ids : po[1] < po[2]}
MoreUrgent == {po \in Ids \X Ids : file[po[1]].pri < file[po[2]].pri}

LEMMA OneAtATimeIs ==
  OneAtATime <=> /\ policy # "FCFS" => Separate(wt["FCFS"], Sooner)
                 /\ policy \in {"RR", "done"} => Separate(wt["Priority"], MoreUrgent)
<1>1. "FCFS" # "Priority"
  OBVIOUS
<1>2. (After("FCFS") =>
         \A p, o \in Ids : p # o =>
           /\ Tat("FCFS", p) <= wt["FCFS"][o] \/ Tat("FCFS", o) <= wt["FCFS"][p]
           /\ p < o => Tat("FCFS", p) <= wt["FCFS"][o])
      <=> (policy # "FCFS" => Separate(wt["FCFS"], Sooner))
  BY AfterIs DEF Separate, Sooner, Tat
<1>3. (After("Priority") =>
         \A p, o \in Ids : p # o =>
           /\ Tat("Priority", p) <= wt["Priority"][o] \/ Tat("Priority", o) <= wt["Priority"][p]
           /\ file[p].pri < file[o].pri => Tat("Priority", p) <= wt["Priority"][o])
      <=> (policy \in {"RR", "done"} => Separate(wt["Priority"], MoreUrgent))
  BY AfterIs DEF Separate, MoreUrgent, Tat
<1> QED
  BY <1>1, <1>2, <1>3 DEF OneAtATime

(* A step that leaves those waiting times alone. *)
LEMMA OneAtATimeStays ==
  ASSUME OneAtATime, UNCHANGED file,
         wt'["FCFS"] = wt["FCFS"] /\ wt'["Priority"] = wt["Priority"],
         policy # "FCFS", policy \in {"RR", "done"} \/ policy' \notin {"RR", "done"}
  PROVE  OneAtATime'
<1>1. Separate(wt["FCFS"], Sooner)' <=> Separate(wt["FCFS"], Sooner)
  BY DEF Separate, Sooner, Ids, Bt
<1>2. Separate(wt["Priority"], MoreUrgent)' <=> Separate(wt["Priority"], MoreUrgent)
  BY DEF Separate, MoreUrgent, Ids, Bt
<1>3. (OneAtATime <=> /\ policy # "FCFS" => Separate(wt["FCFS"], Sooner)
                      /\ policy \in {"RR", "done"} => Separate(wt["Priority"], MoreUrgent))'
  BY OneAtATimeIs, PTL
<1> QED
  BY <1>1, <1>2, <1>3, OneAtATimeIs

LEMMA IntMaxIs == INT_MAX \in Nat /\ INT_MAX > 0
BY SMT DEF INT_MAX

(* The variables as a policy finds them. *)
Fresh == /\ rem_bt = [p \in Ids |-> Bt(p)] /\ t = 0
         /\ completed = 0 /\ min_bt = INT_MAX /\ shortest = 1 /\ is_found = FALSE
         /\ i = 1 /\ idle = TRUE

LEMMA FreshIsRight ==
  ASSUME FileOk, Fresh, wt \in [Policies -> [Ids -> Int]], policy \in Policies \cup {"done"}
  PROVE  TypeOK /\ ShortestRuns /\ RoundsKept
<1>0. /\ \A p \in Ids : Bt(p) \in Nat \ {0} /\ rem_bt[p] = Bt(p)
      /\ Ids = 1..Len(file) /\ Len(file) \in Nat /\ Len(file) >= 1 /\ IsFiniteSet(Ids)
  BY FileFacts DEF Fresh
<1>1. TypeOK
  <2>1. rem_bt \in [Ids -> Nat] /\ rem_bt \in [Ids -> Int]
    BY <1>0 DEF Fresh
  <2>2. /\ t \in Nat /\ completed \in 0..Len(file) /\ min_bt \in Int /\ shortest \in Ids
        /\ is_found \in BOOLEAN /\ i \in 1..Len(file)+1 /\ idle \in BOOLEAN
    <3>1. 1 \in 1..Len(file)+1 /\ 1 \in Ids /\ 0 \in 0..Len(file) /\ INT_MAX \in Int
      BY <1>0, IntMaxIs
    <3> QED
      BY <3>1 DEF Fresh
  <2> QED
    BY <2>1, <2>2 DEF TypeOK, FileOk
<1>2. ShortestRuns
  <2>1. {p \in Ids : rem_bt[p] <= 0} = {}
    BY <1>0
  <2>2. completed = Cardinality({p \in Ids : rem_bt[p] <= 0})
    BY <2>1, FS_EmptySet DEF Fresh
  <2> QED
    BY <1>0, <2>2 DEF ShortestRuns, Fresh
<1>3. RoundsKept
  <2>1. Work \in [Ids -> Int] /\ \A p \in Ids : Work[p] = 0
    BY <1>0 DEF Work
  <2>2. t = SumFunction(Work)
    BY <1>0, <2>1, SumOfZeros DEF Fresh
  <2>3. 0 \in 0..t /\ \A p \in Ids : LET had == quantum * (IF p < i THEN 0 + 1 ELSE 0)
                                     IN rem_bt[p] = IF had < Bt(p) THEN Bt(p) - had ELSE 0
    <3>1. ASSUME NEW p \in Ids PROVE ~(p < i)
      BY <1>0 DEF Fresh
    <3>2. quantum * 0 = 0
      BY SchedAssumption DEF SchedAssumption
    <3> QED
      BY <1>0, <3>1, <3>2 DEF Fresh
  <2>4. \A p \in Ids : rem_bt[p] # 0
    BY <1>0
  <2>5. 1 \in Ids /\ 1..i-1 = {} /\ idle
    BY <1>0 DEF Fresh
  <2> QED
    BY <2>2, <2>3, <2>4, <2>5 DEF RoundsKept
<1> QED
  BY <1>1, <1>2, <1>3

LEMMA GoneOn ==
  ASSUME FileOk, NEW next \in Policies \cup {"done"}, GoOn(next), wt' \in [Policies -> [Ids -> Int]]
  PROVE  TypeOK' /\ ShortestRuns' /\ RoundsKept' /\ (next # "done" => RRIsFair')
<1>1. FileOk' /\ Fresh' /\ wt' \in [Policies -> [Ids' -> Int]] /\ policy' \in Policies \cup {"done"}
  BY DEF GoOn, FileOk, Fresh, Ids, Bt
<1>2. (FileOk /\ Fresh /\ wt \in [Policies -> [Ids -> Int]] /\ policy \in Policies \cup {"done"}
         => TypeOK /\ ShortestRuns /\ RoundsKept)'
  BY FreshIsRight, PTL
<1>3. policy' = next
  BY DEF GoOn
<1> QED
  BY <1>1, <1>2, <1>3 DEF RRIsFair, After

LEMMA SaneInit == Init => Sane
<1> SUFFICES ASSUME Init PROVE Sane
  OBVIOUS
<1>1. FileOk
  <2>1. PICK n \in 1..MaxJobs : file \in [1..n -> Jobs]
    BY DEF Init
  <2>2. n \in Nat /\ n >= 1
    BY <2>1, SchedAssumption DEF SchedAssumption
  <2> QED
    BY <2>1, <2>2 DEF FileOk, Ids
<1>2. Fresh /\ policy = "FCFS" /\ wt \in [Policies -> [Ids -> Int]]
  BY DEF Init, Fresh
<1>3. TypeOK /\ ShortestRuns /\ RoundsKept
  BY <1>1, <1>2, FreshIsRight DEF Policies
<1>4. OneAtATime
  BY <1>2, OneAtATimeIs
<1>5. RRIsFair
  BY <1>2 DEF RRIsFair, After
<1> QED
  BY <1>3, <1>4, <1>5 DEF Sane, SchedInv

-----------------------------------------------------------------------------
LEMMA FCFSKeeps == ASSUME Sane, FCFS PROVE Sane'
<1> DEFINE l == [k \in Ids |-> k]
           ws == FindWaitingTime(l)
<1>0. FileOk /\ wt \in [Policies -> [Ids -> Int]] /\ policy = "FCFS" /\ OneAtATime
  BY SaneFacts DEF FCFS
<1>1. /\ ws \in [Ids -> Nat] /\ Ids = 1..Len(file) /\ Ids \subseteq Nat
      /\ \A j, k \in Ids : j < k => ws[j] + Bt(j) <= ws[k]
      /\ \A p \in Ids : Bt(p) \in Nat /\ ws[p] \in Nat
  BY <1>0, FileFacts, IdentityIsOrder, OneBehindTheOther
<1>2. wt' = [wt EXCEPT !["FCFS"] = ws] /\ GoOn("SJF")
  BY DEF FCFS
<1> HIDE DEF l, ws
<1>3. wt' \in [Policies -> [Ids -> Int]] /\ wt'["FCFS"] = ws
  BY <1>0, <1>1, <1>2 DEF Policies
<1>4. TypeOK' /\ ShortestRuns' /\ RoundsKept' /\ RRIsFair'
  BY <1>0, <1>2, <1>3, GoneOn DEF Policies
<1>5. OneAtATime'
  <2>1. \A p, o \in Ids : p # o => p < o \/ o < p
    BY <1>1
  <2>2. Separate(ws, Sooner)
    BY <1>1, <2>1 DEF Separate, Sooner
  <2>3. policy' = "SJF" /\ UNCHANGED file
    BY <1>2 DEF GoOn
  <2>4. Separate(wt["FCFS"], Sooner)'
    BY <1>3, <2>2, <2>3 DEF Separate, Sooner, Ids, Bt
  <2>5. (OneAtATime <=> /\ policy # "FCFS" => Separate(wt["FCFS"], Sooner)
                        /\ policy \in {"RR", "done"} => Separate(wt["Priority"], MoreUrgent))'
    BY OneAtATimeIs, PTL
  <2> QED
    BY <2>3, <2>4, <2>5
<1> QED
  BY <1>4, <1>5 DEF Sane, SchedInv

(* In a list sorted step by step later processes are no more urgent. *)
LEMMA SortedAllAlong ==
  ASSUME FileOk, NEW l \in Orders, \A k \in 1..Len(l)-1 : file[l[k]].pri <= file[l[k + 1]].pri
  PROVE  \A j, k \in 1..Len(file) : j <= k => file[l[j]].pri <= file[l[k]].pri
<1> DEFINE n == Len(file)
<1>0. n \in Nat /\ l \in [1..n -> Ids] /\ \A k \in 1..n : file[l[k]].pri \in Int
  BY FileFacts DEF Orders
<1>1. Len(l) = n
  BY <1>0
<1>2. \A k \in 1..n-1 : file[l[k]].pri <= file[l[k + 1]].pri
  BY <1>1
<1> HIDE DEF n
<1> DEFINE G == {k \in Nat : k \in 1..n => \A j \in 1..k : file[l[j]].pri <= file[l[k]].pri}
<1>3. 0 \in G
  OBVIOUS
<1>4. ASSUME NEW m \in Nat, m \in G PROVE m + 1 \in G
  <2> SUFFICES ASSUME m + 1 \in 1..n, NEW j \in 1..m + 1
               PROVE  file[l[j]].pri <= file[l[m + 1]].pri
    OBVIOUS
  <2>1. CASE j = m + 1
    BY <1>0, <2>1
  <2>2. CASE j # m + 1
    <3>1. j \in 1..m /\ m \in 1..n /\ m \in 1..n-1 /\ j \in 1..n
      BY <1>0, <2>2
    <3>2. file[l[j]].pri <= file[l[m]].pri
      BY <1>4, <3>1
    <3>3. file[l[m]].pri <= file[l[m + 1]].pri
      BY <1>2, <3>1
    <3> QED
      BY <1>0, <3>1, <3>2, <3>3
  <2> QED
    BY <2>1, <2>2
<1> HIDE DEF G
<1>5. \A k \in Nat : k \in G
  BY <1>3, <1>4, AllNaturals
<1> QED
  BY <1>0, <1>5 DEF G, n

LEMMA PriorityKeeps == ASSUME Sane, Priority PROVE Sane'
<1>0. FileOk /\ wt \in [Policies -> [Ids -> Int]] /\ policy = "Priority" /\ OneAtATime
  BY SaneFacts DEF Priority
<1>1. PICK l \in SetToSeqs(Ids) :
        /\ \A k \in 1..Len(l)-1 : file[l[k]].pri <= file[l[k + 1]].pri
        /\ wt' = [wt EXCEPT !["Priority"] = FindWaitingTime(l)]
  BY DEF Priority
<1> DEFINE ws == FindWaitingTime(l)
           n == Len(file)
<1>2. l \in Orders /\ n \in Nat
  BY <1>0, OrdersAre, FileFacts
<1>3. /\ ws \in [Ids -> Nat]
      /\ \A p \in Ids : \E k \in 1..n : l[k] = p
      /\ \A j, k \in 1..n : j < k => ws[l[j]] + Bt(l[j]) <= ws[l[k]]
  BY <1>0, <1>2, OneBehindTheOther
<1>4. \A j, k \in 1..n : j <= k => file[l[j]].pri <= file[l[k]].pri
  BY <1>0, <1>1, <1>2, SortedAllAlong
<1>5. \A p \in Ids : Bt(p) \in Nat /\ file[p].pri \in Int
  BY <1>0, FileFacts
<1>6. Separate(ws, MoreUrgent)
  <2> SUFFICES ASSUME NEW p \in Ids, NEW o \in Ids, p # o
               PROVE  /\ Bt(p) + ws[p] <= ws[o] \/ Bt(o) + ws[o] <= ws[p]
                      /\ file[p].pri < file[o].pri => Bt(p) + ws[p] <= ws[o]
    BY DEF Separate, MoreUrgent
  <2>1. PICK j \in 1..n : l[j] = p
    BY <1>3
  <2>2. PICK k \in 1..n : l[k] = o
    BY <1>3
  <2> HIDE DEF ws, n
  <2>3. j < k \/ k < j
    BY <1>2, <2>1, <2>2
  <2>4. ws[p] \in Nat /\ ws[o] \in Nat
    BY <1>3
  <2>5. j < k => ws[p] + Bt(p) <= ws[o]
    BY <1>3, <2>1, <2>2
  <2>6. k < j => ws[o] + Bt(o) <= ws[p] /\ file[o].pri <= file[p].pri
    <3>1. k < j => k <= j
      BY <1>2
    <3> QED
      BY <1>3, <1>4, <2>1, <2>2, <3>1
  <2> QED
    BY <1>5, <2>3, <2>4, <2>5, <2>6
<1> HIDE DEF ws, n
<1>7. wt' = [wt EXCEPT !["Priority"] = ws] /\ GoOn("RR")
  BY <1>1 DEF Priority, ws
<1>8. wt' \in [Policies -> [Ids -> Int]] /\ wt'["Priority"] = ws /\ wt'["FCFS"] = wt["FCFS"]
  BY <1>0, <1>3, <1>7 DEF Policies
<1>9. TypeOK' /\ ShortestRuns' /\ RoundsKept' /\ RRIsFair'
  BY <1>0, <1>7, <1>8, GoneOn DEF Policies
<1>10. OneAtATime'
  <2>1. policy' = "RR" /\ UNCHANGED file
    BY <1>7 DEF GoOn
  <2>2. Separate(wt["Priority"], MoreUrgent)'
    BY <1>6, <1>8, <2>1 DEF Separate, MoreUrgent, Ids, Bt
  <2>3. Separate(wt["FCFS"], Sooner)'
    <3>1. Separate(wt["FCFS"], Sooner)
      BY <1>0, OneAtATimeIs
    <3> QED
      BY <1>8, <2>1, <3>1 DEF Separate, Sooner, Ids, Bt
  <2>4. (OneAtATime <=> /\ policy # "FCFS" => Separate(wt["FCFS"], Sooner)
                        /\ policy \in {"RR", "done"} => Separate(wt["Priority"], MoreUrgent))'
    BY OneAtATimeIs, PTL
  <2> QED
    BY <2>2, <2>3, <2>4
<1> QED
  BY <1>9, <1>10 DEF Sane, SchedInv

-----------------------------------------------------------------------------
(* A turn of SJF touches no other policy's waiting times. *)
LEMMA SjfTurn ==
  ASSUME Sane, policy = "SJF", UNCHANGED <<file, policy>>,
         wt'["FCFS"] = wt["FCFS"] /\ wt'["Priority"] = wt["Priority"], TypeOK', ShortestRuns'
  PROVE  Sane'
<1>1. OneAtATime'
  BY SaneFacts, OneAtATimeStays
<1>2. RoundsKept'
  BY DEF RoundsKept
<1>3. RRIsFair'
  BY DEF RRIsFair, After
<1> QED
  BY <1>1, <1>2, <1>3 DEF Sane, SchedInv

LEMMA WaitForArrivalKeeps == ASSUME Sane, WaitForArrival PROVE Sane'
<1>1. /\ policy = "SJF" /\ ~is_found /\ t' = t + 1
      /\ UNCHANGED <<file, policy, wt, rem_bt, completed, min_bt, shortest, is_found, i, idle>>
  BY DEF WaitForArrival, sjf, rr
<1>2. TypeOK'
  BY <1>1, SaneFacts DEF TypeOK, Ids
<1>3. ShortestRuns'
  BY <1>1, SaneFacts DEF ShortestRuns, Ids, Bt
<1> QED
  BY <1>1, <1>2, <1>3, SjfTurn

(* The process of a turn: nobody else has run too long, and of those that have  *)
(* arrived nobody has less left.                                                *)
Chosen(f) ==
  /\ f \in Ids
  /\ \A p \in Ids : rem_bt[p] < 0 => p = f
  /\ rem_bt[f] > 1 => \A p \in Ids : file[p].art <= t /\ rem_bt[p] > 0 => rem_bt[f] <= rem_bt[p]

LEMMA FoundIsChosen ==
  ASSUME Sane, policy = "SJF", is_found \/ Shorter # {}
  PROVE  Chosen(Found)
<1>0. /\ Ids \subseteq Nat /\ shortest \in Ids
      /\ min_bt \in Int /\ \A p \in Ids : rem_bt[p] \in Int /\ Bt(p) > 0
  <2>1. FileOk /\ TypeOK /\ rem_bt \in [Ids -> Int]
    BY SaneFacts
  <2>2. shortest \in Ids /\ min_bt \in Int
    BY <2>1 DEF TypeOK
  <2>3. \A p \in Ids : Bt(p) \in Nat \ {0}
    BY <2>1, FileFacts
  <2>4. Ids \subseteq Nat
    BY <2>1, FileFacts
  <2>5. \A p \in Ids : Bt(p) > 0
    BY <2>3
  <2> QED
    BY <2>1, <2>2, <2>4, <2>5
<1>1. /\ \A p \in Ids : rem_bt[p] < 0 => p = shortest
      /\ ~is_found => \A p \in Ids : rem_bt[p] = Bt(p)
      /\ is_found => min_bt = IF rem_bt[shortest] = 0 THEN INT_MAX ELSE rem_bt[shortest]
  BY SaneFacts DEF ShortestRuns
<1>2. CASE Shorter # {}
  <2>1. Shorter \subseteq Ids /\ \A p \in Shorter : rem_bt[p] < min_bt /\ rem_bt[p] > 0
    BY DEF Shorter
  <2>2. PICK n \in {rem_bt[p] : p \in Shorter} : \A m \in {rem_bt[p] : p \in Shorter} : n <= m
    <3>1. {rem_bt[p] : p \in Shorter} # {}
      BY <1>2
    <3>2. \A p \in Shorter : rem_bt[p] \in Nat
      BY <1>0, <2>1
    <3>3. {rem_bt[p] : p \in Shorter} \in SUBSET Nat
      BY <3>2
    <3> QED
      BY <3>1, <3>3, LeastNatural
  <2>3. PICK f \in {p \in Shorter : rem_bt[p] = n} : \A q \in {p \in Shorter : rem_bt[p] = n} : f <= q
    <3>1. {p \in Shorter : rem_bt[p] = n} \in SUBSET Nat /\ {p \in Shorter : rem_bt[p] = n} # {}
      BY <1>0, <2>1, <2>2
    <3> QED
      BY <3>1, LeastNatural
  <2>4. \A q \in Shorter : rem_bt[f] < rem_bt[q] \/ (rem_bt[f] = rem_bt[q] /\ f <= q)
    <3>1. \A q \in Shorter : n <= rem_bt[q] /\ rem_bt[q] \in Int
      BY <1>0, <2>1, <2>2
    <3> QED
      BY <2>3, <3>1
  <2>5. /\ Found \in Shorter
        /\ \A q \in Shorter : \/ rem_bt[Found] < rem_bt[q]
                              \/ rem_bt[Found] = rem_bt[q] /\ Found <= q
    <3>1. f \in Shorter
      BY <2>3
    <3>2. Found = CHOOSE p \in Shorter : \A q \in Shorter : \/ rem_bt[p] < rem_bt[q]
                                                            \/ rem_bt[p] = rem_bt[q] /\ p <= q
      BY <1>2, Zenon DEF Found
    <3> QED
      BY <2>4, <3>1, <3>2, Zenon
  <2>6. ASSUME NEW p \in Ids, rem_bt[p] < 0 PROVE FALSE
    <3>1. p = shortest /\ is_found /\ min_bt = rem_bt[p]
      BY <1>0, <1>1, <2>6
    <3>2. rem_bt[Found] < rem_bt[p] /\ rem_bt[Found] > 0 /\ rem_bt[Found] \in Int
      BY <1>0, <2>1, <2>5, <3>1
    <3> QED
      BY <1>0, <2>6, <3>2
  <2>7. ASSUME NEW p \in Ids, file[p].art <= t, rem_bt[p] > 0 PROVE rem_bt[Found] <= rem_bt[p]
    <3>0. rem_bt[Found] \in Int /\ rem_bt[p] \in Int /\ rem_bt[Found] < min_bt
      BY <1>0, <2>1, <2>5
    <3>1. CASE p \in Shorter
      BY <2>5, <3>0, <3>1
    <3>2. CASE p \notin Shorter
      <4>1. ~(rem_bt[p] < min_bt)
        BY <2>7, <3>2 DEF Shorter
      <4> QED
        BY <1>0, <3>0, <4>1
    <3> QED
      BY <3>1, <3>2
  <2> QED
    BY <2>1, <2>5, <2>6, <2>7 DEF Chosen
<1>3. CASE Shorter = {}
  <2>1. Found = shortest /\ is_found
    BY <1>3 DEF Found
  <2>2. ASSUME rem_bt[shortest] > 1, NEW p \in Ids, file[p].art <= t, rem_bt[p] > 0
        PROVE  rem_bt[shortest] <= rem_bt[p]
    <3>1. min_bt = rem_bt[shortest]
      BY <1>0, <1>1, <2>1, <2>2
    <3>2. ~(rem_bt[p] < min_bt)
      BY <1>3, <2>2 DEF Shorter
    <3> QED
      BY <1>0, <3>1, <3>2
  <2> QED
    BY <1>0, <1>1, <2>1, <2>2 DEF Chosen
<1> QED
  BY <1>2, <1>3

LEMMA MaxOfTwo == ASSUME NEW n \in Int PROVE Max({0, n}) \in Int
<1>1. \E x \in {0, n} : \A y \in {0, n} : x >= y
  OBVIOUS
<1>2. Max({0, n}) \in {0, n}
  BY <1>1, Zenon DEF Max
<1> QED
  BY <1>2

LEMMA RunShortestKeeps == ASSUME Sane, RunShortest PROVE Sane'
<1> DEFINE f == Found
           left == rem_bt[f] - 1
           done == {p \in Ids : rem_bt[p] <= 0}
<1>0. /\ policy = "SJF" /\ completed # Len(file) /\ (is_found \/ Shorter # {})
      /\ is_found' = TRUE /\ shortest' = f /\ t' = t + 1
      /\ rem_bt' = [rem_bt EXCEPT ![f] = @ - 1]
      /\ min_bt' = IF rem_bt'[f] = 0 THEN INT_MAX ELSE rem_bt'[f]
      /\ IF rem_bt'[f] = 0
         THEN completed' = completed + 1 /\ wt' = [wt EXCEPT !["SJF"][f] = Max({0, t + 1 - Bt(f) - file[f].art})]
         ELSE UNCHANGED <<completed, wt>>
      /\ UNCHANGED <<file, policy, i, idle>>
  BY Zenon DEF RunShortest, rr
<1>1. /\ f \in Ids
      /\ \A p \in Ids : rem_bt[p] < 0 => p = f
      /\ rem_bt[f] > 1 => \A p \in Ids : file[p].art <= t /\ rem_bt[p] > 0 => rem_bt[f] <= rem_bt[p]
  BY <1>0, FoundIsChosen DEF Chosen
<1> HIDE DEF f
<1>2. /\ rem_bt \in [Ids -> Int] /\ wt \in [Policies -> [Ids -> Int]] /\ t \in Nat
      /\ completed \in 0..Len(file) /\ Len(file) \in Nat /\ file \in Seq(Jobs)
      /\ i \in 1..Len(file)+1 /\ idle \in BOOLEAN /\ policy \in Policies \cup {"done"}
      /\ \A p \in Ids : Bt(p) \in Nat /\ file[p].art \in Nat
  BY SaneFacts, FileFacts DEF TypeOK
<1>3. completed = Cardinality(done) /\ \A p \in Ids : rem_bt[p] <= Bt(p)
  BY <1>0, SaneFacts DEF ShortestRuns
<1>4. /\ rem_bt' \in [Ids -> Int] /\ rem_bt'[f] = left
      /\ \A p \in Ids : p # f => rem_bt'[p] = rem_bt[p]
      /\ left \in Int /\ rem_bt[f] \in Int
  BY <1>0, <1>1, <1>2
<1> HIDE DEF left
<1>5. left = rem_bt[f] - 1
  BY DEF left
<1>6. wt' \in [Policies -> [Ids -> Int]] /\ wt'["FCFS"] = wt["FCFS"] /\ wt'["Priority"] = wt["Priority"]
  <2>1. Max({0, t + 1 - Bt(f) - file[f].art}) \in Int
    <3>1. t + 1 - Bt(f) - file[f].art \in Int
      BY <1>1, <1>2
    <3> QED
      BY <3>1, MaxOfTwo
  <2>2. CASE rem_bt'[f] = 0
    <3> DEFINE m == Max({0, t + 1 - Bt(f) - file[f].art})
    <3>1. wt' = [wt EXCEPT !["SJF"][f] = m] /\ m \in Int
      BY <1>0, <2>1, <2>2
    <3> HIDE DEF m
    <3> QED
      BY <1>1, <1>2, <3>1 DEF Policies
  <2>3. CASE rem_bt'[f] # 0
    BY <1>0, <1>2, <2>3
  <2> QED
    BY <2>2, <2>3
<1>7. min_bt' \in Int
  BY <1>0, <1>4, IntMaxIs
<1>8. completed' \in 0..Len(file)
  BY <1>0, <1>2
<1>9. Ids' = Ids /\ \A p \in Ids : Bt(p)' = Bt(p)
  BY <1>0 DEF Ids, Bt
<1>10. TypeOK'
  BY <1>0, <1>1, <1>2, <1>4, <1>6, <1>7, <1>8, <1>9 DEF TypeOK
<1>11. completed' = Cardinality({p \in Ids : rem_bt'[p] <= 0})
  <2>0. IsFiniteSet(done) /\ Cardinality(done) \in Nat
    <3>1. IsFiniteSet(Ids) /\ done \subseteq Ids
      BY SaneFacts, FileFacts
    <3> QED
      BY <3>1, FS_Subset, FS_CardinalityType
  <2>1. CASE left = 0
    <3>1. f \notin done /\ {p \in Ids : rem_bt'[p] <= 0} = done \cup {f}
      BY <1>1, <1>4, <1>5, <2>1
    <3>2. Cardinality(done \cup {f}) = Cardinality(done) + 1
      BY <2>0, <3>1, FS_AddElement
    <3> QED
      BY <1>0, <1>3, <1>4, <2>1, <3>1, <3>2
  <2>2. CASE left # 0
    <3>1. {p \in Ids : rem_bt'[p] <= 0} = done
      BY <1>1, <1>4, <1>5, <2>2
    <3> QED
      BY <1>0, <1>3, <1>4, <2>2, <3>1
  <2> QED
    BY <2>1, <2>2
<1>12. ASSUME left > 0, NEW p \in Ids, file[p].art < t + 1, rem_bt'[p] > 0
       PROVE  left <= rem_bt'[p]
  <2>1. CASE p = f
    BY <1>4, <2>1
  <2>2. CASE p # f
    <3>0. rem_bt'[p] = rem_bt[p] /\ rem_bt[p] \in Int /\ file[p].art \in Nat /\ t \in Nat
      BY <1>2, <1>4, <2>2
    <3>1. rem_bt[f] > 1 /\ file[p].art <= t /\ rem_bt[p] > 0 /\ rem_bt[p] \in Int
      <4>1. rem_bt[f] > 1
        BY <1>4, <1>5, <1>12
      <4>2. file[p].art <= t
        BY <1>12, <3>0
      <4> QED
        BY <1>12, <3>0, <4>1, <4>2
    <3>2. rem_bt[f] <= rem_bt[p]
      BY <1>1, <3>1
    <3> QED
      BY <1>4, <1>5, <2>2, <3>1, <3>2
  <2> QED
    BY <2>1, <2>2
<1>13. \A p \in Ids : rem_bt'[p] <= Bt(p) /\ (rem_bt'[p] < 0 => p = f)
  BY <1>1, <1>2, <1>3, <1>4, <1>5
<1>14. ShortestRuns'
  BY <1>0, <1>4, <1>9, <1>11, <1>12, <1>13 DEF ShortestRuns
<1> QED
  BY <1>0, <1>6, <1>10, <1>14, SjfTurn

LEMMA SJFDoneKeeps == ASSUME Sane, SJFDone PROVE Sane'
<1>1. policy = "SJF" /\ GoOn("Priority") /\ UNCHANGED wt
  BY DEF SJFDone
<1>2. policy' = "Priority" /\ UNCHANGED file
  BY <1>1 DEF GoOn
<1>3. TypeOK' /\ ShortestRuns' /\ RoundsKept' /\ RRIsFair'
  <2>1. wt' \in [Policies -> [Ids -> Int]] /\ FileOk
    BY <1>1, SaneFacts
  <2> QED
    BY <1>1, <2>1, GoneOn DEF Policies
<1>4. OneAtATime'
  BY <1>1, <1>2, SaneFacts, OneAtATimeStays
<1> QED
  BY <1>3, <1>4 DEF Sane, SchedInv

-----------------------------------------------------------------------------
(* What a process has run for when r rounds are over, if it wanted that much. *)
Had(r, p) == quantum * (IF p < i THEN r + 1 ELSE r)
InRound(r) == /\ r \in 0..t /\ (idle \/ r < t)
              /\ \A p \in Ids : rem_bt[p] = IF Had(r, p) < Bt(p) THEN Bt(p) - Had(r, p) ELSE 0
Finished == /\ \A p \in Ids : rem_bt[p] = 0 => wt["RR"][p] \in 0..MostWait(p) /\ Tat("RR", p) <= t
            /\ (\A p \in Ids : rem_bt[p] = 0) => \E p \in Ids : Tat("RR", p) = t

LEMMA RoundsAre ==
  RoundsKept <=> (policy = "RR" => /\ t = SumFunction(Work)
                                   /\ \E r \in 0..t : InRound(r)
                                   /\ idle => \A p \in 1..i-1 : rem_bt[p] = 0
                                   /\ Finished)
BY DEF RoundsKept, InRound, Had, Finished

LEMMA RoundFacts ==
  ASSUME Sane, policy = "RR"
  PROVE  /\ rem_bt \in [Ids -> Nat] /\ wt \in [Policies -> [Ids -> Int]] /\ t \in Nat
         /\ i \in 1..Len(file)+1 /\ idle \in BOOLEAN /\ FileOk
         /\ Len(file) \in Nat /\ Ids = 1..Len(file) /\ IsFiniteSet(Ids)
         /\ \A p \in Ids : Bt(p) \in Nat \ {0}
         /\ quantum \in Nat /\ quantum > 0
         /\ t = SumFunction(Work)
         /\ \E r \in 0..t : InRound(r)
         /\ idle => \A p \in 1..i-1 : rem_bt[p] = 0
         /\ Finished
<1>1. FileOk /\ TypeOK /\ RoundsKept
  BY SaneFacts
<1>2. quantum \in Nat /\ quantum > 0
  BY SchedAssumption DEF SchedAssumption
<1>3. rem_bt \in [Ids -> Nat]
  BY <1>1 DEF TypeOK
<1>4. /\ wt \in [Policies -> [Ids -> Int]] /\ t \in Nat
      /\ i \in 1..Len(file)+1 /\ idle \in BOOLEAN
  BY <1>1 DEF TypeOK
<1>5. /\ Len(file) \in Nat /\ Ids = 1..Len(file) /\ IsFiniteSet(Ids)
      /\ \A p \in Ids : Bt(p) \in Nat \ {0}
  BY <1>1, FileFacts
<1> QED
  BY <1>1, <1>2, <1>3, <1>4, <1>5, RoundsAre

(* A turn of round robin touches no other policy's waiting times. *)
LEMMA RoundTurn ==
  ASSUME Sane, policy = "RR", UNCHANGED <<file, policy>>,
         UNCHANGED <<completed, min_bt, shortest, is_found>>,
         wt' \in [Policies -> [Ids -> Int]], wt'["FCFS"] = wt["FCFS"] /\ wt'["Priority"] = wt["Priority"],
         rem_bt' \in [Ids -> Nat], t' \in Nat, i' \in 1..Len(file)+1, idle' \in BOOLEAN,
         t' = SumFunction(Work'), \E r \in 0..t' : InRound(r)',
         idle' => \A p \in 1..i'-1 : rem_bt'[p] = 0, Finished'
  PROVE  Sane'
<1>1. OneAtATime'
  BY SaneFacts, OneAtATimeStays
<1>2. RoundsKept'
  <2>1. (RoundsKept <=> (policy = "RR" => /\ t = SumFunction(Work)
                                          /\ \E r \in 0..t : InRound(r)
                                          /\ idle => \A p \in 1..i-1 : rem_bt[p] = 0
                                          /\ Finished))'
    BY RoundsAre, PTL
  <2> QED
    BY <2>1
<1>3. RRIsFair' /\ ShortestRuns'
  BY DEF RRIsFair, After, ShortestRuns
<1>4. TypeOK'
  <2>1. TypeOK /\ rem_bt' \in [Ids -> Int]
    BY SaneFacts
  <2> QED
    BY <2>1 DEF TypeOK, Ids
<1> QED
  BY <1>1, <1>2, <1>3, <1>4 DEF Sane, SchedInv

(* The process looked at has r slices behind it; after a look it has one more. *)
LEMMA HadIs ==
  ASSUME Sane, policy = "RR", i <= Len(file), NEW r \in Nat
  PROVE  /\ i \in Ids /\ quantum * r \in Nat /\ quantum * (r + 1) = quantum * r + quantum
         /\ Had(r, i) = quantum * r
         /\ \A p \in Ids : Had(r, p) \in Nat /\ Had(r, p) <= quantum * r + quantum
         /\ i' = i + 1 => \A p \in Ids : Had(r, p)' = IF p = i THEN quantum * r + quantum ELSE Had(r, p)
<1>0. /\ i \in 1..Len(file)+1 /\ Len(file) \in Nat /\ Ids = 1..Len(file)
      /\ quantum \in Nat /\ quantum > 0
  BY RoundFacts
<1>1. quantum * r \in Nat /\ quantum * (r + 1) = quantum * r + quantum
  BY <1>0
<1> DEFINE qr == quantum * r
<1>2. \A p \in Ids : Had(r, p) = IF p < i THEN qr + quantum ELSE qr
  BY <1>0, <1>1 DEF Had
<1>3. \A p \in Ids : Had(r, p)' = IF p < i' THEN qr + quantum ELSE qr
  BY <1>0, <1>1 DEF Had
<1>4. qr \in Nat
  BY <1>1
<1>5. i \in Ids
  BY <1>0
<1> HIDE DEF qr
<1>6. \A p \in Ids : Had(r, p) \in Nat /\ Had(r, p) <= qr + quantum
  BY <1>0, <1>2, <1>4
<1>7. i' = i + 1 => \A p \in Ids : Had(r, p)' = IF p = i THEN qr + quantum ELSE Had(r, p)
  BY <1>0, <1>2, <1>3
<1>8. Had(r, i) = qr
  BY <1>0, <1>2, <1>5
<1> QED
  BY <1>1, <1>5, <1>6, <1>7, <1>8 DEF qr

LEMMA SkipKeeps == ASSUME Sane, Skip PROVE Sane'
<1>0. /\ policy = "RR" /\ i <= Len(file) /\ rem_bt[i] <= 0 /\ i' = i + 1
      /\ UNCHANGED <<file, policy, wt, rem_bt, t, completed, min_bt, shortest, is_found, idle>>
  BY DEF Skip, NextInRound, sjf
<1>1. /\ rem_bt \in [Ids -> Nat] /\ wt \in [Policies -> [Ids -> Int]] /\ t \in Nat
      /\ i \in 1..Len(file)+1 /\ idle \in BOOLEAN /\ Len(file) \in Nat /\ Ids = 1..Len(file)
      /\ \A p \in Ids : Bt(p) \in Nat \ {0}
      /\ quantum \in Nat /\ quantum > 0
      /\ t = SumFunction(Work) /\ Finished
      /\ idle => \A p \in 1..i-1 : rem_bt[p] = 0
  BY <1>0, RoundFacts
<1>2. PICK r \in 0..t : InRound(r)
  BY <1>0, RoundFacts
<1>3. r \in Nat /\ i \in Ids /\ rem_bt[i] = 0
  BY <1>0, <1>1
<1>4. /\ quantum * r \in Nat /\ Had(r, i) = quantum * r
      /\ \A p \in Ids : Had(r, p)' = IF p = i THEN quantum * r + quantum ELSE Had(r, p)
  BY <1>0, <1>3, HadIs
<1>5. \A p \in Ids : rem_bt[p] = IF Had(r, p) < Bt(p) THEN Bt(p) - Had(r, p) ELSE 0
  BY <1>2 DEF InRound
<1>6. ~(quantum * r < Bt(i))
  BY <1>1, <1>3, <1>4, <1>5
<1>7. \A p \in Ids : rem_bt[p] = IF Had(r, p)' < Bt(p) THEN Bt(p) - Had(r, p)' ELSE 0
  BY <1>1, <1>3, <1>4, <1>5, <1>6
<1>8. InRound(r)'
  BY <1>0, <1>2, <1>7 DEF InRound, Ids, Bt
<1>9. idle' => \A p \in 1..i'-1 : rem_bt'[p] = 0
  <2>1. ASSUME idle, NEW p \in 1..i PROVE rem_bt[p] = 0
    BY <1>1, <1>3, <2>1
  <2>2. i' - 1 = i
    BY <1>0, <1>1
  <2> QED
    BY <1>0, <2>1, <2>2
<1>10. Work' = Work /\ Finished'
  BY <1>0, <1>1 DEF Work, Finished, MostWait, Tat, Ids, Bt
<1>11. i' \in 1..Len(file)+1
  BY <1>0, <1>1
<1> QED
  BY <1>0, <1>1, <1>8, <1>9, <1>10, <1>11, RoundTurn

(* A slice of d: the work done grows by it. *)
LEMMA WorkGrows ==
  ASSUME FileOk, UNCHANGED file, rem_bt \in [Ids -> Nat], t = SumFunction(Work),
         NEW p \in Ids, NEW d \in Nat, rem_bt' = [rem_bt EXCEPT ![p] = rem_bt[p] - d]
  PROVE  SumFunction(Work') = t + d
<1>0. IsFiniteSet(Ids) /\ \A x \in Ids : Bt(x) \in Nat
  BY FileFacts
<1>1. Work \in [Ids -> Int]
  BY <1>0 DEF Work
<1>2. Work' = [x \in Ids |-> Bt(x) - rem_bt'[x]]
  BY DEF Work, Ids, Bt
<1>3. \A x \in Ids : rem_bt'[x] = IF x = p THEN rem_bt[p] - d ELSE rem_bt[x]
  OBVIOUS
<1>4. \A x \in Ids : Work'[x] = IF x = p THEN Work[x] + d ELSE Work[x]
  <2>1. \A x \in Ids : Work[x] = Bt(x) - rem_bt[x] /\ rem_bt[x] \in Nat
    BY DEF Work
  <2> QED
    BY <1>0, <1>2, <1>3, <2>1
<1>5. Work' \in [Ids -> Int] /\ d \in Int
  BY <1>0, <1>2, <1>3
<1>6. Grown(Work, Work', p, d)
  BY <1>1, <1>4 DEF Grown
<1>7. SumFunction(Work') = SumFunction(Work) + d
  <2>1. \A f, g \in [Ids -> Int] : Grown(f, g, p, d) => SumFunction(g) = SumFunction(f) + d
    BY <1>0, <1>5, SumChanges
  <2> QED
    BY <1>1, <1>5, <1>6, <2>1, Zenon
<1> QED
  BY <1>7

LEMMA WholeSliceKeeps == ASSUME Sane, WholeSlice PROVE Sane'
<1>0. /\ policy = "RR" /\ i <= Len(file) /\ rem_bt[i] > quantum /\ i' = i + 1
      /\ t' = t + quantum /\ idle' = FALSE
      /\ UNCHANGED <<file, policy, wt, completed, min_bt, shortest, is_found>>
  BY DEF WholeSlice, NextInRound, sjf
<1>1. /\ rem_bt \in [Ids -> Nat] /\ wt \in [Policies -> [Ids -> Int]] /\ t \in Nat
      /\ i \in 1..Len(file)+1 /\ Len(file) \in Nat /\ Ids = 1..Len(file) /\ FileOk
      /\ \A p \in Ids : Bt(p) \in Nat \ {0}
      /\ quantum \in Nat /\ quantum > 0
      /\ t = SumFunction(Work) /\ Finished
  BY <1>0, RoundFacts
<1>2. PICK r \in 0..t : InRound(r)
  BY <1>0, RoundFacts
<1>3. r \in Nat /\ i \in Ids
  BY <1>0, <1>1
<1> PICK me \in Ids : me = i
  BY <1>3
<1>4. /\ quantum * r \in Nat /\ Had(r, me) = quantum * r
      /\ \A p \in Ids : Had(r, p) \in Nat
      /\ \A p \in Ids : Had(r, p)' = IF p = me THEN quantum * r + quantum ELSE Had(r, p)
  BY <1>0, <1>3, HadIs
<1>5. \A p \in Ids : rem_bt[p] = IF Had(r, p) < Bt(p) THEN Bt(p) - Had(r, p) ELSE 0
  BY <1>2 DEF InRound
<1>6. /\ rem_bt' \in [Ids -> Nat]
      /\ \A p \in Ids : rem_bt'[p] = IF p = me THEN rem_bt[me] - quantum ELSE rem_bt[p]
  <2>1. rem_bt' = [rem_bt EXCEPT ![me] = rem_bt[me] - quantum]
    BY DEF WholeSlice
  <2>2. rem_bt[me] - quantum \in Nat
    BY <1>0, <1>1
  <2> QED
    BY <1>1, <2>1, <2>2
<1>7. \A p \in Ids : rem_bt'[p] = IF Had(r, p)' < Bt(p) THEN Bt(p) - Had(r, p)' ELSE 0
  <2> DEFINE qr == quantum * r
  <2>1. rem_bt[me] = Bt(me) - qr /\ qr \in Nat /\ rem_bt[me] > quantum /\ Bt(me) \in Nat
    BY <1>0, <1>1, <1>3, <1>4, <1>5
  <2>2. Had(r, me)' = qr + quantum /\ rem_bt'[me] = rem_bt[me] - quantum
    BY <1>3, <1>4, <1>6
  <2> HIDE DEF qr
  <2>3. rem_bt'[me] = Bt(me) - Had(r, me)' /\ Had(r, me)' < Bt(me)
    BY <1>1, <2>1, <2>2
  <2>4. \A p \in Ids : p # me => rem_bt'[p] = rem_bt[p] /\ Had(r, p)' = Had(r, p)
    BY <1>4, <1>6
  <2> QED
    BY <1>5, <2>3, <2>4
<1>8. r \in 0..t' /\ r < t' /\ t' \in Nat
  BY <1>0, <1>1
<1>9. InRound(r)'
  BY <1>0, <1>7, <1>8 DEF InRound, Ids, Bt
<1>10. t' = SumFunction(Work')
  <2>1. rem_bt' = [rem_bt EXCEPT ![me] = rem_bt[me] - quantum]
    BY DEF WholeSlice
  <2> QED
    BY <1>0, <1>1, <2>1, WorkGrows
<1>11. rem_bt'[me] # 0 /\ \A p \in Ids : rem_bt'[p] = 0 => rem_bt[p] = 0
  <2>1. rem_bt[me] \in Nat /\ rem_bt[me] > quantum /\ quantum \in Nat
    BY <1>0, <1>1
  <2>2. rem_bt'[me] = rem_bt[me] - quantum /\ \A p \in Ids : p # me => rem_bt'[p] = rem_bt[p]
    BY <1>6
  <2>3. rem_bt'[me] # 0
    BY <2>1, <2>2
  <2> QED
    BY <2>2, <2>3
<1>12. Finished'
  <2>1. ASSUME NEW p \in Ids, rem_bt'[p] = 0
        PROVE  wt["RR"][p] \in 0..MostWait(p) /\ Bt(p) + wt["RR"][p] <= t'
    <3>1. wt["RR"][p] \in 0..MostWait(p) /\ Bt(p) + wt["RR"][p] <= t
      BY <1>1, <1>11, <2>1 DEF Finished, Tat
    <3>2. Bt(p) + wt["RR"][p] \in Int
      <4>1. wt["RR"] \in [Ids -> Int]
        BY <1>1 DEF Policies
      <4>2. wt["RR"][p] \in Int /\ Bt(p) \in Int
        BY <1>1, <4>1
      <4> QED
        BY <4>2
    <3>3. t' = t + quantum /\ t \in Nat /\ quantum \in Nat
      BY <1>0, <1>1
    <3>4. Bt(p) + wt["RR"][p] <= t'
      BY <3>1, <3>2, <3>3
    <3> QED
      BY <3>1, <3>4
  <2>2. wt' = wt /\ file' = file
    BY <1>0
  <2> QED
    BY <1>3, <1>11, <2>1, <2>2 DEF Finished, MostWait, Tat, Ids, Bt
<1>13. i' \in 1..Len(file)+1
  BY <1>0, <1>1
<1> QED
  BY <1>0, <1>1, <1>6, <1>8, <1>9, <1>10, <1>12, <1>13, RoundTurn

(* As many slices as a burst needs. *)
LEMMA SlicesNeeded ==
  ASSUME NEW q \in Nat, q > 0, NEW r \in Nat, NEW b \in Nat, b > q * r, b <= q * r + q
  PROVE  (b + q - 1) \div q = r + 1
<1> DEFINE m == b - q * r - 1
<1>1. q * (r + 1) = q * r + q /\ q * r \in Nat
  OBVIOUS
<1>2. m \in 0..q-1 /\ b + q - 1 = q * (r + 1) + m
  BY <1>1
<1> HIDE DEF m
<1>3. (q * (r + 1) + m) \div q = r + 1
  BY <1>2
<1> QED
  BY <1>2, <1>3

LEMMA LastSliceKeeps == ASSUME Sane, LastSlice PROVE Sane'
<1>0. /\ policy = "RR" /\ i <= Len(file) /\ rem_bt[i] \in 1..quantum /\ i' = i + 1
      /\ t' = t + rem_bt[i] /\ idle' = FALSE
      /\ UNCHANGED <<file, policy, completed, min_bt, shortest, is_found>>
  BY DEF LastSlice, NextInRound, sjf
<1>1. /\ rem_bt \in [Ids -> Nat] /\ wt \in [Policies -> [Ids -> Int]] /\ t \in Nat
      /\ i \in 1..Len(file)+1 /\ Len(file) \in Nat /\ Ids = 1..Len(file) /\ FileOk
      /\ \A p \in Ids : Bt(p) \in Nat \ {0}
      /\ quantum \in Nat /\ quantum > 0
      /\ t = SumFunction(Work) /\ Finished
  BY <1>0, RoundFacts
<1>2. PICK r \in 0..t : InRound(r)
  BY <1>0, RoundFacts
<1>3. r \in Nat /\ i \in Ids
  BY <1>0, <1>1
<1> PICK me \in Ids : me = i
  BY <1>3
<1> DEFINE qr == quantum * r
           left == rem_bt[me]
<1>4. /\ qr \in Nat /\ quantum * (r + 1) = qr + quantum /\ Had(r, me) = qr
      /\ \A p \in Ids : Had(r, p) \in Nat /\ Had(r, p) <= qr + quantum
      /\ \A p \in Ids : Had(r, p)' = IF p = me THEN qr + quantum ELSE Had(r, p)
  BY <1>0, <1>3, HadIs
<1>5. \A p \in Ids : rem_bt[p] = IF Had(r, p) < Bt(p) THEN Bt(p) - Had(r, p) ELSE 0
  BY <1>2 DEF InRound
<1>6. left \in Nat /\ left > 0 /\ left <= quantum /\ Bt(me) \in Nat /\ wt["RR"] \in [Ids -> Int]
  BY <1>0, <1>1 DEF Policies
<1> HIDE DEF qr, left
<1>7. Bt(me) = qr + left
  <2>1. left = IF qr < Bt(me) THEN Bt(me) - qr ELSE 0
    BY <1>4, <1>5 DEF left
  <2> QED
    BY <1>4, <1>6, <2>1
<1>8. t' = t + left /\ t' \in Nat /\ r \in 0..t' /\ r < t'
  <2>1. t' = t + left
    BY <1>0 DEF left
  <2> QED
    BY <1>1, <1>6, <2>1
<1>9. /\ rem_bt' \in [Ids -> Nat] /\ rem_bt'[me] = 0
      /\ \A p \in Ids : p # me => rem_bt'[p] = rem_bt[p]
  <2>1. rem_bt' = [rem_bt EXCEPT ![me] = 0]
    BY DEF LastSlice
  <2> QED
    BY <1>1, <2>1
<1>10. /\ wt' \in [Policies -> [Ids -> Int]] /\ wt'["FCFS"] = wt["FCFS"] /\ wt'["Priority"] = wt["Priority"]
       /\ wt'["RR"][me] = t' - Bt(me)
       /\ \A p \in Ids : p # me => wt'["RR"][p] = wt["RR"][p]
  <2>1. wt' = [wt EXCEPT !["RR"][me] = t' - Bt(me)]
    BY DEF LastSlice
  <2>2. t' - Bt(me) \in Int
    BY <1>6, <1>8
  <2> QED
    BY <1>1, <2>1, <2>2 DEF Policies
<1>11. InRound(r)'
  <2>1. \A p \in Ids : rem_bt'[p] = IF Had(r, p)' < Bt(p) THEN Bt(p) - Had(r, p)' ELSE 0
    <3>1. ~(qr + quantum < Bt(me)) /\ Had(r, me)' = qr + quantum
      BY <1>1, <1>4, <1>6, <1>7
    <3>2. \A p \in Ids : p # me => Had(r, p)' = Had(r, p)
      BY <1>4
    <3> QED
      BY <1>5, <1>9, <3>1, <3>2
  <2> QED
    BY <1>0, <1>8, <2>1 DEF InRound, Ids, Bt
<1>12. t' = SumFunction(Work')
  <2>1. rem_bt' = [rem_bt EXCEPT ![me] = rem_bt[me] - left]
    <3>1. rem_bt' = [rem_bt EXCEPT ![me] = 0]
      BY DEF LastSlice
    <3>2. rem_bt[me] - left = 0
      BY <1>6 DEF left
    <3> QED
      BY <3>1, <3>2
  <2> QED
    BY <1>0, <1>1, <1>6, <1>8, <2>1, WorkGrows
<1>13. t' - Bt(me) \in 0..MostWait(me)
  <2>0. IsFiniteSet(Ids) /\ Cardinality(Ids) = Len(file)
    BY <1>1, FileFacts
  <2>1. Work' = [p \in Ids |-> Bt(p) - rem_bt'[p]]
    BY <1>0 DEF Work, Ids, Bt
  <2>2. Work' \in [Ids -> Int] /\ Work'[me] = Bt(me)
    BY <1>1, <1>6, <1>9, <2>1
  <2>3. ASSUME NEW p \in Ids, p # me PROVE Work'[p] \in 0..(qr + quantum)
    <3>1. /\ rem_bt'[p] = IF Had(r, p) < Bt(p) THEN Bt(p) - Had(r, p) ELSE 0
          /\ Bt(p) \in Nat /\ Had(r, p) \in Nat /\ Had(r, p) <= qr + quantum
      BY <1>1, <1>4, <1>5, <1>9, <2>3
    <3>2. Work'[p] = Bt(p) - rem_bt'[p]
      BY <2>1
    <3> QED
      BY <1>1, <1>4, <3>1, <3>2
  <2>4. qr + quantum \in Nat
    BY <1>1, <1>4
  <2>5. SumFunction(Work') - Work'[me] \in 0..((qr + quantum) * (Cardinality(Ids) - 1))
    BY <2>0, <2>2, <2>3, <2>4, SumBounded, Zenon
  <2>6. (Bt(me) + quantum - 1) \div quantum = r + 1
    <3>1. Bt(me) \in Nat /\ Bt(me) > quantum * r /\ Bt(me) <= quantum * r + quantum
      <4>1. Bt(me) > qr /\ Bt(me) <= qr + quantum
        BY <1>1, <1>4, <1>6, <1>7
      <4> QED
        BY <1>6, <4>1 DEF qr
    <3>2. quantum \in Nat /\ quantum > 0 /\ r \in Nat
      BY <1>1, <1>3
    <3> QED
      BY <3>1, <3>2, SlicesNeeded, Zenon
  <2>7. (r + 1) * quantum = qr + quantum
    BY <1>1, <1>3, <1>4
  <2>8. MostWait(me) = (qr + quantum) * (Len(file) - 1)
    BY <2>6, <2>7 DEF MostWait
  <2> QED
    BY <1>12, <2>0, <2>2, <2>5, <2>8
<1>14. Finished'
  <2>1. ASSUME NEW p \in Ids, rem_bt'[p] = 0
        PROVE  wt'["RR"][p] \in 0..MostWait(p) /\ Bt(p) + wt'["RR"][p] <= t'
    <3>1. CASE p = me
      <4>1. Bt(me) + (t' - Bt(me)) = t' /\ t' <= t'
        BY <1>6, <1>8
      <4> QED
        BY <1>10, <1>13, <3>1, <4>1
    <3>2. CASE p # me
      <4>1. wt["RR"][p] \in 0..MostWait(p) /\ Bt(p) + wt["RR"][p] <= t
        BY <1>1, <1>9, <2>1, <3>2 DEF Finished, Tat
      <4>2. Bt(p) + wt["RR"][p] \in Int
        <5>1. wt["RR"][p] \in Int
          BY <1>6
        <5>2. Bt(p) \in Int
          BY <1>1
        <5> QED
          BY <5>1, <5>2
      <4>3. Bt(p) + wt["RR"][p] <= t'
        <5>1. t' = t + left /\ t \in Nat /\ left \in Nat
          BY <1>1, <1>6, <1>8
        <5> QED
          BY <4>1, <4>2, <5>1
      <4> QED
        BY <1>10, <3>2, <4>1, <4>3
    <3> QED
      BY <3>1, <3>2
  <2>2. Bt(me) + wt'["RR"][me] = t'
    BY <1>6, <1>8, <1>10
  <2> QED
    BY <1>0, <2>1, <2>2 DEF Finished, MostWait, Tat, Ids, Bt
<1>15. i' \in 1..Len(file)+1
  BY <1>0, <1>1
<1> QED
  BY <1>0, <1>8, <1>9, <1>10, <1>11, <1>12, <1>14, <1>15, RoundTurn

LEMMA NextRoundKeeps == ASSUME Sane, NextRound PROVE Sane'
<1>0. policy = "RR" /\ i > Len(file) /\ wt' = wt
  BY DEF NextRound
<1>1. /\ rem_bt \in [Ids -> Nat] /\ wt \in [Policies -> [Ids -> Int]] /\ t \in Nat
      /\ i \in 1..Len(file)+1 /\ Len(file) \in Nat /\ Ids = 1..Len(file) /\ FileOk
      /\ \A p \in Ids : Bt(p) \in Nat \ {0}
      /\ quantum \in Nat /\ quantum > 0
      /\ t = SumFunction(Work) /\ Finished
      /\ idle => \A p \in 1..i-1 : rem_bt[p] = 0
  BY <1>0, RoundFacts
<1>2. CASE idle
  <2>1. GoOn("done")
    BY <1>2 DEF NextRound
  <2>2. TypeOK' /\ ShortestRuns' /\ RoundsKept'
    BY <1>0, <1>1, <2>1, GoneOn DEF Policies
  <2>3. policy' = "done" /\ UNCHANGED file
    BY <2>1 DEF GoOn
  <2>4. OneAtATime'
    BY <1>0, <2>3, SaneFacts, OneAtATimeStays
  <2>5. \A p \in Ids : rem_bt[p] = 0
    BY <1>0, <1>1, <1>2
  <2>6. Work = [p \in Ids |-> Bt(p)]
    BY <1>1, <2>5 DEF Work
  <2>7. /\ \A p \in Ids : wt["RR"][p] \in 0..MostWait(p) /\ Tat("RR", p) <= t
        /\ \E p \in Ids : Tat("RR", p) = t
    BY <1>1, <2>5 DEF Finished
  <2>8. Max({Tat("RR", p) : p \in Ids}) = t
    <3> DEFINE S == {Tat("RR", p) : p \in Ids}
    <3>1. t \in S /\ \A y \in S : t >= y
      BY <1>1, <2>7
    <3>2. \A y \in S : (\A z \in S : y >= z) => y = t
      <4>1. \A y \in S : y \in Int
        <5>1. wt["RR"] \in [Ids -> Int]
          BY <1>1 DEF Policies
        <5>2. \A p \in Ids : wt["RR"][p] \in Int /\ Bt(p) \in Int
          BY <1>1, <5>1
        <5>3. \A p \in Ids : Tat("RR", p) \in Int
          BY <5>2 DEF Tat
        <5> QED
          BY <5>3
      <4> QED
        BY <1>1, <3>1, <4>1
    <3> HIDE DEF S
    <3>3. Max(S) = t
      BY <3>1, <3>2, Zenon DEF Max
    <3> QED
      BY <3>3 DEF S
  <2>9. RRIsFair'
    <3>1. /\ \A p \in Ids : wt["RR"][p] \in 0..MostWait(p)
          /\ Max({Tat("RR", p) : p \in Ids}) = SumFunction([p \in Ids |-> Bt(p)])
      BY <1>1, <2>6, <2>7, <2>8
    <3> QED
      BY <1>0, <2>3, <3>1 DEF RRIsFair, MostWait, Tat, Ids, Bt
  <2> QED
    BY <2>2, <2>4, <2>9 DEF Sane, SchedInv
<1>3. CASE ~idle
  <2>1. /\ i' = 1 /\ idle' = TRUE
        /\ UNCHANGED <<file, policy, wt, rem_bt, t, completed, min_bt, shortest, is_found>>
    BY <1>0, <1>3 DEF NextRound, sjf
  <2>2. PICK r \in 0..t : InRound(r)
    BY <1>0, RoundFacts
  <2>3. r \in Nat /\ r + 1 \in 0..t
    BY <1>1, <1>3, <2>2 DEF InRound
  <2>4. \A p \in Ids : Had(r + 1, p)' = Had(r, p)
    <3>1. \A p \in Ids : p < i /\ ~(p < i')
      BY <1>0, <1>1, <2>1
    <3> QED
      BY <3>1 DEF Had
  <2>5. \A p \in Ids : rem_bt[p] = IF Had(r, p) < Bt(p) THEN Bt(p) - Had(r, p) ELSE 0
    BY <2>2 DEF InRound
  <2>6. InRound(r + 1)'
    BY <2>1, <2>3, <2>4, <2>5 DEF InRound, Ids, Bt
  <2>7. Work' = Work /\ Finished'
    BY <1>1, <2>1 DEF Work, Finished, MostWait, Tat, Ids, Bt
  <2>8. i' \in 1..Len(file)+1 /\ 1..i'-1 = {}
    BY <1>1, <2>1
  <2> QED
    BY <1>0, <1>1, <2>1, <2>3, <2>6, <2>7, <2>8, RoundTurn
<1> QED
  BY <1>1, <1>2, <1>3, RoundFacts

-----------------------------------------------------------------------------
LEMMA SaneStep == Sane /\ [Next]_vars => Sane'
<1> SUFFICES ASSUME Sane, [Next]_vars PROVE Sane'
  OBVIOUS
<1>1. CASE FCFS
  BY <1>1, FCFSKeeps
<1>2. CASE WaitForArrival
  BY <1>2, WaitForArrivalKeeps
<1>3. CASE RunShortest
  BY <1>3, RunShortestKeeps
<1>4. CASE SJFDone
  BY <1>4, SJFDoneKeeps
<1>5. CASE Priority
  BY <1>5, PriorityKeeps
<1>6. CASE Skip
  BY <1>6, SkipKeeps
<1>7. CASE WholeSlice
  BY <1>7, WholeSliceKeeps
<1>8. CASE LastSlice
  BY <1>8, LastSliceKeeps
<1>9. CASE NextRound
  BY <1>9, NextRoundKeeps
<1>10. CASE UNCHANGED vars
  BY <1>10 DEF Sane, SchedInv, TypeOK, OneAtATime, ShortestRuns, RoundsKept, RRIsFair, After, Tat,
               MostWait, Work, Ids, Bt, vars
<1> QED
  BY <1>1, <1>2, <1>3, <1>4, <1>5, <1>6, <1>7, <1>8, <1>9, <1>10 DEF Next

(* For every file and quantum, in every state: under first come first served    *)
(* and priority (findWaitingTime) no two processes run at once and the order is *)
(* that of the file or of the priorities; SJF (findWaitingTimeSJF) counts the   *)
(* finished processes and goes on with the one that has least left; after each  *)
(* round of round robin (findWaitingTimeRR) every process has had its slice,    *)
(* and the clock shows the work done.                                           *)
THEOREM SchedInvariant == Spec => []SchedInv
<1>1. Sane => SchedInv
  BY DEF Sane
<1> QED
  BY <1>1, SaneInit, SaneStep, PTL DEF Spec

(* For every file and quantum, when round robin (findWaitingTimeRR) has ended,  *)
(* nobody waited longer than for a slice of each of the others in each of the   *)
(* rounds its burst took, and the last one ended when all the work was done.    *)
THEOREM RoundRobinIsFair == Spec => []RRIsFair
<1>1. Sane => RRIsFair
  BY DEF Sane
<1> QED
  BY <1>1, SaneInit, SaneStep, PTL DEF Spec
=============================================================================
