------------------------------ MODULE MMUProofs -----------------------------
(***************************************************************************)
(* The theorems about MMU: the blocks of the two lists partition the       *)
(* memory, the policies choose the block they should, and coalescing       *)
(* leaves nothing to coalesce.                                             *)
(*                                                                         *)
(* Every change of a list is an insertion or the reverse of one, so all    *)
(* that the proofs know of the list operations is Inserted.                *)
(***************************************************************************)
EXTENDS MMU, FiniteSetTheorems, NaturalsInduction, WellFoundedInduction, SequenceTheorems, TLAPS

LEMMA LeastNatural ==
  ASSUME NEW S \in SUBSET Nat, S # {}
  PROVE  \E n \in S : \A m \in S : n <= m
<1>1. PICK n \in S : \A m \in S : <<m, n>> \notin OpToRel(<, Nat)
  BY NatLessThanWellFounded, WFMin
<1>2. \A m \in S : ~(m < n)
  BY <1>1 DEF OpToRel
<1> QED
  BY <1>2

-----------------------------------------------------------------------------
(* m is l with b put in as the k-th element. *)
Inserted(l, k, b, m) ==
  /\ k \in 1..(Len(l) + 1) /\ Len(m) = Len(l) + 1
  /\ \A i \in 1..(Len(l) + 1) : m[i] = IF i < k THEN l[i] ELSE IF i = k THEN b ELSE l[i - 1]

(* InsertAt inserts. *)
LEMMA InsertAtFacts ==
  ASSUME NEW S, NEW l \in Seq(S), NEW b \in S, NEW k \in 1..(Len(l) + 1)
  PROVE  InsertAt(l, k, b) \in Seq(S) /\ Inserted(l, k, b, InsertAt(l, k, b))
<1> DEFINE front == SubSeq(l, 1, k - 1)
           back == SubSeq(l, k, Len(l))
<1>0. Len(l) \in Nat /\ \A j \in 1..Len(l) : l[j] \in S
  OBVIOUS
<1>1. front \in Seq(S) /\ Len(front) = k - 1 /\ \A j \in 1..(k - 1) : front[j] = l[j]
  BY <1>0, SubSeqProperties
<1>2. back \in Seq(S) /\ Len(back) = Len(l) + 1 - k
      /\ \A j \in 1..(Len(l) + 1 - k) : back[j] = l[k + j - 1]
  BY <1>0, SubSeqProperties
<1>3. InsertAt(l, k, b) = (front \o <<b>>) \o back
  BY DEF InsertAt
<1> HIDE DEF front, back
<1>4. <<b>> \in Seq(S) /\ Len(<<b>>) = 1 /\ <<b>>[1] = b
  OBVIOUS
<1> DEFINE start == front \o <<b>>
<1>5. start \in Seq(S) /\ Len(start) = k
      /\ \A j \in 1..k : start[j] = IF j < k THEN l[j] ELSE b
  BY <1>0, <1>1, <1>4, ConcatProperties
<1> HIDE DEF start
<1>6. /\ start \o back \in Seq(S) /\ Len(start \o back) = k + (Len(l) + 1 - k)
      /\ \A j \in 1..(k + (Len(l) + 1 - k)) :
           (start \o back)[j] = IF j <= k THEN start[j] ELSE back[j - k]
  BY <1>2, <1>5, ConcatProperties
<1>8. k + (Len(l) + 1 - k) = Len(l) + 1
  BY <1>0
<1>7. \A j \in 1..(Len(l) + 1) :
        (start \o back)[j] = IF j < k THEN l[j] ELSE IF j = k THEN b ELSE l[j - 1]
  BY <1>0, <1>2, <1>5, <1>6, <1>8
<1> QED
  BY <1>3, <1>6, <1>7, <1>8 DEF Inserted, start

(* RemoveAt is the reverse of an insertion. *)
LEMMA RemoveAtFacts ==
  ASSUME NEW S, NEW l \in Seq(S), NEW k \in 1..Len(l)
  PROVE  RemoveAt(l, k) \in Seq(S) /\ l[k] \in S /\ Inserted(RemoveAt(l, k), k, l[k], l)
<1> DEFINE front == SubSeq(l, 1, k - 1)
           back == SubSeq(l, k + 1, Len(l))
<1>0. Len(l) \in Nat /\ \A j \in 1..Len(l) : l[j] \in S
  OBVIOUS
<1>1. front \in Seq(S) /\ Len(front) = k - 1 /\ \A j \in 1..(k - 1) : front[j] = l[j]
  BY <1>0, SubSeqProperties
<1>2. back \in Seq(S) /\ Len(back) = Len(l) - k
      /\ \A j \in 1..(Len(l) - k) : back[j] = l[k + j]
  BY <1>0, SubSeqProperties
<1>3. RemoveAt(l, k) = front \o back
  BY DEF RemoveAt
<1> HIDE DEF front, back
<1> DEFINE rest == front \o back
<1>4. /\ rest \in Seq(S) /\ Len(rest) = Len(front) + Len(back)
      /\ \A j \in 1..(Len(front) + Len(back)) :
           rest[j] = IF j <= Len(front) THEN front[j] ELSE back[j - Len(front)]
  BY <1>1, <1>2, ConcatProperties
<1> HIDE DEF rest
<1>5. ASSUME NEW j \in 1..(Len(l) - 1) PROVE rest[j] = IF j < k THEN l[j] ELSE l[j + 1]
  <2>1. CASE j < k
    BY <1>0, <1>1, <1>2, <1>4, <2>1
  <2>2. CASE ~(j < k)
    <3>0. j \in 1..(Len(front) + Len(back)) /\ ~(j <= Len(front)) /\ Len(front) = k - 1
      BY <1>0, <1>1, <1>2, <2>2
    <3>1. rest[j] = back[j - (k - 1)]
      BY <1>4, <3>0
    <3>2. j - (k - 1) \in 1..(Len(l) - k) /\ k + (j - (k - 1)) = j + 1
      BY <1>0, <2>2
    <3> QED
      BY <1>2, <2>2, <3>1, <3>2
  <2> QED
    BY <2>1, <2>2
<1>6. Inserted(rest, k, l[k], l)
  <2>1. Len(rest) + 1 = Len(l) /\ k \in 1..(Len(rest) + 1)
    BY <1>0, <1>1, <1>2, <1>4
  <2>2. ASSUME NEW i \in 1..Len(l), i < k  PROVE l[i] = rest[i]
    BY <1>0, <1>5, <2>2
  <2>3. ASSUME NEW i \in 1..Len(l), i > k  PROVE l[i] = rest[i - 1]
    <3>1. i - 1 \in 1..(Len(l) - 1) /\ ~(i - 1 < k) /\ i - 1 + 1 = i
      BY <1>0, <2>3
    <3> QED
      BY <1>5, <3>1
  <2>4. \A i \in 1..Len(l) : i < k \/ i = k \/ i > k
    BY <1>0
  <2> QED
    BY <2>1, <2>2, <2>3, <2>4 DEF Inserted
<1> QED
  BY <1>0, <1>3, <1>4, <1>6 DEF rest

(* What is in the longer list: the elements of the shorter one, in their order,  *)
(* and the one that was put in.  Slot says where an element goes.               *)
Slot(k, i) == IF i < k THEN i ELSE i + 1

LEMMA InsertedElements ==
  ASSUME NEW S, NEW l \in Seq(S), NEW k, NEW b, NEW T, NEW m \in Seq(T), Inserted(l, k, b, m)
  PROVE  /\ DOMAIN l = 1..Len(l) /\ DOMAIN m = 1..Len(m)
         /\ k \in DOMAIN m /\ m[k] = b
         /\ \A i \in DOMAIN l : Slot(k, i) \in DOMAIN m /\ Slot(k, i) # k /\ m[Slot(k, i)] = l[i]
         /\ \A i, j \in DOMAIN l : i < j <=> Slot(k, i) < Slot(k, j)
         /\ \A i \in DOMAIN l : i < k <=> Slot(k, i) < k
         /\ \A j \in DOMAIN m : j = k \/ \E i \in DOMAIN l : j = Slot(k, i)
<1>1. DOMAIN l = 1..Len(l) /\ DOMAIN m = 1..Len(m) /\ Len(l) \in Nat /\ Len(m) = Len(l) + 1
  BY DEF Inserted
<1>2. k \in 1..(Len(l) + 1) /\ m[k] = b
  BY DEF Inserted
<1>3. ASSUME NEW i \in DOMAIN l
      PROVE  Slot(k, i) \in DOMAIN m /\ Slot(k, i) # k /\ m[Slot(k, i)] = l[i]
  <2>1. CASE i < k
    BY <1>1, <1>2, <2>1 DEF Inserted, Slot
  <2>2. CASE ~(i < k)
    <3>1. i + 1 \in 1..(Len(l) + 1) /\ ~(i + 1 < k) /\ i + 1 # k /\ (i + 1) - 1 = i
      BY <1>1, <1>2, <2>2
    <3> QED
      BY <1>1, <2>2, <3>1 DEF Inserted, Slot
  <2> QED
    BY <2>1, <2>2
<1>4. ASSUME NEW i \in DOMAIN l, NEW j \in DOMAIN l PROVE i < j <=> Slot(k, i) < Slot(k, j)
  BY <1>1, <1>2 DEF Slot
<1>6. ASSUME NEW i \in DOMAIN l PROVE i < k <=> Slot(k, i) < k
  BY <1>1, <1>2 DEF Slot
<1>5. ASSUME NEW j \in DOMAIN m, j # k PROVE \E i \in DOMAIN l : j = Slot(k, i)
  <2>1. CASE j < k
    BY <1>1, <1>2, <2>1 DEF Slot
  <2>2. CASE j > k
    <3>1. j - 1 \in DOMAIN l /\ ~(j - 1 < k) /\ j = (j - 1) + 1
      BY <1>1, <1>2, <2>2
    <3> QED
      BY <3>1 DEF Slot
  <2> QED
    BY <1>1, <1>2, <1>5, <2>1, <2>2
<1> QED
  BY <1>1, <1>2, <1>3, <1>4, <1>5, <1>6

(* An insertion adds the addresses of its block to those that the list covers. *)
LEMMA InsertedCovers ==
  ASSUME NEW S, NEW l \in Seq(S), NEW k, NEW b, NEW T, NEW m \in Seq(T), Inserted(l, k, b, m)
  PROVE  Covered(m) = Covered(l) \cup Addresses(b)
<1> USE InsertedElements
<1>1. ASSUME NEW a \in Covered(m) PROVE a \in Covered(l) \cup Addresses(b)
  <2>1. PICK j \in DOMAIN m : a \in Addresses(m[j])
    BY <1>1 DEF Covered
  <2>2. CASE j = k
    BY <2>1, <2>2
  <2>3. CASE \E i \in DOMAIN l : j = Slot(k, i)
    BY <2>1, <2>3 DEF Covered
  <2> QED
    BY <2>2, <2>3
<1>2. ASSUME NEW a \in Covered(l) PROVE a \in Covered(m)
  <2>1. PICK i \in DOMAIN l : a \in Addresses(l[i])
    BY <1>2 DEF Covered
  <2>2. Slot(k, i) \in DOMAIN m /\ a \in Addresses(m[Slot(k, i)])
    BY <2>1
  <2> QED
    BY <2>2 DEF Covered
<1>3. Addresses(b) \subseteq Covered(m)
  BY DEF Covered
<1> QED
  BY <1>1, <1>2, <1>3

(* The blocks of the longer list are apart if those of the shorter one are, and  *)
(* the block put in covers none of their addresses.                              *)
LEMMA InsertedApart ==
  ASSUME NEW S, NEW l \in Seq(S), NEW k, NEW b, NEW T, NEW m \in Seq(T), Inserted(l, k, b, m)
  PROVE  Apart(m) <=> Apart(l) /\ Covered(l) \cap Addresses(b) = {}
<1> USE InsertedElements
<1>1. ASSUME Apart(m), NEW i \in DOMAIN l, NEW j \in DOMAIN l, i # j
      PROVE  Addresses(l[i]) \cap Addresses(l[j]) = {}
  <2>1. Slot(k, i) # Slot(k, j)
    <3>1. i < j \/ j < i
      BY <1>1
    <3>2. Slot(k, i) \in Int /\ Slot(k, j) \in Int /\ (Slot(k, i) < Slot(k, j) \/ Slot(k, j) < Slot(k, i))
      BY <3>1
    <3> QED
      BY <3>2
  <2> QED
    BY <1>1, <2>1 DEF Apart
<1>2. ASSUME Apart(m), NEW a \in Covered(l) PROVE a \notin Addresses(b)
  <2>1. PICK i \in DOMAIN l : a \in Addresses(l[i])
    BY <1>2 DEF Covered
  <2>2. Addresses(m[Slot(k, i)]) \cap Addresses(m[k]) = {}
    BY <1>2 DEF Apart
  <2>3. m[Slot(k, i)] = l[i] /\ m[k] = b
    OBVIOUS
  <2> QED
    BY <2>1, <2>2, <2>3, Zenon
<1>3. ASSUME Apart(l), Covered(l) \cap Addresses(b) = {},
             NEW i \in DOMAIN m, NEW j \in DOMAIN m, i # j
      PROVE  Addresses(m[i]) \cap Addresses(m[j]) = {}
  <2>0. \A n \in DOMAIN l : Addresses(l[n]) \subseteq Covered(l)
    BY DEF Covered
  <2>1. CASE i = k
    <3>1. PICK n \in DOMAIN l : j = Slot(k, n)
      BY <1>3, <2>1
    <3> QED
      BY <1>3, <2>0, <2>1, <3>1
  <2>2. CASE j = k
    <3>1. PICK n \in DOMAIN l : i = Slot(k, n)
      BY <1>3, <2>2
    <3> QED
      BY <1>3, <2>0, <2>2, <3>1
  <2>3. CASE i # k /\ j # k
    <3>1. PICK n \in DOMAIN l : i = Slot(k, n)
      BY <2>3
    <3>2. PICK o \in DOMAIN l : j = Slot(k, o)
      BY <2>3
    <3> QED
      BY <1>3, <3>1, <3>2 DEF Apart
  <2> QED
    BY <2>1, <2>2, <2>3
<1> QED
  BY <1>1, <1>2, <1>3 DEF Apart

LEMMA InsertedNoneEmpty ==
  ASSUME NEW S, NEW l \in Seq(S), NEW k, NEW b, NEW T, NEW m \in Seq(T), Inserted(l, k, b, m)
  PROVE  NoneEmpty(m) <=> NoneEmpty(l) /\ b.start <= b.end
<1>1. ASSUME NoneEmpty(m) PROVE NoneEmpty(l) /\ b.start <= b.end
  BY <1>1, InsertedElements DEF NoneEmpty
<1>2. ASSUME NoneEmpty(l), b.start <= b.end, NEW i \in DOMAIN m PROVE m[i].start <= m[i].end
  BY <1>2, InsertedElements DEF NoneEmpty
<1> QED
  BY <1>1, <1>2 DEF NoneEmpty

(* The three orders.  Taking a block out keeps each of them; putting one in       *)
(* keeps it where the block belongs.                                             *)
LEMMA InsertedByAddress ==
  ASSUME NEW S, NEW l \in Seq(S), NEW k, NEW b, NEW T, NEW m \in Seq(T), Inserted(l, k, b, m)
  PROVE  /\ ByAddress(m) => ByAddress(l)
         /\ /\ ByAddress(l)
            /\ \A i \in DOMAIN l : i < k => l[i].start < b.start
            /\ \A i \in DOMAIN l : ~(i < k) => b.start < l[i].start
            => ByAddress(m)
<1> USE InsertedElements
<1>1. ASSUME ByAddress(m), NEW i \in DOMAIN l, NEW j \in DOMAIN l, i < j
      PROVE  l[i].start < l[j].start
  <2>1. m[Slot(k, i)].start < m[Slot(k, j)].start
    BY <1>1 DEF ByAddress
  <2> QED
    BY <2>1
<1>2. ASSUME ByAddress(l),
             \A i \in DOMAIN l : i < k => l[i].start < b.start,
             \A i \in DOMAIN l : ~(i < k) => b.start < l[i].start,
             NEW i \in DOMAIN m, NEW j \in DOMAIN m, i < j
      PROVE  m[i].start < m[j].start
  <2>1. CASE i = k
    <3>1. PICK n \in DOMAIN l : j = Slot(k, n)
      BY <1>2, <2>1
    <3>2. ~(n < k)
      BY <1>2, <2>1, <3>1
    <3> QED
      BY <1>2, <2>1, <3>1, <3>2
  <2>2. CASE j = k
    <3>1. PICK n \in DOMAIN l : i = Slot(k, n)
      BY <1>2, <2>2
    <3>2. n < k
      BY <1>2, <2>2, <3>1
    <3> QED
      BY <1>2, <2>2, <3>1, <3>2
  <2>3. CASE i # k /\ j # k
    <3>1. PICK n \in DOMAIN l : i = Slot(k, n)
      BY <2>3
    <3>2. PICK o \in DOMAIN l : j = Slot(k, o)
      BY <2>3
    <3>3. n < o
      BY <1>2, <3>1, <3>2
    <3>4. l[n].start < l[o].start
      BY <1>2, <3>3 DEF ByAddress
    <3> QED
      BY <3>1, <3>2, <3>4
  <2> QED
    BY <2>1, <2>2, <2>3
<1> QED
  BY <1>1, <1>2 DEF ByAddress

LEMMA InsertedBySize ==
  ASSUME NEW S, NEW l \in Seq(S), NEW k, NEW b, NEW T, NEW m \in Seq(T), Inserted(l, k, b, m)
  PROVE  /\ BySize(m) => BySize(l)
         /\ /\ BySize(l)
            /\ \A i \in DOMAIN l : i < k => BlockSize(l[i]) <= BlockSize(b)
            /\ \A i \in DOMAIN l : ~(i < k) => BlockSize(b) <= BlockSize(l[i])
            => BySize(m)
<1> USE InsertedElements
<1>1. ASSUME BySize(m), NEW i \in DOMAIN l, NEW j \in DOMAIN l, i < j
      PROVE  BlockSize(l[i]) <= BlockSize(l[j])
  <2>1. BlockSize(m[Slot(k, i)]) <= BlockSize(m[Slot(k, j)])
    BY <1>1 DEF BySize
  <2> QED
    BY <2>1
<1>2. ASSUME BySize(l),
             \A i \in DOMAIN l : i < k => BlockSize(l[i]) <= BlockSize(b),
             \A i \in DOMAIN l : ~(i < k) => BlockSize(b) <= BlockSize(l[i]),
             NEW i \in DOMAIN m, NEW j \in DOMAIN m, i < j
      PROVE  BlockSize(m[i]) <= BlockSize(m[j])
  <2>1. CASE i = k
    <3>1. PICK n \in DOMAIN l : j = Slot(k, n)
      BY <1>2, <2>1
    <3>2. ~(n < k)
      BY <1>2, <2>1, <3>1
    <3> QED
      BY <1>2, <2>1, <3>1, <3>2
  <2>2. CASE j = k
    <3>1. PICK n \in DOMAIN l : i = Slot(k, n)
      BY <1>2, <2>2
    <3>2. n < k
      BY <1>2, <2>2, <3>1
    <3> QED
      BY <1>2, <2>2, <3>1, <3>2
  <2>3. CASE i # k /\ j # k
    <3>1. PICK n \in DOMAIN l : i = Slot(k, n)
      BY <2>3
    <3>2. PICK o \in DOMAIN l : j = Slot(k, o)
      BY <2>3
    <3>3. n < o
      BY <1>2, <3>1, <3>2
    <3>4. BlockSize(l[n]) <= BlockSize(l[o])
      BY <1>2, <3>3 DEF BySize
    <3> QED
      BY <3>1, <3>2, <3>4
  <2> QED
    BY <2>1, <2>2, <2>3
<1> QED
  BY <1>1, <1>2 DEF BySize

LEMMA InsertedByFallingSize ==
  ASSUME NEW S, NEW l \in Seq(S), NEW k, NEW b, NEW T, NEW m \in Seq(T), Inserted(l, k, b, m)
  PROVE  /\ ByFallingSize(m) => ByFallingSize(l)
         /\ /\ ByFallingSize(l)
            /\ \A i \in DOMAIN l : i < k => BlockSize(l[i]) >= BlockSize(b)
            /\ \A i \in DOMAIN l : ~(i < k) => BlockSize(b) >= BlockSize(l[i])
            => ByFallingSize(m)
<1> USE InsertedElements
<1>1. ASSUME ByFallingSize(m), NEW i \in DOMAIN l, NEW j \in DOMAIN l, i < j
      PROVE  BlockSize(l[i]) >= BlockSize(l[j])
  <2>1. BlockSize(m[Slot(k, i)]) >= BlockSize(m[Slot(k, j)])
    BY <1>1 DEF ByFallingSize
  <2> QED
    BY <2>1
<1>2. ASSUME ByFallingSize(l),
             \A i \in DOMAIN l : i < k => BlockSize(l[i]) >= BlockSize(b),
             \A i \in DOMAIN l : ~(i < k) => BlockSize(b) >= BlockSize(l[i]),
             NEW i \in DOMAIN m, NEW j \in DOMAIN m, i < j
      PROVE  BlockSize(m[i]) >= BlockSize(m[j])
  <2>1. CASE i = k
    <3>1. PICK n \in DOMAIN l : j = Slot(k, n)
      BY <1>2, <2>1
    <3>2. ~(n < k)
      BY <1>2, <2>1, <3>1
    <3> QED
      BY <1>2, <2>1, <3>1, <3>2
  <2>2. CASE j = k
    <3>1. PICK n \in DOMAIN l : i = Slot(k, n)
      BY <1>2, <2>2
    <3>2. n < k
      BY <1>2, <2>2, <3>1
    <3> QED
      BY <1>2, <2>2, <3>1, <3>2
  <2>3. CASE i # k /\ j # k
    <3>1. PICK n \in DOMAIN l : i = Slot(k, n)
      BY <2>3
    <3>2. PICK o \in DOMAIN l : j = Slot(k, o)
      BY <2>3
    <3>3. n < o
      BY <1>2, <3>1, <3>2
    <3>4. BlockSize(l[n]) >= BlockSize(l[o])
      BY <1>2, <3>3 DEF ByFallingSize
    <3> QED
      BY <3>1, <3>2, <3>4
  <2> QED
    BY <2>1, <2>2, <2>3
<1> QED
  BY <1>1, <1>2 DEF ByFallingSize

-----------------------------------------------------------------------------
(* The operations of list.c. *)
LEMMA MinFacts ==
  ASSUME NEW I \in SUBSET Nat, I # {}
  PROVE  Min(I) \in I /\ \A i \in I : Min(I) <= i
BY LeastNatural DEF Min

LEMMA BlockFields ==
  ASSUME NEW P, NEW b \in Block(P)
  PROVE  /\ b = [pid |-> b.pid, start |-> b.start, end |-> b.end]
         /\ b.pid \in P /\ b.start \in Nat /\ b.end \in Nat /\ b.start < SIZE /\ b.end < SIZE
         /\ BlockSize(b) \in Int /\ BlockSize(b) = b.end - b.start + 1
BY MMUAssumption DEF Block, BlockSize

LEMMA ListFacts ==
  ASSUME NEW S, NEW l \in Seq(S)
  PROVE  DOMAIN l = 1..Len(l) /\ Len(l) \in Nat /\ \A i \in DOMAIN l : l[i] \in S
OBVIOUS

(* Where a walk through n elements stops, if it is to stop at these. *)
StopsAt(n, hits) == IF hits = {} THEN n + 1 ELSE IF Min(hits) = 0 THEN n + 1 ELSE Min(hits)

LEMMA FirstOrEnd ==
  ASSUME NEW n \in Nat, NEW hits \in SUBSET (1..n), NEW k, k = StopsAt(n, hits)
  PROVE  /\ k \in 1..(n + 1)
         /\ \A i \in 1..n : i < k => i \notin hits
         /\ k \in 1..n => k \in hits
<1>1. CASE hits = {}
  BY <1>1 DEF StopsAt
<1>2. CASE hits # {}
  <2>1. hits \in SUBSET Nat
    OBVIOUS
  <2>2. Min(hits) \in hits /\ \A i \in hits : Min(hits) <= i
    BY <1>2, <2>1, MinFacts
  <2> QED
    BY <1>2, <2>2 DEF StopsAt
<1> QED
  BY <1>1, <1>2

(* The three insertions that look for a place stop at the first block that is    *)
(* not before the new one in their order.                                        *)
LEMMA AddressIndex ==
  ASSUME NEW P, NEW l \in Seq(Block(P)), NEW b \in Block(P), NEW k,
         k = StopsAt(Len(l), {i \in 1..Len(l) : l[i].start >= b.start})
  PROVE  /\ k \in 1..(Len(l) + 1)
         /\ \A i \in DOMAIN l : i < k => l[i].start < b.start
         /\ k \in DOMAIN l => b.start <= l[k].start
<1> DEFINE hits == {i \in 1..Len(l) : l[i].start >= b.start}
<1>1. k = StopsAt(Len(l), hits)
  OBVIOUS
<1>2. DOMAIN l = 1..Len(l) /\ Len(l) \in Nat
  BY ListFacts
<1>3. /\ k \in 1..(Len(l) + 1)
      /\ \A i \in 1..Len(l) : i < k => i \notin hits
      /\ k \in 1..Len(l) => k \in hits
  <2>1. hits \in SUBSET (1..Len(l))
    OBVIOUS
  <2> HIDE DEF hits
  <2> QED
    BY <1>1, <1>2, <2>1, FirstOrEnd, Zenon
<1>4. \A i \in DOMAIN l : l[i].start \in Int /\ BlockSize(l[i]) \in Int /\ b.start \in Int /\ BlockSize(b) \in Int
  BY ListFacts, BlockFields
<1> QED
  BY <1>2, <1>3, <1>4

LEMMA SizeIndex ==
  ASSUME NEW P, NEW l \in Seq(Block(P)), NEW b \in Block(P), NEW k,
         k = StopsAt(Len(l), {i \in 1..Len(l) : BlockSize(l[i]) >= BlockSize(b)})
  PROVE  /\ k \in 1..(Len(l) + 1)
         /\ \A i \in DOMAIN l : i < k => BlockSize(l[i]) <= BlockSize(b)
         /\ k \in DOMAIN l => BlockSize(b) <= BlockSize(l[k])
<1> DEFINE hits == {i \in 1..Len(l) : BlockSize(l[i]) >= BlockSize(b)}
<1>1. k = StopsAt(Len(l), hits)
  OBVIOUS
<1>2. DOMAIN l = 1..Len(l) /\ Len(l) \in Nat
  BY ListFacts
<1>3. /\ k \in 1..(Len(l) + 1)
      /\ \A i \in 1..Len(l) : i < k => i \notin hits
      /\ k \in 1..Len(l) => k \in hits
  <2>1. hits \in SUBSET (1..Len(l))
    OBVIOUS
  <2> HIDE DEF hits
  <2> QED
    BY <1>1, <1>2, <2>1, FirstOrEnd, Zenon
<1>4. \A i \in DOMAIN l : l[i].start \in Int /\ BlockSize(l[i]) \in Int /\ b.start \in Int /\ BlockSize(b) \in Int
  BY ListFacts, BlockFields
<1> QED
  BY <1>2, <1>3, <1>4

LEMMA FallingIndex ==
  ASSUME NEW P, NEW l \in Seq(Block(P)), NEW size \in Int, NEW k,
         k = StopsAt(Len(l), {i \in 1..Len(l) : size > BlockSize(l[i]) - 1})
  PROVE  /\ k \in 1..(Len(l) + 1)
         /\ \A i \in DOMAIN l : i < k => size <= BlockSize(l[i]) - 1
         /\ k \in DOMAIN l => size > BlockSize(l[k]) - 1
<1> DEFINE hits == {i \in 1..Len(l) : size > BlockSize(l[i]) - 1}
<1>1. k = StopsAt(Len(l), hits)
  OBVIOUS
<1>2. DOMAIN l = 1..Len(l) /\ Len(l) \in Nat
  BY ListFacts
<1>3. /\ k \in 1..(Len(l) + 1)
      /\ \A i \in 1..Len(l) : i < k => i \notin hits
      /\ k \in 1..Len(l) => k \in hits
  <2>1. hits \in SUBSET (1..Len(l))
    OBVIOUS
  <2> HIDE DEF hits
  <2> QED
    BY <1>1, <1>2, <2>1, FirstOrEnd, Zenon
<1>4. \A i \in DOMAIN l : BlockSize(l[i]) \in Int
  BY ListFacts, BlockFields
<1> QED
  BY <1>2, <1>3, <1>4

(* m is the list of blocks l with b added somewhere. *)
Adds(P, l, b, m) == m \in Seq(Block(P)) /\ \E k : Inserted(l, k, b, m)

(* A sorted list of blocks that are not empty and apart: what insertion by       *)
(* address makes of it.                                                          *)
LEMMA AddsByAddress ==
  ASSUME NEW P, NEW l \in Seq(Block(P)), NEW b \in Block(P),
         ByAddress(l), NoneEmpty(l), b.start <= b.end, Covered(l) \cap Addresses(b) = {}
  PROVE  /\ Adds(P, l, b, AddAscendingByAddress(l, b))
         /\ ByAddress(AddAscendingByAddress(l, b))
<1> DEFINE k == StopsAt(Len(l), {i \in 1..Len(l) : l[i].start >= b.start})
           m == AddAscendingByAddress(l, b)
<1>1. m = InsertAt(l, k, b)
  BY DEF AddAscendingByAddress, IndexOrEnd, SelectInSeq, StopsAt
<1>2. /\ k \in 1..(Len(l) + 1)
      /\ \A i \in DOMAIN l : i < k => l[i].start < b.start
      /\ k \in DOMAIN l => b.start <= l[k].start
  BY AddressIndex
<1> HIDE DEF k, m
<1>3. m \in Seq(Block(P)) /\ Inserted(l, k, b, m)
  BY <1>1, <1>2, InsertAtFacts
<1>4. ASSUME NEW i \in DOMAIN l, ~(i < k) PROVE b.start < l[i].start
  <2>1. /\ DOMAIN l = 1..Len(l) /\ Len(l) \in Nat
        /\ \A j \in DOMAIN l : l[j].start \in Nat /\ l[j].end \in Nat /\ l[j].start <= l[j].end
        /\ b.start \in Nat /\ b.end \in Nat
    BY ListFacts, BlockFields DEF NoneEmpty
  <2>2. k \in DOMAIN l /\ k <= i
    BY <1>2, <1>4, <2>1
  <2>3. b.start <= l[k].start
    BY <1>2, <2>2
  <2>4. l[k].start <= l[i].start
    <3>1. CASE k = i
      BY <2>1, <3>1
    <3>2. CASE k < i
      BY <2>1, <2>2, <3>2 DEF ByAddress
    <3> QED
      BY <1>2, <2>1, <2>2, <3>1, <3>2
  <2>5. b.start # l[i].start
    <3>1. b.start \in Addresses(b) /\ l[i].start \in Addresses(l[i])
      BY <2>1 DEF Addresses
    <3>2. Addresses(l[i]) \subseteq Covered(l)
      BY DEF Covered
    <3> QED
      BY <3>1, <3>2
  <2> QED
    BY <2>1, <2>2, <2>3, <2>4, <2>5
<1>5. ByAddress(m)
  BY <1>2, <1>3, <1>4, InsertedByAddress
<1> QED
  BY <1>3, <1>5 DEF Adds, m

(* Insertion by size keeps the order of sizes. *)
LEMMA AddsBySize ==
  ASSUME NEW P, NEW l \in Seq(Block(P)), NEW b \in Block(P)
  PROVE  /\ Adds(P, l, b, AddAscendingByBlocksize(l, b))
         /\ BySize(l) => BySize(AddAscendingByBlocksize(l, b))
<1> DEFINE k == StopsAt(Len(l), {i \in 1..Len(l) : BlockSize(l[i]) >= BlockSize(b)})
           m == AddAscendingByBlocksize(l, b)
<1>1. m = InsertAt(l, k, b)
  BY DEF AddAscendingByBlocksize, IndexOrEnd, SelectInSeq, StopsAt
<1>2. /\ k \in 1..(Len(l) + 1)
      /\ \A i \in DOMAIN l : i < k => BlockSize(l[i]) <= BlockSize(b)
      /\ k \in DOMAIN l => BlockSize(b) <= BlockSize(l[k])
  BY SizeIndex
<1> HIDE DEF k, m
<1>3. m \in Seq(Block(P)) /\ Inserted(l, k, b, m)
  BY <1>1, <1>2, InsertAtFacts
<1>4. ASSUME BySize(l), NEW i \in DOMAIN l, ~(i < k) PROVE BlockSize(b) <= BlockSize(l[i])
  <2>1. /\ DOMAIN l = 1..Len(l) /\ Len(l) \in Nat
        /\ \A j \in DOMAIN l : BlockSize(l[j]) \in Int
        /\ BlockSize(b) \in Int
    BY ListFacts, BlockFields
  <2>2. k \in DOMAIN l /\ k <= i
    BY <1>2, <1>4, <2>1
  <2>3. BlockSize(b) <= BlockSize(l[k])
    BY <1>2, <2>2
  <2>4. k < i => BlockSize(l[k]) <= BlockSize(l[i])
    BY <1>4, <2>2 DEF BySize
  <2> QED
    BY <1>2, <2>1, <2>2, <2>3, <2>4
<1>5. BySize(l) => BySize(m)
  BY <1>2, <1>3, <1>4, InsertedBySize
<1> QED
  BY <1>3, <1>5 DEF Adds, m

(* A sequence and its head and tail. *)
LEMMA ConsFacts ==
  ASSUME NEW S, NEW a \in S, NEW t \in Seq(S)
  PROVE  /\ <<a>> \o t \in Seq(S) /\ Len(<<a>> \o t) = Len(t) + 1
         /\ (<<a>> \o t)[1] = a
         /\ \A i \in 2..(Len(t) + 1) : (<<a>> \o t)[i] = t[i - 1]
<1>1. <<a>> \in Seq(S) /\ Len(<<a>>) = 1 /\ <<a>>[1] = a /\ Len(t) \in Nat
  OBVIOUS
<1>2. /\ <<a>> \o t \in Seq(S) /\ Len(<<a>> \o t) = 1 + Len(t)
      /\ \A i \in 1..(1 + Len(t)) : (<<a>> \o t)[i] = IF i <= 1 THEN <<a>>[1] ELSE t[i - 1]
  BY <1>1, ConcatProperties
<1> DEFINE c == <<a>> \o t
<1> HIDE DEF c
<1> QED
  BY <1>1, <1>2 DEF c

LEMMA TailFacts ==
  ASSUME NEW S, NEW l \in Seq(S), l # <<>>
  PROVE  /\ Len(l) \in Nat /\ Len(l) >= 1 /\ Head(l) = l[1] /\ l[1] \in S
         /\ Tail(l) \in Seq(S) /\ Len(Tail(l)) = Len(l) - 1
         /\ \A i \in 1..(Len(l) - 1) : Tail(l)[i] = l[i + 1]
OBVIOUS

(* Insertion by falling size keeps that order although it counts the new block,  *)
(* and all but the head of the list, one address short.                          *)
LEMMA AddsByFallingSize ==
  ASSUME NEW P, NEW l \in Seq(Block(P)), NEW b \in Block(P)
  PROVE  /\ Adds(P, l, b, AddDescendingByBlocksize(l, b))
         /\ ByFallingSize(l) => ByFallingSize(AddDescendingByBlocksize(l, b))
<1> DEFINE size == BlockSize(b) - 1
           m == AddDescendingByBlocksize(l, b)
<1>0. /\ DOMAIN l = 1..Len(l) /\ Len(l) \in Nat
      /\ \A j \in DOMAIN l : l[j] \in Block(P) /\ BlockSize(l[j]) \in Int
      /\ BlockSize(b) \in Int
  BY ListFacts, BlockFields
<1>1. CASE l = <<>>
  <2>1. m = <<b>>
    BY <1>1 DEF AddDescendingByBlocksize
  <2>2. <<b>> \in Seq(Block(P)) /\ Len(<<b>>) = 1 /\ <<b>>[1] = b
    OBVIOUS
  <2>3. Inserted(l, 1, b, <<b>>)
    BY <1>1, <2>2 DEF Inserted
  <2>4. ByFallingSize(<<b>>)
    BY <2>2 DEF ByFallingSize
  <2> QED
    BY <2>1, <2>2, <2>3, <2>4 DEF Adds
<1>2. CASE l # <<>> /\ size >= BlockSize(Head(l))
  <2>0. l # <<>> /\ size >= BlockSize(Head(l)) /\ ~(size < BlockSize(Head(l)))
    BY <1>0, <1>2, TailFacts
  <2>1. m = <<b>> \o l
    BY <2>0 DEF AddDescendingByBlocksize
  <2> HIDE DEF m
  <2>2. m \in Seq(Block(P)) /\ Inserted(l, 1, b, m)
    <3>1. /\ m \in Seq(Block(P)) /\ Len(m) = Len(l) + 1 /\ m[1] = b
          /\ \A i \in 2..(Len(l) + 1) : m[i] = l[i - 1]
      BY <2>1, ConsFacts
    <3> QED
      BY <1>0, <3>1 DEF Inserted
  <2>3. ASSUME ByFallingSize(l), NEW i \in DOMAIN l PROVE BlockSize(b) >= BlockSize(l[i])
    <3>1. 1 \in DOMAIN l /\ size >= BlockSize(l[1])
      BY <1>0, <1>2, TailFacts
    <3>2. 1 < i => BlockSize(l[1]) >= BlockSize(l[i])
      BY <2>3, <3>1 DEF ByFallingSize
    <3> QED
      BY <1>0, <3>1, <3>2
  <2>4. \A i \in DOMAIN l : ~(i < 1)
    BY <1>0
  <2>5. ByFallingSize(l) => ByFallingSize(m)
    BY <2>2, <2>3, <2>4, InsertedByFallingSize
  <2> QED
    BY <2>2, <2>5 DEF Adds, m
<1>3. CASE l # <<>> /\ ~(size >= BlockSize(Head(l)))
  <2> DEFINE t == Tail(l)
             k == StopsAt(Len(t), {i \in 1..Len(t) : size > BlockSize(t[i]) - 1})
             n == InsertAt(t, k, b)
  <2>1. m = <<Head(l)>> \o n
    <3>1. l # <<>> /\ size < BlockSize(Head(l))
      BY <1>0, <1>3, TailFacts
    <3>2. m = <<Head(l)>> \o InsertAt(Tail(l), IndexOrEnd(Tail(l), LAMBDA c : size > BlockSize(c) - 1), b)
      BY <1>3, <3>1 DEF AddDescendingByBlocksize
    <3> QED
      BY <3>2 DEF IndexOrEnd, SelectInSeq, StopsAt
  <2> HIDE DEF m
  <2>2. /\ Len(l) >= 1 /\ Head(l) = l[1] /\ l[1] \in Block(P)
        /\ t \in Seq(Block(P)) /\ Len(t) = Len(l) - 1
        /\ \A i \in 1..(Len(l) - 1) : t[i] = l[i + 1]
    BY <1>3, TailFacts
  <2>3. size \in Int
    BY <1>0
  <2> HIDE DEF t
  <2>4. /\ k \in 1..(Len(t) + 1)
        /\ \A i \in DOMAIN t : i < k => size <= BlockSize(t[i]) - 1
        /\ k \in DOMAIN t => size > BlockSize(t[k]) - 1
    BY <2>2, <2>3, FallingIndex
  <2> HIDE DEF k
  <2>5. n \in Seq(Block(P)) /\ Inserted(t, k, b, n)
    BY <2>2, <2>4, InsertAtFacts
  <2> HIDE DEF n
  <2>6. /\ m \in Seq(Block(P)) /\ Len(m) = Len(n) + 1 /\ m[1] = l[1]
        /\ \A i \in 2..(Len(n) + 1) : m[i] = n[i - 1]
    BY <2>1, <2>2, <2>5, ConsFacts
  <2>7. Len(n) = Len(l) /\ k \in 1..Len(l) /\ k \in Nat /\ k + 1 \in 1..(Len(l) + 1)
    BY <1>0, <2>2, <2>4, <2>5 DEF Inserted
  <2>8. ASSUME NEW i \in 1..(Len(l) + 1)
        PROVE  m[i] = IF i < k + 1 THEN l[i] ELSE IF i = k + 1 THEN b ELSE l[i - 1]
    <3>1. CASE i = 1
      BY <2>6, <2>7, <3>1
    <3>2. CASE i # 1
      <4>1. i - 1 \in 1..(Len(t) + 1) /\ m[i] = n[i - 1]
        BY <1>0, <2>2, <2>6, <2>7, <3>2
      <4>2. n[i - 1] = IF i - 1 < k THEN t[i - 1] ELSE IF i - 1 = k THEN b ELSE t[i - 1 - 1]
        BY <2>5, <4>1 DEF Inserted
      <4>3. CASE i - 1 < k
        <5>1. i - 1 \in 1..(Len(l) - 1) /\ (i - 1) + 1 = i /\ i < k + 1
          BY <1>0, <2>7, <3>2, <4>3
        <5> QED
          BY <2>2, <4>1, <4>2, <4>3, <5>1
      <4>4. CASE i - 1 = k
        BY <2>7, <4>1, <4>2, <4>4
      <4>5. CASE i - 1 > k
        <5>1. i - 1 - 1 \in 1..(Len(l) - 1) /\ (i - 1 - 1) + 1 = i - 1 /\ ~(i < k + 1) /\ i # k + 1
              /\ ~(i - 1 < k) /\ i - 1 # k
          BY <1>0, <2>7, <3>2, <4>5
        <5> QED
          BY <2>2, <4>1, <4>2, <5>1
      <4> QED
        BY <2>7, <4>3, <4>4, <4>5
    <3> QED
      BY <3>1, <3>2
  <2>9. Inserted(l, k + 1, b, m)
    BY <2>6, <2>7, <2>8 DEF Inserted
  <2>10. ASSUME ByFallingSize(l), NEW i \in DOMAIN l, i < k + 1 PROVE BlockSize(l[i]) >= BlockSize(b)
    <3>1. CASE i = 1
      BY <1>0, <1>3, <2>2, <3>1
    <3>2. CASE i # 1
      <4>1. i - 1 \in DOMAIN t /\ i - 1 < k /\ t[i - 1] = l[i]
        BY <1>0, <2>2, <2>7, <2>10, <3>2
      <4> QED
        BY <1>0, <2>4, <4>1
    <3> QED
      BY <3>1, <3>2
  <2>11. ASSUME ByFallingSize(l), NEW i \in DOMAIN l, ~(i < k + 1) PROVE BlockSize(b) >= BlockSize(l[i])
    <3>1. k \in DOMAIN t /\ t[k] = l[k + 1] /\ k + 1 \in DOMAIN l /\ k + 1 <= i
      BY <1>0, <2>2, <2>7, <2>11
    <3>2. k + 1 < i => BlockSize(l[k + 1]) >= BlockSize(l[i])
      BY <2>11, <3>1 DEF ByFallingSize
    <3> QED
      BY <1>0, <2>4, <2>7, <3>1, <3>2
  <2>12. ByFallingSize(l) => ByFallingSize(m)
    BY <2>6, <2>9, <2>10, <2>11, InsertedByFallingSize
  <2> QED
    BY <2>6, <2>9, <2>12 DEF Adds, m
<1> QED
  BY <1>1, <1>2, <1>3

LEMMA AddsToBack ==
  ASSUME NEW P, NEW l \in Seq(Block(P)), NEW b \in Block(P)
  PROVE  Adds(P, l, b, AddToBack(l, b))
<1>1. /\ Append(l, b) \in Seq(Block(P)) /\ Len(Append(l, b)) = Len(l) + 1 /\ Len(l) \in Nat
      /\ Append(l, b)[Len(l) + 1] = b
      /\ \A i \in 1..Len(l) : Append(l, b)[i] = l[i]
  OBVIOUS
<1> DEFINE m == Append(l, b)
<1> HIDE DEF m
<1>2. m \in Seq(Block(P)) /\ Inserted(l, Len(l) + 1, b, m)
  BY <1>1 DEF Inserted, m
<1> QED
  BY <1>2 DEF Adds, AddToBack, m

(* What the policy promises of the free list. *)
InPolicysOrder(l) == /\ policy = "best" => BySize(l)
                     /\ policy = "worst" => ByFallingSize(l)

LEMMA GiveBackAdds ==
  ASSUME policy \in {"first", "best", "worst"},
         NEW P, NEW l \in Seq(Block(P)), NEW b \in Block(P)
  PROVE  /\ Adds(P, l, b, GiveBack(l, b))
         /\ InPolicysOrder(l) => InPolicysOrder(GiveBack(l, b))
<1>1. CASE policy = "first"
  <2>1. GiveBack(l, b) = AddToBack(l, b)
    BY <1>1 DEF GiveBack
  <2> QED
    BY <1>1, <2>1, AddsToBack DEF InPolicysOrder
<1>2. CASE policy = "best"
  <2>1. GiveBack(l, b) = AddAscendingByBlocksize(l, b)
    BY <1>2 DEF GiveBack
  <2> QED
    BY <1>2, <2>1, AddsBySize DEF InPolicysOrder
<1>3. CASE policy = "worst"
  <2>1. GiveBack(l, b) = AddDescendingByBlocksize(l, b)
    BY <1>3 DEF GiveBack
  <2> QED
    BY <1>3, <2>1, AddsByFallingSize DEF InPolicysOrder
<1> QED
  BY <1>1, <1>2, <1>3

-----------------------------------------------------------------------------
(* Coalescing.  The lists that sorting and merging have built after i blocks are *)
(* functions defined by recursion; they exist because the least i up to which    *)
(* there were none could be reached from the one before.                         *)
SortedUpTo(l, n, g) ==
  g = [i \in 0..n |-> IF i = 0 THEN <<>> ELSE AddAscendingByAddress(g[i - 1], l[i])]

MergedUpTo(l, n, g) == g = [i \in 0..n |-> IF i = 0 THEN <<>> ELSE Merge(g[i - 1], l[i])]

LEMMA SortedExists ==
  ASSUME NEW l, NEW n \in Nat
  PROVE  \E g : SortedUpTo(l, n, g)
<1> DEFINE bad == {i \in Nat : ~ \E g : SortedUpTo(l, i, g)}
<1>1. ASSUME bad # {} PROVE FALSE
  <2>1. PICK k \in bad : \A i \in bad : k <= i
    BY <1>1, LeastNatural
  <2>2. CASE k = 0
    <3> DEFINE g == [i \in 0..0 |-> <<>>]
    <3>1. SortedUpTo(l, 0, g)
      BY DEF SortedUpTo
    <3> QED
      BY <2>1, <2>2, <3>1
  <2>3. CASE k # 0
    <3>1. k \in Nat /\ k - 1 \in Nat /\ k - 1 \notin bad
      BY <2>1, <2>3
    <3>2. PICK g : SortedUpTo(l, k - 1, g)
      BY <3>1
    <3> DEFINE h == [i \in 0..k |-> IF i = k THEN AddAscendingByAddress(g[k - 1], l[k]) ELSE g[i]]
    <3>3. \A i \in 0..(k - 1) : g[i] = IF i = 0 THEN <<>> ELSE AddAscendingByAddress(g[i - 1], l[i])
      BY <3>2 DEF SortedUpTo
    <3>4. ASSUME NEW i \in 0..k
          PROVE  h[i] = IF i = 0 THEN <<>> ELSE AddAscendingByAddress(h[i - 1], l[i])
      <4>1. CASE i = k
        <5>1. h[i] = AddAscendingByAddress(g[k - 1], l[k]) /\ h[i - 1] = g[k - 1]
          BY <3>1, <4>1
        <5> QED
          BY <2>3, <4>1, <5>1
      <4>2. CASE i # k /\ i # 0
        <5>1. i \in 0..(k - 1) /\ h[i] = g[i] /\ h[i - 1] = g[i - 1]
          BY <3>1, <4>2
        <5> QED
          BY <3>3, <4>2, <5>1
      <4>3. CASE i # k /\ i = 0
        <5>1. i \in 0..(k - 1) /\ h[i] = g[i]
          BY <3>1, <4>3
        <5> QED
          BY <3>3, <4>3, <5>1
      <4> QED
        BY <4>1, <4>2, <4>3
    <3>5. SortedUpTo(l, k, h)
      BY <3>4 DEF SortedUpTo
    <3> QED
      BY <2>1, <3>5
  <2> QED
    BY <2>2, <2>3
<1> QED
  BY <1>1

LEMMA MergedExists ==
  ASSUME NEW l, NEW n \in Nat
  PROVE  \E g : MergedUpTo(l, n, g)
<1> DEFINE bad == {i \in Nat : ~ \E g : MergedUpTo(l, i, g)}
<1>1. ASSUME bad # {} PROVE FALSE
  <2>1. PICK k \in bad : \A i \in bad : k <= i
    BY <1>1, LeastNatural
  <2>2. CASE k = 0
    <3> DEFINE g == [i \in 0..0 |-> <<>>]
    <3>1. MergedUpTo(l, 0, g)
      BY DEF MergedUpTo
    <3> QED
      BY <2>1, <2>2, <3>1
  <2>3. CASE k # 0
    <3>1. k \in Nat /\ k - 1 \in Nat /\ k - 1 \notin bad
      BY <2>1, <2>3
    <3>2. PICK g : MergedUpTo(l, k - 1, g)
      BY <3>1
    <3> DEFINE h == [i \in 0..k |-> IF i = k THEN Merge(g[k - 1], l[k]) ELSE g[i]]
    <3>3. \A i \in 0..(k - 1) : g[i] = IF i = 0 THEN <<>> ELSE Merge(g[i - 1], l[i])
      BY <3>2 DEF MergedUpTo
    <3>4. ASSUME NEW i \in 0..k
          PROVE  h[i] = IF i = 0 THEN <<>> ELSE Merge(h[i - 1], l[i])
      <4>1. CASE i = k
        <5>1. h[i] = Merge(g[k - 1], l[k]) /\ h[i - 1] = g[k - 1]
          BY <3>1, <4>1
        <5> QED
          BY <2>3, <4>1, <5>1
      <4>2. CASE i # k /\ i # 0
        <5>1. i \in 0..(k - 1) /\ h[i] = g[i] /\ h[i - 1] = g[i - 1]
          BY <3>1, <4>2
        <5> QED
          BY <3>3, <4>2, <5>1
      <4>3. CASE i # k /\ i = 0
        <5>1. i \in 0..(k - 1) /\ h[i] = g[i]
          BY <3>1, <4>3
        <5> QED
          BY <3>3, <4>3, <5>1
      <4> QED
        BY <4>1, <4>2, <4>3
    <3>5. MergedUpTo(l, k, h)
      BY <3>4 DEF MergedUpTo
    <3> QED
      BY <2>1, <3>5
  <2> QED
    BY <2>2, <2>3
<1> QED
  BY <1>1

LEMMA SortIsLast ==
  ASSUME NEW l, Len(l) \in Nat
  PROVE  \E g : SortedUpTo(l, Len(l), g) /\ SortByAddress(l) = g[Len(l)]
<1> DEFINE f == CHOOSE g : SortedUpTo(l, Len(l), g)
<1>1. SortedUpTo(l, Len(l), f)
  BY SortedExists
<1>2. SortByAddress(l) = f[Len(l)]
  BY DEF SortByAddress, SortedUpTo
<1> QED
  BY <1>1, <1>2

LEMMA CoalesceIsLast ==
  ASSUME NEW l, Len(l) \in Nat
  PROVE  \E g : MergedUpTo(l, Len(l), g) /\ CoalesceNodes(l) = g[Len(l)]
<1> DEFINE f == CHOOSE g : MergedUpTo(l, Len(l), g)
<1>1. MergedUpTo(l, Len(l), f)
  BY MergedExists
<1>2. CoalesceNodes(l) = f[Len(l)]
  BY DEF CoalesceNodes, MergedUpTo
<1> QED
  BY <1>1, <1>2

(* The addresses of the first i blocks, and a sorted list that covers them. *)
CoveredBy(l, i) == UNION {Addresses(l[j]) : j \in 1..i}

SortedPart(P, l, i, s) == /\ s \in Seq(Block(P)) /\ NoneEmpty(s) /\ Apart(s) /\ ByAddress(s)
                          /\ Covered(s) = CoveredBy(l, i)

LEMMA CoveredByNext ==
  ASSUME NEW l, NEW i \in Nat
  PROVE  CoveredBy(l, i + 1) = CoveredBy(l, i) \cup Addresses(l[i + 1])
<1>1. 1..(i + 1) = (1..i) \cup {i + 1}
  OBVIOUS
<1> QED
  BY <1>1 DEF CoveredBy

LEMMA CoveredByApart ==
  ASSUME NEW S, NEW l \in Seq(S), Apart(l), NEW i \in Nat, i + 1 \in DOMAIN l
  PROVE  CoveredBy(l, i) \cap Addresses(l[i + 1]) = {}
<1>1. \A j \in 1..i : j \in DOMAIN l /\ j # i + 1
  BY ListFacts
<1>2. \A j \in 1..i : Addresses(l[j]) \cap Addresses(l[i + 1]) = {}
  BY <1>1 DEF Apart
<1> QED
  BY <1>2 DEF CoveredBy

LEMMA EmptyList ==
  ASSUME NEW P, NEW l
  PROVE  SortedPart(P, l, 0, <<>>)
<1>1. <<>> \in Seq(Block(P)) /\ DOMAIN <<>> = {} /\ 1..0 = {}
  OBVIOUS
<1> QED
  BY <1>1 DEF SortedPart, NoneEmpty, Apart, ByAddress, Covered, CoveredBy

(* One insertion of the sort. *)
LEMMA SortStep ==
  ASSUME NEW P, NEW l \in Seq(Block(P)), NoneEmpty(l), Apart(l),
         NEW i \in Nat, i + 1 \in DOMAIN l, NEW s, SortedPart(P, l, i, s)
  PROVE  SortedPart(P, l, i + 1, AddAscendingByAddress(s, l[i + 1]))
<1> DEFINE b == l[i + 1]
           m == AddAscendingByAddress(s, b)
<1>1. b \in Block(P) /\ b.start <= b.end
  BY ListFacts DEF NoneEmpty
<1>2. /\ s \in Seq(Block(P)) /\ NoneEmpty(s) /\ Apart(s) /\ ByAddress(s)
      /\ Covered(s) = CoveredBy(l, i)
  BY DEF SortedPart
<1>3. Covered(s) \cap Addresses(b) = {}
  BY <1>2, CoveredByApart
<1> HIDE DEF b
<1>4. Adds(P, s, b, m) /\ ByAddress(m)
  BY <1>1, <1>2, <1>3, AddsByAddress
<1> HIDE DEF m
<1>5. m \in Seq(Block(P))
  BY <1>4 DEF Adds
<1>6. PICK k : Inserted(s, k, b, m)
  BY <1>4 DEF Adds
<1>7. Covered(m) = CoveredBy(l, i) \cup Addresses(b)
  BY <1>2, <1>5, <1>6, InsertedCovers
<1>8. Apart(m) /\ NoneEmpty(m)
  BY <1>1, <1>2, <1>3, <1>5, <1>6, InsertedApart, InsertedNoneEmpty
<1>9. CoveredBy(l, i + 1) = CoveredBy(l, i) \cup Addresses(b)
  BY CoveredByNext DEF b
<1> QED
  BY <1>4, <1>5, <1>7, <1>8, <1>9 DEF SortedPart, m, b

LEMMA SortSorts ==
  ASSUME NEW P, NEW l \in Seq(Block(P)), NoneEmpty(l), Apart(l)
  PROVE  SortedPart(P, l, Len(l), SortByAddress(l))
<1>0. DOMAIN l = 1..Len(l) /\ Len(l) \in Nat
  BY ListFacts
<1>1. PICK g : SortedUpTo(l, Len(l), g) /\ SortByAddress(l) = g[Len(l)]
  BY <1>0, SortIsLast
<1>2. \A i \in 0..Len(l) : g[i] = IF i = 0 THEN <<>> ELSE AddAscendingByAddress(g[i - 1], l[i])
  BY <1>1 DEF SortedUpTo
<1> DEFINE bad == {i \in 0..Len(l) : ~ SortedPart(P, l, i, g[i])}
<1>3. ASSUME bad # {} PROVE FALSE
  <2>1. bad \in SUBSET Nat
    BY <1>0
  <2>2. PICK k \in bad : \A i \in bad : k <= i
    BY <1>3, <2>1, LeastNatural
  <2>3. k \in Nat /\ k \in 0..Len(l)
    BY <2>1, <2>2
  <2>4. CASE k = 0
    BY <1>2, <2>2, <2>3, <2>4, EmptyList
  <2>5. CASE k # 0
    <3>1. k - 1 \in Nat /\ k - 1 \in 0..Len(l) /\ (k - 1) + 1 = k /\ k \in DOMAIN l
      BY <1>0, <2>3, <2>5
    <3>2. SortedPart(P, l, k - 1, g[k - 1])
      BY <2>2, <2>3, <3>1
    <3>3. g[k] = AddAscendingByAddress(g[k - 1], l[k])
      BY <1>2, <2>3, <2>5
    <3>4. SortedPart(P, l, (k - 1) + 1, AddAscendingByAddress(g[k - 1], l[(k - 1) + 1]))
      BY <3>1, <3>2, SortStep
    <3> QED
      BY <2>2, <3>1, <3>3, <3>4
  <2> QED
    BY <2>4, <2>5
<1>4. Len(l) \in 0..Len(l)
  BY <1>0
<1> QED
  BY <1>1, <1>3, <1>4

(* A list without adjacent blocks is sorted, and its blocks are apart. *)
LEMMA MergedIsSorted ==
  ASSUME NEW P, NEW l \in Seq(Block(P)), NoneEmpty(l), FullyMerged(l)
  PROVE  ByAddress(l) /\ Apart(l)
<1>1. /\ DOMAIN l = 1..Len(l) /\ Len(l) \in Nat
      /\ \A i \in DOMAIN l : l[i].start \in Nat /\ l[i].end \in Nat /\ l[i].start <= l[i].end
  BY ListFacts, BlockFields DEF NoneEmpty
<1>2. ASSUME NEW i \in DOMAIN l, NEW j \in DOMAIN l, i < j PROVE l[i].end + 1 < l[j].start
  BY <1>2 DEF FullyMerged
<1>3. ByAddress(l)
  BY <1>1, <1>2 DEF ByAddress
<1>4. ASSUME NEW i \in DOMAIN l, NEW j \in DOMAIN l, i < j
      PROVE  Addresses(l[i]) \cap Addresses(l[j]) = {}
  BY <1>1, <1>2, <1>4 DEF Addresses
<1>5. ASSUME NEW i \in DOMAIN l, NEW j \in DOMAIN l, i # j
      PROVE  Addresses(l[i]) \cap Addresses(l[j]) = {}
  <2>1. i < j \/ j < i
    BY <1>1, <1>5
  <2> QED
    BY <1>4, <2>1
<1> QED
  BY <1>3, <1>5 DEF Apart

(* A merged list that covers the first i blocks, and ends where they end. *)
MergedPart(P, l, i, s) == /\ s \in Seq(Block(P)) /\ NoneEmpty(s) /\ FullyMerged(s)
                          /\ Covered(s) = CoveredBy(l, i)
                          /\ i > 0 => s # <<>> /\ s[Len(s)].end = l[i].end

(* The next block lies behind those merged so far. *)
LEMMA NextIsBehind ==
  ASSUME NEW P, NEW l \in Seq(Block(P)), NoneEmpty(l), Apart(l), ByAddress(l),
         NEW i \in Nat \ {0}, i + 1 \in DOMAIN l
  PROVE  l[i].end < l[i + 1].start
<1>1. i \in DOMAIN l /\ i < i + 1 /\ i # i + 1
  BY ListFacts
<1>2. l[i].start < l[i + 1].start
  BY <1>1 DEF ByAddress
<1>3. Addresses(l[i]) \cap Addresses(l[i + 1]) = {}
  BY <1>1 DEF Apart
<1>4. /\ l[i].start \in Nat /\ l[i].end \in Nat
      /\ l[i + 1].start \in Nat /\ l[i + 1].end \in Nat /\ l[i + 1].start <= l[i + 1].end
  BY <1>1, ListFacts, BlockFields DEF NoneEmpty
<1>5. l[i + 1].start \notin Addresses(l[i])
  BY <1>3, <1>4 DEF Addresses
<1> QED
  BY <1>2, <1>4, <1>5 DEF Addresses

LEMMA MergeStep ==
  ASSUME NEW P, NEW l \in Seq(Block(P)), NoneEmpty(l), Apart(l), ByAddress(l),
         NEW i \in Nat, i + 1 \in DOMAIN l, NEW s, MergedPart(P, l, i, s)
  PROVE  MergedPart(P, l, i + 1, Merge(s, l[i + 1]))
<1> DEFINE b == l[i + 1]
           m == Merge(s, b)
           n == Len(s)
<1>1. b \in Block(P) /\ b.start <= b.end
  BY ListFacts DEF NoneEmpty
<1>2. /\ s \in Seq(Block(P)) /\ NoneEmpty(s) /\ FullyMerged(s)
      /\ Covered(s) = CoveredBy(l, i)
      /\ i > 0 => s # <<>> /\ s[n].end = l[i].end
  BY DEF MergedPart
<1>3. i = 0 => s = <<>>
  <2>1. ASSUME i = 0, s # <<>> PROVE FALSE
    <3>1. CoveredBy(l, i) = {}
      BY <2>1 DEF CoveredBy
    <3>2. 1 \in DOMAIN s /\ s[1] \in Block(P)
      BY <1>2, <2>1
    <3>3. s[1].start \in Addresses(s[1])
      BY <1>2, <3>2, BlockFields DEF NoneEmpty, Addresses
    <3> QED
      BY <1>2, <3>1, <3>2, <3>3 DEF Covered
  <2> QED
    BY <2>1
<1>4. ASSUME s # <<>>
      PROVE  n \in DOMAIN s /\ s[n].end < b.start
  <2>1. i \in Nat \ {0} /\ n \in DOMAIN s
    BY <1>2, <1>3, <1>4
  <2>2. l[i].end < b.start
    BY <2>1, NextIsBehind
  <2> QED
    BY <1>2, <2>1, <2>2
<1>5. CoveredBy(l, i + 1) = Covered(s) \cup Addresses(b)
  BY <1>2, CoveredByNext
<1> HIDE DEF b
<1>6. /\ DOMAIN s = 1..n /\ n \in Nat
      /\ \A j \in DOMAIN s : /\ s[j] \in Block(P) /\ s[j].start \in Nat /\ s[j].end \in Nat
                             /\ s[j].start <= s[j].end /\ s[j].end < SIZE
      /\ b.start \in Nat /\ b.end \in Nat /\ b.end < SIZE /\ b.start < SIZE
  BY <1>1, <1>2, ListFacts, BlockFields DEF NoneEmpty
<1>10. DOMAIN s = 1..n /\ n \in Nat
  BY <1>6
<1>7. \A j, k \in DOMAIN s : j < k => s[j].end + 1 < s[k].start
  BY <1>2 DEF FullyMerged
<1>8. CASE s # <<>> /\ s[n].end + 1 = b.start
  <2>0. m = [s EXCEPT ![n].end = b.end]
    BY <1>8 DEF Merge, Last
  <2> HIDE DEF m, n
  <2>1. n \in DOMAIN s
    BY <1>4, <1>8
  <2> DEFINE e == [s[n] EXCEPT !.end = b.end]
  <2>2. e \in Block(P) /\ e.start = s[n].start /\ e.end = b.end
    <3>1. s[n] \in Block(P) /\ b.end \in 0..SIZE-1
      BY <1>6, <2>1, MMUAssumption
    <3> QED
      BY <3>1 DEF Block
  <2>3. /\ m \in Seq(Block(P)) /\ Len(m) = n /\ DOMAIN m = 1..n /\ m[n] = e
        /\ \A j \in 1..n : j # n => m[j] = s[j]
    <3>1. m = [s EXCEPT ![n] = e]
      BY <2>0, <2>1
    <3> HIDE DEF e
    <3> QED
      BY <1>2, <1>6, <2>1, <2>2, <3>1 DEF n
  <2> HIDE DEF e
  <2>4. NoneEmpty(m)
    <3>1. e.start <= e.end
      BY <1>1, <1>6, <1>8, <2>1, <2>2
    <3> QED
      BY <1>6, <2>3, <3>1 DEF NoneEmpty
  <2>5. FullyMerged(m)
    <3>1. \A j \in 1..n : m[j].start = s[j].start /\ (j # n => m[j].end = s[j].end)
      BY <2>2, <2>3
    <3>2. ASSUME NEW j \in 1..n, NEW k \in 1..n, j < k PROVE m[j].end + 1 < m[k].start
      <4>1. j # n /\ j \in DOMAIN s /\ k \in DOMAIN s
        BY <1>10, <3>2
      <4> QED
        BY <1>7, <3>1, <3>2, <4>1
    <3> QED
      BY <2>3, <3>2 DEF FullyMerged
  <2>6. Addresses(e) = Addresses(s[n]) \cup Addresses(b)
    BY <1>1, <1>6, <1>8, <2>1, <2>2 DEF Addresses
  <2>7. Covered(m) = Covered(s) \cup Addresses(b)
    <3>1. ASSUME NEW a \in Covered(m) PROVE a \in Covered(s) \cup Addresses(b)
      <4>1. PICK j \in 1..n : a \in Addresses(m[j])
        BY <2>3, <3>1 DEF Covered
      <4> QED
        BY <1>6, <2>3, <2>6, <4>1 DEF Covered
    <3>2. ASSUME NEW a \in Covered(s) PROVE a \in Covered(m)
      <4>1. PICK j \in 1..n : a \in Addresses(s[j])
        BY <1>6, <3>2 DEF Covered
      <4>2. a \in Addresses(m[j])
        BY <2>3, <2>6, <4>1
      <4> QED
        BY <2>3, <4>1, <4>2 DEF Covered
    <3>3. Addresses(b) \subseteq Covered(m)
      BY <1>6, <2>1, <2>3, <2>6 DEF Covered
    <3> QED
      BY <3>1, <3>2, <3>3
  <2>8. m # <<>> /\ m[Len(m)].end = b.end
    <3>1. Len(m) = n /\ n >= 1 /\ m[n] = e
      BY <1>10, <2>1, <2>3
    <3>2. m # <<>>
      BY <3>1
    <3> QED
      BY <2>2, <3>1, <3>2
  <2> QED
    BY <1>5, <2>3, <2>4, <2>5, <2>7, <2>8 DEF MergedPart, m, b
<1>9. CASE ~(s # <<>> /\ s[n].end + 1 = b.start)
  <2>0. m = Append(s, b)
    BY <1>9 DEF Merge, Last
  <2> HIDE DEF m, n
  <2>1. /\ m \in Seq(Block(P)) /\ Len(m) = n + 1 /\ DOMAIN m = 1..(n + 1) /\ m[n + 1] = b
        /\ \A j \in 1..n : m[j] = s[j]
    BY <1>1, <1>2, <1>6, <2>0 DEF n
  <2>2. NoneEmpty(m)
    BY <1>1, <1>6, <2>1 DEF NoneEmpty
  <2>3. ASSUME NEW j \in 1..n PROVE s[j].end + 1 < b.start
    <3>1. s # <<>> /\ n \in DOMAIN s /\ s[n].end < b.start /\ s[n].end + 1 # b.start
      BY <1>4, <1>6, <1>9, <2>3
    <3>2. j < n => s[j].end + 1 < s[n].start
      BY <1>6, <1>7, <3>1
    <3>3. /\ s[j].end \in Nat /\ s[n].end \in Nat /\ b.start \in Nat
          /\ s[n].start \in Nat /\ s[n].start <= s[n].end
      BY <1>6, <3>1
    <3>4. CASE j < n
      BY <3>1, <3>2, <3>3, <3>4
    <3>5. CASE j = n
      BY <3>1, <3>3, <3>5
    <3> QED
      BY <1>10, <2>3, <3>4, <3>5
  <2>4. ASSUME NEW j \in 1..(n + 1), NEW k \in 1..(n + 1), j < k PROVE m[j].end + 1 < m[k].start
    <3>1. CASE k = n + 1
      <4>1. j \in 1..n
        BY <1>6, <2>4, <3>1
      <4> QED
        BY <2>1, <2>3, <3>1, <4>1
    <3>2. CASE k # n + 1
      <4>1. j \in DOMAIN s /\ k \in DOMAIN s
        BY <1>6, <2>4, <3>2
      <4> QED
        BY <1>6, <1>7, <2>1, <2>4, <4>1
    <3> QED
      BY <3>1, <3>2
  <2>5. FullyMerged(m)
    BY <2>1, <2>4 DEF FullyMerged
  <2>6. Inserted(s, n + 1, b, m)
    BY <1>6, <2>1 DEF Inserted, n
  <2>7. Covered(m) = Covered(s) \cup Addresses(b)
    BY <1>2, <2>1, <2>6, InsertedCovers
  <2>8. m # <<>> /\ m[Len(m)].end = b.end
    BY <1>6, <2>1
  <2> QED
    BY <1>5, <2>1, <2>2, <2>5, <2>7, <2>8 DEF MergedPart, m, b
<1> QED
  BY <1>8, <1>9

LEMMA CoalesceMerges ==
  ASSUME NEW P, NEW l \in Seq(Block(P)), NoneEmpty(l), Apart(l), ByAddress(l)
  PROVE  MergedPart(P, l, Len(l), CoalesceNodes(l))
<1>0. DOMAIN l = 1..Len(l) /\ Len(l) \in Nat
  BY ListFacts
<1>1. PICK g : MergedUpTo(l, Len(l), g) /\ CoalesceNodes(l) = g[Len(l)]
  BY <1>0, CoalesceIsLast
<1>2. \A i \in 0..Len(l) : g[i] = IF i = 0 THEN <<>> ELSE Merge(g[i - 1], l[i])
  BY <1>1 DEF MergedUpTo
<1> DEFINE bad == {i \in 0..Len(l) : ~ MergedPart(P, l, i, g[i])}
<1>3. ASSUME bad # {} PROVE FALSE
  <2>1. bad \in SUBSET Nat
    BY <1>0
  <2>2. PICK k \in bad : \A i \in bad : k <= i
    BY <1>3, <2>1, LeastNatural
  <2>3. k \in Nat /\ k \in 0..Len(l)
    BY <2>1, <2>2
  <2>4. CASE k = 0
    <3>1. g[k] = <<>> /\ <<>> \in Seq(Block(P)) /\ DOMAIN <<>> = {} /\ 1..0 = {}
      BY <1>2, <2>3, <2>4
    <3>2. MergedPart(P, l, 0, <<>>)
      BY <3>1 DEF MergedPart, NoneEmpty, FullyMerged, Covered, CoveredBy
    <3> QED
      BY <2>2, <2>4, <3>1, <3>2
  <2>5. CASE k # 0
    <3>1. k - 1 \in Nat /\ k - 1 \in 0..Len(l) /\ (k - 1) + 1 = k /\ k \in DOMAIN l
      BY <1>0, <2>3, <2>5
    <3>2. MergedPart(P, l, k - 1, g[k - 1])
      BY <2>2, <2>3, <3>1
    <3>3. g[k] = Merge(g[k - 1], l[k])
      BY <1>2, <2>3, <2>5
    <3>4. MergedPart(P, l, (k - 1) + 1, Merge(g[k - 1], l[(k - 1) + 1]))
      BY <3>1, <3>2, MergeStep
    <3> QED
      BY <2>2, <3>1, <3>3, <3>4
  <2> QED
    BY <2>4, <2>5
<1>4. Len(l) \in 0..Len(l)
  BY <1>0
<1> QED
  BY <1>1, <1>3, <1>4

-----------------------------------------------------------------------------
(* What adding a block to a list, and taking one from it, do to the addresses    *)
(* it covers.                                                                    *)
LEMMA AddsFacts ==
  ASSUME NEW P, NEW l \in Seq(Block(P)), NEW b \in Block(P), NEW m, Adds(P, l, b, m),
         Apart(l), NoneEmpty(l), b.start <= b.end, Covered(l) \cap Addresses(b) = {}
  PROVE  /\ m \in Seq(Block(P)) /\ Apart(m) /\ NoneEmpty(m)
         /\ Covered(m) = Covered(l) \cup Addresses(b)
<1>1. m \in Seq(Block(P))
  BY DEF Adds
<1>2. PICK k : Inserted(l, k, b, m)
  BY DEF Adds
<1> QED
  BY <1>1, <1>2, InsertedApart, InsertedNoneEmpty, InsertedCovers

LEMMA TakeFacts ==
  ASSUME NEW P, NEW l \in Seq(Block(P)), NEW k \in DOMAIN l, Apart(l), NoneEmpty(l)
  PROVE  /\ RemoveAt(l, k) \in Seq(Block(P)) /\ l[k] \in Block(P) /\ l[k].start <= l[k].end
         /\ Apart(RemoveAt(l, k)) /\ NoneEmpty(RemoveAt(l, k))
         /\ Covered(l) = Covered(RemoveAt(l, k)) \cup Addresses(l[k])
         /\ Covered(RemoveAt(l, k)) \cap Addresses(l[k]) = {}
         /\ ByAddress(l) => ByAddress(RemoveAt(l, k))
         /\ InPolicysOrder(l) => InPolicysOrder(RemoveAt(l, k))
<1> DEFINE r == RemoveAt(l, k)
<1>1. k \in 1..Len(l)
  BY ListFacts
<1>2. r \in Seq(Block(P)) /\ l[k] \in Block(P) /\ Inserted(r, k, l[k], l)
  BY <1>1, RemoveAtFacts
<1> HIDE DEF r
<1>3. Apart(r) /\ Covered(r) \cap Addresses(l[k]) = {}
  BY <1>2, InsertedApart
<1>4. NoneEmpty(r) /\ l[k].start <= l[k].end
  BY <1>2, InsertedNoneEmpty
<1>5. Covered(l) = Covered(r) \cup Addresses(l[k])
  BY <1>2, InsertedCovers
<1>6. ByAddress(l) => ByAddress(r)
  BY <1>2, InsertedByAddress
<1>7. InPolicysOrder(l) => InPolicysOrder(r)
  BY <1>2, InsertedBySize, InsertedByFallingSize DEF InPolicysOrder
<1> QED
  BY <1>2, <1>3, <1>4, <1>5, <1>6, <1>7 DEF r

(* The first block that is large enough, and the first of a process. *)
LEMMA ChosenFacts ==
  ASSUME freelist \in Seq(Block({0})), NEW blocksize \in Nat, Chosen(blocksize) # 0
  PROVE  /\ Chosen(blocksize) \in DOMAIN freelist
         /\ blocksize <= BlockSize(freelist[Chosen(blocksize)])
         /\ \A i \in DOMAIN freelist : i < Chosen(blocksize) => BlockSize(freelist[i]) < blocksize
<1> DEFINE hits == {i \in 1..Len(freelist) : blocksize <= BlockSize(freelist[i])}
           k == Chosen(blocksize)
<1>1. k = IF hits = {} THEN 0 ELSE Min(hits)
  BY DEF Chosen, SelectInSeq
<1> HIDE DEF k
<1>2. /\ DOMAIN freelist = 1..Len(freelist) /\ Len(freelist) \in Nat
      /\ \A i \in DOMAIN freelist : BlockSize(freelist[i]) \in Int
  BY ListFacts, BlockFields
<1>3. hits \in SUBSET Nat /\ hits # {}
  BY <1>1, <1>2 DEF k
<1>4. k \in hits /\ \A i \in hits : k <= i
  BY <1>1, <1>3, MinFacts
<1>5. /\ k \in DOMAIN freelist /\ blocksize <= BlockSize(freelist[k])
      /\ \A i \in DOMAIN freelist : i < k => BlockSize(freelist[i]) < blocksize
  BY <1>2, <1>4
<1> QED
  BY <1>5 DEF k

LEMMA BlockOfFacts ==
  ASSUME alloclist \in Seq(Block(Pids)), NEW pid, BlockOf(pid) # 0
  PROVE  BlockOf(pid) \in DOMAIN alloclist /\ alloclist[BlockOf(pid)].pid = pid
<1> DEFINE hits == {i \in 1..Len(alloclist) : alloclist[i].pid = pid}
           k == BlockOf(pid)
<1>1. k = IF hits = {} THEN 0 ELSE Min(hits)
  BY DEF BlockOf, SelectInSeq
<1> HIDE DEF k
<1>2. DOMAIN alloclist = 1..Len(alloclist) /\ Len(alloclist) \in Nat
  BY ListFacts
<1>3. hits \in SUBSET Nat /\ hits # {}
  BY <1>1, <1>2 DEF k
<1>4. k \in hits
  BY <1>1, <1>3, MinFacts
<1> QED
  BY <1>2, <1>4 DEF k

-----------------------------------------------------------------------------
(* The inductive invariant. *)
LEMMA InvInit == Init => MMUInv
<1> SUFFICES ASSUME Init PROVE MMUInv
  OBVIOUS
<1> DEFINE b == [pid |-> 0, start |-> 0, end |-> SIZE - 1]
<1>1. freelist = <<b>> /\ alloclist = <<>> /\ policy \in {"first", "best", "worst"} /\ coalesced = FALSE
  BY DEF Init
<1>2. b \in Block({0}) /\ b.start = 0 /\ b.end = SIZE - 1 /\ SIZE - 1 \in Nat
  BY MMUAssumption DEF Block
<1> HIDE DEF b
<1>3. /\ freelist \in Seq(Block({0})) /\ DOMAIN freelist = {1} /\ freelist[1] = b
      /\ alloclist \in Seq(Block(Pids)) /\ DOMAIN alloclist = {}
  BY <1>1, <1>2
<1>4. Covered(freelist) = 0..SIZE-1
  BY <1>2, <1>3 DEF Covered, Addresses
<1>5. ListsCoverMemory
  BY <1>2, <1>3, <1>4 DEF ListsCoverMemory, NoneEmpty, Apart, Covered
<1>6. ByAddress(alloclist) /\ OrderedByPolicy
  BY <1>3 DEF ByAddress, OrderedByPolicy, BySize, ByFallingSize
<1> QED
  BY <1>1, <1>3, <1>5, <1>6 DEF MMUInv, BlocksAreTyped

(* An allocation splits a free block: its front is allocated, and what is left of *)
(* it goes back to the free list.                                                *)
LEMMA AllocateKeeps ==
  ASSUME MMUInv, NEW pid \in Pids, NEW blocksize \in Nat \ {0}, Allocate(pid, blocksize)
  PROVE  MMUInv'
<1> DEFINE index == Chosen(blocksize)
           found == freelist[index]
           blk   == [pid |-> pid, start |-> found.start, end |-> found.start + blocksize - 1]
           rest  == RemoveAt(freelist, index)
           frag  == [pid |-> 0, start |-> blk.end + 1, end |-> found.end]
<1>1. /\ freelist \in Seq(Block({0})) /\ alloclist \in Seq(Block(Pids))
      /\ policy \in {"first", "best", "worst"} /\ coalesced \in BOOLEAN
      /\ NoneEmpty(freelist) /\ NoneEmpty(alloclist) /\ Apart(freelist) /\ Apart(alloclist)
      /\ Covered(freelist) \cap Covered(alloclist) = {}
      /\ Covered(freelist) \cup Covered(alloclist) = 0..SIZE-1
      /\ ByAddress(alloclist) /\ (~coalesced => InPolicysOrder(freelist))
  BY DEF MMUInv, BlocksAreTyped, ListsCoverMemory, OrderedByPolicy, InPolicysOrder
<1>2. /\ index # 0
      /\ alloclist' = AddAscendingByAddress(alloclist, blk)
      /\ freelist' = IF blk.end < found.end THEN GiveBack(rest, frag) ELSE rest
      /\ policy' = policy /\ coalesced' = coalesced
  BY DEF Allocate
<1>3. blocksize \in Nat \ {0} /\ blocksize >= 1
  OBVIOUS
<1>4. index \in DOMAIN freelist /\ blocksize <= BlockSize(found)
  BY <1>1, <1>2, <1>3, ChosenFacts
<1> HIDE DEF index
<1>5. /\ rest \in Seq(Block({0})) /\ found \in Block({0}) /\ found.start <= found.end
      /\ Apart(rest) /\ NoneEmpty(rest)
      /\ Covered(freelist) = Covered(rest) \cup Addresses(found)
      /\ Covered(rest) \cap Addresses(found) = {}
      /\ InPolicysOrder(freelist) => InPolicysOrder(rest)
  BY <1>1, <1>4, TakeFacts
<1> HIDE DEF found, rest
<1>6. /\ found.start \in Nat /\ found.end \in Nat /\ found.end < SIZE
      /\ found.start + blocksize - 1 <= found.end /\ SIZE \in Nat
  BY <1>3, <1>4, <1>5, BlockFields, MMUAssumption
<1>7. /\ blk.pid = pid /\ blk.start = found.start /\ blk.end = found.start + blocksize - 1
      /\ blk \in Block(Pids)
  BY <1>3, <1>6 DEF Block
<1>8. /\ frag.pid = 0 /\ frag.start = blk.end + 1 /\ frag.end = found.end
      /\ blk.end < found.end => frag \in Block({0})
  BY <1>3, <1>6, <1>7 DEF Block
<1> HIDE DEF blk, frag
<1>9. blk.start <= blk.end /\ Addresses(blk) \subseteq Addresses(found)
  BY <1>3, <1>6, <1>7 DEF Addresses
<1>10. /\ alloclist' \in Seq(Block(Pids)) /\ Apart(alloclist') /\ NoneEmpty(alloclist')
       /\ Covered(alloclist') = Covered(alloclist) \cup Addresses(blk)
       /\ ByAddress(alloclist')
  <2>1. Covered(alloclist) \cap Addresses(blk) = {}
    BY <1>1, <1>5, <1>9
  <2>2. Adds(Pids, alloclist, blk, alloclist') /\ ByAddress(alloclist')
    BY <1>1, <1>2, <1>7, <1>9, <2>1, AddsByAddress
  <2> QED
    BY <1>1, <1>7, <1>9, <2>1, <2>2, AddsFacts
<1>11. /\ freelist' \in Seq(Block({0})) /\ Apart(freelist') /\ NoneEmpty(freelist')
       /\ Covered(freelist') = Covered(rest) \cup (Addresses(found) \ Addresses(blk))
       /\ ~coalesced => InPolicysOrder(freelist')
  <2>1. CASE blk.end < found.end
    <3>1. Addresses(frag) = Addresses(found) \ Addresses(blk) /\ frag.start <= frag.end
      BY <1>3, <1>6, <1>7, <1>8, <2>1 DEF Addresses
    <3>2. freelist' = GiveBack(rest, frag) /\ frag \in Block({0})
      BY <1>2, <1>8, <2>1
    <3>3. Adds({0}, rest, frag, freelist') /\ (InPolicysOrder(rest) => InPolicysOrder(freelist'))
      BY <1>1, <1>5, <3>2, GiveBackAdds
    <3>4. Covered(rest) \cap Addresses(frag) = {}
      BY <1>5, <3>1
    <3> QED
      BY <1>1, <1>5, <3>1, <3>2, <3>3, <3>4, AddsFacts
  <2>2. CASE ~(blk.end < found.end)
    <3>1. Addresses(found) \ Addresses(blk) = {}
      BY <1>3, <1>6, <1>7, <2>2 DEF Addresses
    <3> QED
      BY <1>1, <1>2, <1>5, <2>2, <3>1
  <2> QED
    BY <2>1, <2>2
<1>12. /\ Covered(freelist') \cap Covered(alloclist') = {}
       /\ Covered(freelist') \cup Covered(alloclist') = 0..SIZE-1
  BY <1>1, <1>5, <1>9, <1>10, <1>11
<1>13. BlocksAreTyped' /\ ListsCoverMemory'
  BY <1>1, <1>2, <1>10, <1>11, <1>12
  DEF BlocksAreTyped, ListsCoverMemory, NoneEmpty, Apart, Covered
<1>14. ByAddress(alloclist)' /\ OrderedByPolicy'
  BY <1>2, <1>10, <1>11
  DEF ByAddress, OrderedByPolicy, InPolicysOrder, BySize, ByFallingSize
<1> QED
  BY <1>13, <1>14 DEF MMUInv

(* A deallocation moves a block from one list to the other. *)
LEMMA DeallocateKeeps ==
  ASSUME MMUInv, NEW pid \in Pids, Deallocate(pid)
  PROVE  MMUInv'
<1> DEFINE index == BlockOf(pid)
           held == alloclist[index]
           blk  == [held EXCEPT !.pid = 0]
           rest == RemoveAt(alloclist, index)
<1>1. /\ freelist \in Seq(Block({0})) /\ alloclist \in Seq(Block(Pids))
      /\ policy \in {"first", "best", "worst"} /\ coalesced \in BOOLEAN
      /\ NoneEmpty(freelist) /\ NoneEmpty(alloclist) /\ Apart(freelist) /\ Apart(alloclist)
      /\ Covered(freelist) \cap Covered(alloclist) = {}
      /\ Covered(freelist) \cup Covered(alloclist) = 0..SIZE-1
      /\ ByAddress(alloclist) /\ (~coalesced => InPolicysOrder(freelist))
  BY DEF MMUInv, BlocksAreTyped, ListsCoverMemory, OrderedByPolicy, InPolicysOrder
<1>2. /\ index # 0
      /\ alloclist' = rest
      /\ freelist' = GiveBack(freelist, blk)
      /\ policy' = policy /\ coalesced' = coalesced
  BY DEF Deallocate
<1>3. index \in DOMAIN alloclist
  BY <1>1, <1>2, BlockOfFacts
<1> HIDE DEF index
<1>4. /\ rest \in Seq(Block(Pids)) /\ held \in Block(Pids) /\ held.start <= held.end
      /\ Apart(rest) /\ NoneEmpty(rest) /\ ByAddress(rest)
      /\ Covered(alloclist) = Covered(rest) \cup Addresses(held)
      /\ Covered(rest) \cap Addresses(held) = {}
  BY <1>1, <1>3, TakeFacts
<1> HIDE DEF held, rest
<1>5. blk \in Block({0}) /\ blk.start = held.start /\ blk.end = held.end
  BY <1>4 DEF Block
<1> HIDE DEF blk
<1>6. Addresses(blk) = Addresses(held) /\ blk.start <= blk.end
  BY <1>4, <1>5 DEF Addresses
<1>7. /\ freelist' \in Seq(Block({0})) /\ Apart(freelist') /\ NoneEmpty(freelist')
      /\ Covered(freelist') = Covered(freelist) \cup Addresses(held)
      /\ ~coalesced => InPolicysOrder(freelist')
  <2>1. Adds({0}, freelist, blk, freelist') /\ (InPolicysOrder(freelist) => InPolicysOrder(freelist'))
    BY <1>1, <1>2, <1>5, GiveBackAdds
  <2>2. Covered(freelist) \cap Addresses(blk) = {}
    BY <1>1, <1>4, <1>6
  <2> QED
    BY <1>1, <1>5, <1>6, <2>1, <2>2, AddsFacts
<1>8. /\ Covered(freelist') \cap Covered(alloclist') = {}
      /\ Covered(freelist') \cup Covered(alloclist') = 0..SIZE-1
  BY <1>1, <1>2, <1>4, <1>7
<1>9. BlocksAreTyped' /\ ListsCoverMemory'
  BY <1>1, <1>2, <1>4, <1>7, <1>8
  DEF BlocksAreTyped, ListsCoverMemory, NoneEmpty, Apart, Covered
<1>10. ByAddress(alloclist)' /\ OrderedByPolicy'
  BY <1>2, <1>4, <1>7
  DEF ByAddress, OrderedByPolicy, InPolicysOrder, BySize, ByFallingSize
<1> QED
  BY <1>9, <1>10 DEF MMUInv

(* Coalescing sorts the free list and merges it: the same addresses, in a list   *)
(* without adjacent blocks.                                                      *)
LEMMA CoalesceResult ==
  ASSUME MMUInv, Coalesce
  PROVE  /\ freelist' \in Seq(Block({0})) /\ NoneEmpty(freelist') /\ FullyMerged(freelist')
         /\ Covered(freelist') = Covered(freelist)
<1> DEFINE sorted == SortByAddress(freelist)
<1>1. freelist \in Seq(Block({0})) /\ NoneEmpty(freelist) /\ Apart(freelist)
  BY DEF MMUInv, BlocksAreTyped, ListsCoverMemory
<1>2. SortedPart({0}, freelist, Len(freelist), sorted)
  BY <1>1, SortSorts
<1>3. freelist' = CoalesceNodes(sorted)
  BY DEF Coalesce
<1> HIDE DEF sorted
<1>4. /\ sorted \in Seq(Block({0})) /\ NoneEmpty(sorted) /\ Apart(sorted) /\ ByAddress(sorted)
      /\ Covered(sorted) = CoveredBy(freelist, Len(freelist))
  BY <1>2 DEF SortedPart
<1>5. MergedPart({0}, sorted, Len(sorted), freelist')
  BY <1>3, <1>4, CoalesceMerges
<1>6. \A l : l \in Seq(Block({0})) => CoveredBy(l, Len(l)) = Covered(l)
  BY ListFacts DEF CoveredBy, Covered
<1>7. Covered(freelist') = CoveredBy(sorted, Len(sorted))
  BY <1>5 DEF MergedPart
<1>8. Covered(freelist') = Covered(freelist)
  BY <1>1, <1>4, <1>6, <1>7, Zenon
<1> QED
  BY <1>5, <1>8 DEF MergedPart

LEMMA CoalesceKeeps ==
  ASSUME MMUInv, Coalesce
  PROVE  MMUInv'
<1>1. /\ alloclist \in Seq(Block(Pids)) /\ policy \in {"first", "best", "worst"}
      /\ NoneEmpty(alloclist) /\ Apart(alloclist)
      /\ Covered(freelist) \cap Covered(alloclist) = {}
      /\ Covered(freelist) \cup Covered(alloclist) = 0..SIZE-1
      /\ ByAddress(alloclist)
  BY DEF MMUInv, BlocksAreTyped, ListsCoverMemory
<1>2. alloclist' = alloclist /\ policy' = policy /\ coalesced' = TRUE
  BY DEF Coalesce
<1>3. /\ freelist' \in Seq(Block({0})) /\ NoneEmpty(freelist') /\ FullyMerged(freelist')
      /\ Covered(freelist') = Covered(freelist)
  BY CoalesceResult
<1>4. Apart(freelist')
  BY <1>3, MergedIsSorted
<1>5. BlocksAreTyped'
  BY <1>1, <1>2, <1>3 DEF BlocksAreTyped
<1>6. /\ NoneEmpty(alloclist') /\ Apart(alloclist')
      /\ Covered(freelist') \cap Covered(alloclist') = {}
      /\ Covered(freelist') \cup Covered(alloclist') = 0..SIZE-1
  BY <1>1, <1>2, <1>3
<1>7. ListsCoverMemory'
  BY <1>3, <1>4, <1>6 DEF ListsCoverMemory, NoneEmpty, Apart, Covered
<1>8. ByAddress(alloclist)' /\ OrderedByPolicy'
  BY <1>1, <1>2 DEF ByAddress, OrderedByPolicy
<1> QED
  BY <1>5, <1>7, <1>8 DEF MMUInv

LEMMA InvNext == AtLeastOne /\ MMUInv /\ [Next]_vars => MMUInv'
<1> SUFFICES ASSUME AtLeastOne, MMUInv, [Next]_vars PROVE MMUInv'
  OBVIOUS
<1>1. CASE \E pid \in Pids, blocksize \in Requests : Allocate(pid, blocksize)
  BY <1>1, AllocateKeeps DEF AtLeastOne
<1>2. CASE \E pid \in Pids : Deallocate(pid)
  BY <1>2, DeallocateKeeps
<1>3. CASE Coalesce
  BY <1>3, CoalesceKeeps
<1>4. CASE UNCHANGED vars
  BY <1>4 DEF vars, MMUInv, BlocksAreTyped, ListsCoverMemory, NoneEmpty, Apart, Covered, ByAddress,
              OrderedByPolicy, BySize, ByFallingSize
<1> QED
  BY <1>1, <1>2, <1>3, <1>4 DEF Next

(* As long as no request is for less than one address, no sequence of            *)
(* instructions loses an address or gives it out twice, and until the free list  *)
(* is coalesced it stays in the order of its policy.                             *)
THEOREM MMUInvariant == ASSUME AtLeastOne PROVE Spec => []MMUInv
<1>1. MMUInv /\ [Next]_vars => MMUInv'
  BY AtLeastOne, InvNext
<1> QED
  BY <1>1, InvInit, PTL DEF Spec

-----------------------------------------------------------------------------
LEMMA WiderSeq ==
  ASSUME NEW S, NEW T, S \subseteq T, NEW l \in Seq(S)
  PROVE  l \in Seq(T)
OBVIOUS

LEMMA InvPartitions == MMUInv => MemoryIsPartitioned
<1> SUFFICES ASSUME MMUInv PROVE MemoryIsPartitioned
  OBVIOUS
<1>1. /\ BlocksAreTyped /\ ByAddress(alloclist)
      /\ freelist \in Seq(Block({0})) /\ alloclist \in Seq(Block(Pids))
      /\ Apart(freelist) /\ Apart(alloclist)
      /\ Covered(freelist) \cap Covered(alloclist) = {}
      /\ Covered(freelist) \cup Covered(alloclist) = 0..SIZE-1
  BY DEF MMUInv, BlocksAreTyped, ListsCoverMemory
<1> DEFINE n == Len(freelist)
           o == Len(alloclist)
<1>2. /\ n \in Nat /\ o \in Nat /\ DOMAIN freelist = 1..n /\ DOMAIN alloclist = 1..o
      /\ DOMAIN Blocks = 1..(n + o)
      /\ \A i \in 1..n : Blocks[i] = freelist[i]
      /\ \A i \in 1..(n + o) : i > n => i - n \in 1..o /\ Blocks[i] = alloclist[i - n]
  <2>1. freelist \in Seq(Block(Pids \cup {0})) /\ alloclist \in Seq(Block(Pids \cup {0}))
    <3>1. Block({0}) \subseteq Block(Pids \cup {0}) /\ Block(Pids) \subseteq Block(Pids \cup {0})
      BY DEF Block
    <3> QED
      BY <1>1, <3>1, WiderSeq
  <2> DEFINE B == freelist \o alloclist
  <2>2. /\ B \in Seq(Block(Pids \cup {0})) /\ Len(B) = n + o
        /\ \A i \in 1..(n + o) : B[i] = IF i <= n THEN freelist[i] ELSE alloclist[i - n]
    BY <2>1, ConcatProperties
  <2>3. /\ n \in Nat /\ o \in Nat /\ DOMAIN freelist = 1..n /\ DOMAIN alloclist = 1..o
    BY <2>1, ListFacts
  <2> HIDE DEF B, n, o
  <2>4. DOMAIN B = 1..(n + o)
    BY <2>2
  <2>5. /\ \A i \in 1..n : B[i] = freelist[i]
        /\ \A i \in 1..(n + o) : i > n => i - n \in 1..o /\ B[i] = alloclist[i - n]
    BY <2>2, <2>3
  <2>6. Blocks = B
    BY DEF Blocks, B
  <2> QED
    BY <2>3, <2>4, <2>5, <2>6
<1> HIDE DEF n, o
<1>3. ASSUME NEW a \in 0..SIZE-1
      PROVE  Cardinality({i \in DOMAIN Blocks : a \in Addresses(Blocks[i])}) = 1
  <2> DEFINE hits == {i \in DOMAIN Blocks : a \in Addresses(Blocks[i])}
  <2>1. ASSUME NEW k \in hits, NEW j \in hits PROVE k = j
    <3>1. /\ k \in 1..(n + o) /\ a \in Addresses(Blocks[k])
          /\ j \in 1..(n + o) /\ a \in Addresses(Blocks[j])
      BY <1>2, <2>1
    <3>2. \A i \in 1..(n + o) : a \in Addresses(Blocks[i]) => IF i <= n THEN a \in Covered(freelist) ELSE a \in Covered(alloclist)
      BY <1>2 DEF Covered
    <3>3. (k <= n /\ j <= n) \/ (k > n /\ j > n)
      BY <1>1, <1>2, <3>1, <3>2
    <3>4. CASE k <= n /\ j <= n
      <4>1. k \in DOMAIN freelist /\ j \in DOMAIN freelist /\ Blocks[k] = freelist[k] /\ Blocks[j] = freelist[j]
        BY <1>2, <3>1, <3>4
      <4> QED
        BY <1>1, <3>1, <4>1 DEF Apart
    <3>5. CASE k > n /\ j > n
      <4>1. /\ k - n \in DOMAIN alloclist /\ j - n \in DOMAIN alloclist
            /\ Blocks[k] = alloclist[k - n] /\ Blocks[j] = alloclist[j - n]
        BY <1>2, <3>1, <3>5
      <4>2. k - n = j - n
        BY <1>1, <3>1, <4>1 DEF Apart
      <4> QED
        BY <1>2, <3>1, <4>2
    <3> QED
      BY <3>3, <3>4, <3>5
  <2>2. \E k : k \in hits
    <3>1. CASE a \in Covered(freelist)
      <4>1. PICK i \in 1..n : a \in Addresses(freelist[i])
        BY <1>2, <3>1 DEF Covered
      <4>2. i \in hits
        BY <1>2, <4>1
      <4> QED
        BY <4>2
    <3>2. CASE a \in Covered(alloclist)
      <4>1. PICK i \in 1..o : a \in Addresses(alloclist[i])
        BY <1>2, <3>2 DEF Covered
      <4>2. i + n \in 1..(n + o) /\ i + n > n /\ (i + n) - n = i
        BY <1>2, <4>1
      <4>3. i + n \in hits
        BY <1>2, <4>1, <4>2
      <4> QED
        BY <4>3
    <3> QED
      BY <1>1, <3>1, <3>2
  <2> HIDE DEF hits
  <2>3. PICK k : k \in hits
    BY <2>2
  <2>4. hits = {k}
    BY <2>1, <2>3
  <2>5. Cardinality(hits) = 1
    BY <2>4, FS_Singleton
  <2> QED
    BY <2>5 DEF hits
<1> QED
  BY <1>1, <1>3 DEF MemoryIsPartitioned, Partitioned

(* Every address is in exactly one block, free or allocated, if every request is *)
(* for at least one.                                                             *)
THEOREM MemoryStaysPartitioned == ASSUME AtLeastOne PROVE Spec => []MemoryIsPartitioned
<1>1. Spec => []MMUInv
  BY AtLeastOne, MMUInvariant
<1> QED
  BY <1>1, InvPartitions, PTL

LEMMA InvFits == AtLeastOne /\ MMUInv => FitsPolicy
<1> SUFFICES ASSUME AtLeastOne, MMUInv, ~coalesced, NEW blocksize \in Requests, Chosen(blocksize) # 0
             PROVE  LET size == BlockSize(freelist[Chosen(blocksize)])
                        others == {BlockSize(b) : b \in ToSet(freelist)}
                    IN /\ policy = "best"  => \A other \in others : other >= blocksize => size <= other
                       /\ policy = "worst" => \A other \in others : size >= other
  BY DEF FitsPolicy
<1> DEFINE k == Chosen(blocksize)
           size == BlockSize(freelist[k])
           others == {BlockSize(b) : b \in ToSet(freelist)}
<1>1. /\ freelist \in Seq(Block({0})) /\ blocksize \in Nat
      /\ policy = "best" => BySize(freelist)
      /\ policy = "worst" => ByFallingSize(freelist)
  BY DEF AtLeastOne, MMUInv, BlocksAreTyped, OrderedByPolicy
<1>2. /\ k \in DOMAIN freelist /\ blocksize <= size
      /\ \A i \in DOMAIN freelist : i < k => BlockSize(freelist[i]) < blocksize
  BY <1>1, ChosenFacts
<1>3. /\ DOMAIN freelist = 1..Len(freelist) /\ Len(freelist) \in Nat
      /\ \A i \in DOMAIN freelist : BlockSize(freelist[i]) \in Int
  BY <1>1, ListFacts, BlockFields
<1>4. others = {BlockSize(freelist[i]) : i \in DOMAIN freelist}
  BY DEF ToSet
<1> HIDE DEF k, others
<1>5. ASSUME policy = "best", NEW i \in DOMAIN freelist, BlockSize(freelist[i]) >= blocksize
      PROVE  size <= BlockSize(freelist[i])
  <2>1. ~(i < k)
    BY <1>1, <1>2, <1>3, <1>5
  <2>2. k < i => size <= BlockSize(freelist[i])
    BY <1>1, <1>2, <1>5 DEF BySize
  <2> QED
    BY <1>2, <1>3, <2>1, <2>2
<1>6. ASSUME policy = "worst", NEW i \in DOMAIN freelist
      PROVE  size >= BlockSize(freelist[i])
  <2>1. k < i => size >= BlockSize(freelist[i])
    BY <1>1, <1>2, <1>6 DEF ByFallingSize
  <2>2. i < k => size >= BlockSize(freelist[i])
    BY <1>1, <1>2, <1>3
  <2> QED
    BY <1>2, <1>3, <2>1, <2>2
<1> QED
  BY <1>4, <1>5, <1>6 DEF k, others

(* Until an instruction coalesces the free list, best fit takes the smallest     *)
(* block that is large enough, and worst fit the largest of all, for requests    *)
(* of at least one address.                                                      *)
THEOREM PoliciesFit == ASSUME AtLeastOne PROVE Spec => []FitsPolicy
<1>1. Spec => []MMUInv
  BY AtLeastOne, MMUInvariant
<1>2. MMUInv => FitsPolicy
  BY AtLeastOne, InvFits
<1> QED
  BY <1>1, <1>2, PTL

(* No two blocks that coalescing leaves are adjacent, if every request is for at *)
(* least one address.                                                            *)
THEOREM NothingLeftToCoalesce == ASSUME AtLeastOne PROVE Spec => CoalesceMergesAll
<1>1. MMUInv => [Coalesce => FullyMerged(freelist')]_vars
  BY CoalesceResult
<1>2. Spec => []MMUInv
  BY AtLeastOne, MMUInvariant
<1> QED
  BY <1>1, <1>2, PTL DEF CoalesceMergesAll

=============================================================================
