-------------------------- MODULE ListServerProofs ---------------------------
(***************************************************************************)
(* The theorems about the lists and the server of lab 4, for any clients,  *)
(* any commands and any number of them.                                    *)
(*                                                                         *)
(* First the pointers: a list is Linked along a chain, a sequence of       *)
(* distinct nodes, and every function of list.c puts one node into the     *)
(* chain or takes one out (PutNode, TakeNode).  So it puts one element     *)
(* into the sequence of elements or takes one out, which is what           *)
(* RemoteList promises.                                                    *)
(*                                                                         *)
(* Then the messages: the last command of a client is in one of four       *)
(* phases (Phases of ListServer), and each step takes it to the next.      *)
(***************************************************************************)
EXTENDS TwoLists, FiniteSetTheorems, NaturalsInduction, WellFoundedInduction, SequenceTheorems, TLAPS

(* Least counterexamples: the proofs about Chain and NodeAt look for the first *)
(* index at which the walk goes wrong.                                         *)
LEMMA LeastNatural ==
  ASSUME NEW S \in SUBSET Nat, S # {}
  PROVE  \E n \in S : \A m \in S : n <= m
<1>1. PICK n \in S : \A m \in S : <<m, n>> \notin OpToRel(<, Nat)
  BY NatLessThanWellFounded, WFMin
<1>2. \A m \in S : ~(m < n)
  BY <1>1 DEF OpToRel
<1> QED
  BY <1>2

(* The i-th node of a chain c, and NULL behind its end. *)
Link(c, i) == IF i \in 1..Len(c) THEN c[i] ELSE Null

NodesOf(c) == {c[i] : i \in 1..Len(c)}

Chains == {c \in Seq(Nat \ {Null}) : \A i, j \in 1..Len(c) : c[i] = c[j] => i = j}

(* What the list's memory holds when its nodes are those of c, linked in this order. *)
Linked(l, c) ==
  /\ DOMAIN l = {"head", "length", "next", "value"}
  /\ DOMAIN l.next = NodesOf(c) /\ DOMAIN l.value = NodesOf(c)
  /\ l.head = Link(c, 1)
  /\ \A i \in 1..Len(c) : l.next[c[i]] = Link(c, i + 1) /\ l.value[c[i]] \in Int

ValuesAlong(l, c) == [i \in 1..Len(c) |-> l.value[c[i]]]

(* What a chain is, in the form the steps below use. *)
LEMMA ChainFacts ==
  ASSUME NEW c \in Chains
  PROVE  /\ c \in Seq(Nat \ {Null}) /\ Len(c) \in Nat /\ DOMAIN c = 1..Len(c)
         /\ c \in [1..Len(c) -> Nat \ {Null}]
         /\ \A i \in 1..Len(c) : c[i] \in Nat /\ c[i] # Null /\ c[i] \in NodesOf(c)
         /\ \A i, j \in 1..Len(c) : c[i] = c[j] => i = j
         /\ Null \notin NodesOf(c)
         /\ NodesOf(c) \subseteq Nat
<1>1. c \in Seq(Nat \ {Null}) /\ \A i, j \in 1..Len(c) : c[i] = c[j] => i = j
  BY DEF Chains
<1>2. Len(c) \in Nat /\ DOMAIN c = 1..Len(c) /\ c \in [1..Len(c) -> Nat \ {Null}]
  BY <1>1
<1>3. \A i \in 1..Len(c) : c[i] \in Nat /\ c[i] # Null
  BY <1>2
<1> QED
  BY <1>1, <1>2, <1>3 DEF NodesOf

(* A chain of n nodes takes n addresses. *)
LEMMA ChainCounted ==
  ASSUME NEW c \in Chains
  PROVE  IsFiniteSet(NodesOf(c)) /\ Cardinality(NodesOf(c)) = Len(c)
<1> DEFINE N == 1..Len(c)
<1>1. IsFiniteSet(N) /\ Cardinality(N) = Len(c)
  BY ChainFacts, FS_Interval
<1>2. c \in [N -> NodesOf(c)]
  BY ChainFacts
<1>3. \A a, b \in DOMAIN c : c[a] = c[b] => a = b
  BY ChainFacts
<1>4. \A t \in NodesOf(c) : \E s \in N : c[s] = t
  BY DEF NodesOf
<1> HIDE DEF N
<1>5. c \in Bijection(N, NodesOf(c))
  BY <1>2, <1>3, <1>4 DEF Bijection, Injection, Surjection, IsInjective
<1>6. ExistsBijection(N, NodesOf(c))
  BY <1>5 DEF ExistsBijection
<1> QED
  BY <1>1, <1>6, FS_Bijection

(* malloc returns an address that is not in use. *)
LEMMA FreshIsFree ==
  ASSUME NEW l, NEW c \in Chains, Linked(l, c)
  PROVE  Fresh(l) \in Nat \ {Null} /\ Fresh(l) \notin NodesOf(c)
<1>1. Allocated(l) = NodesOf(c)
  BY DEF Allocated, Linked
<1>2. Len(c) \in Nat /\ Cardinality(NodesOf(c)) = Len(c) /\ IsFiniteSet(NodesOf(c))
  BY ChainFacts, ChainCounted
<1> DEFINE S == 1..Len(c) + 1
<1>3. IsFiniteSet(S) /\ Cardinality(S) = Len(c) + 1
  BY <1>2, FS_Interval
<1> HIDE DEF S
<1>4. ~(S \subseteq NodesOf(c))
  BY <1>2, <1>3, FS_Subset
<1>5. \E n \in S : n \notin NodesOf(c)
  BY <1>4
<1>6. Fresh(l) = CHOOSE n \in S : n \notin NodesOf(c)
  BY <1>1, <1>2 DEF Fresh, S
<1>7. Fresh(l) \in S /\ Fresh(l) \notin NodesOf(c)
  BY <1>5, <1>6
<1> QED
  BY <1>2, <1>7 DEF S, Null

(* The chain found by following next is c: the recursive functions exist, and    *)
(* where they are right up to some hop they are right at the next.               *)
LEMMA ChainIs ==
  ASSUME NEW l, NEW c \in Chains, Linked(l, c)
  PROVE  Chain(l) = c
<1> DEFINE n == Len(c)
           Walks(at) == at = [i \in 1..n + 1 |-> IF i = 1 THEN l.head
                                               ELSE IF at[i - 1] \in NodesOf(c) THEN l.next[at[i - 1]] ELSE Null]
           found == CHOOSE at : Walks(at)
           good == [i \in 1..n + 1 |-> Link(c, i)]
<1>0. /\ n \in Nat /\ DOMAIN c = 1..n
      /\ \A i \in 1..n : c[i] # Null /\ c[i] \in NodesOf(c)
      /\ Null \notin NodesOf(c)
  BY ChainFacts
<1>1. Allocated(l) = NodesOf(c) /\ Cardinality(NodesOf(c)) = n
  BY ChainCounted DEF Allocated, Linked
<1>2. l.head = Link(c, 1) /\ \A i \in 1..n : l.next[c[i]] = Link(c, i + 1)
  BY DEF Linked
<1>3. Chain(l) = [i \in {i \in DOMAIN found : found[i] \in NodesOf(c)} |-> found[i]]
  BY <1>1 DEF Chain
<1>4. \A i \in 1..n : Link(c, i) = c[i]
  BY DEF Link
<1>5. Link(c, n + 1) = Null
  BY <1>0 DEF Link
<1> HIDE DEF n
<1>6. ASSUME NEW i \in 1..n + 1, i # 1
      PROVE  i - 1 \in 1..n /\ (i - 1) + 1 = i /\ i - 1 \in 1..n + 1
  BY <1>0, <1>6
<1>7. Walks(good)
  <2>1. ASSUME NEW i \in 1..n + 1
        PROVE good[i] = IF i = 1 THEN l.head
                        ELSE IF good[i - 1] \in NodesOf(c) THEN l.next[good[i - 1]] ELSE Null
    <3>1. CASE i = 1
      BY <1>2, <3>1
    <3>2. CASE i # 1
      <4>1. good[i - 1] = c[i - 1] /\ c[i - 1] \in NodesOf(c) /\ l.next[c[i - 1]] = Link(c, i)
        BY <1>0, <1>2, <1>4, <1>6, <3>2
      <4> QED
        BY <3>2, <4>1
    <3> QED
      BY <3>1, <3>2
  <2> QED
    BY <2>1
<1>8. Walks(found)
  BY <1>7
<1> HIDE DEF good, found
<1>9. DOMAIN found = 1..n + 1
  BY <1>8
<1>10. found[1] = l.head /\ \A i \in 1..n + 1 : i # 1 =>
         found[i] = IF found[i - 1] \in NodesOf(c) THEN l.next[found[i - 1]] ELSE Null
  BY <1>0, <1>8
<1> HIDE DEF Walks
<1> DEFINE bad == {i \in 1..n + 1 : found[i] # Link(c, i)}
<1>11. ASSUME bad # {} PROVE FALSE
  <2>1. bad \in SUBSET Nat
    BY <1>0
  <2>2. PICK k \in bad : \A i \in bad : k <= i
    BY <1>11, <2>1, LeastNatural
  <2>3. k # 1
    BY <1>2, <1>10, <2>2
  <2>4. k - 1 \in 1..n + 1 /\ ~(k <= k - 1) /\ k - 1 \in 1..n
    BY <1>0, <1>6, <2>2, <2>3
  <2>5. found[k - 1] = c[k - 1]
    BY <1>4, <2>2, <2>4
  <2>6. found[k] = Link(c, k)
    BY <1>0, <1>2, <1>6, <1>10, <2>2, <2>3, <2>4, <2>5
  <2> QED
    BY <2>2, <2>6
<1>12. \A i \in 1..n + 1 : found[i] = Link(c, i)
  BY <1>11
<1> HIDE DEF bad
<1>13. {i \in DOMAIN found : found[i] \in NodesOf(c)} = 1..n
  <2>1. \A i \in 1..n : i \in DOMAIN found /\ found[i] = c[i]
    BY <1>0, <1>4, <1>9, <1>12
  <2>2. found[n + 1] = Null
    BY <1>0, <1>5, <1>12
  <2>3. \A i \in 1..n + 1 : i \in 1..n \/ i = n + 1
    BY <1>0
  <2> QED
    BY <1>0, <1>9, <2>1, <2>2, <2>3
<1>14. Chain(l) = [i \in 1..n |-> found[i]]
  BY <1>3, <1>13
<1>15. \A i \in 1..n : found[i] = c[i]
  BY <1>0, <1>4, <1>12
<1>16. c = [i \in 1..n |-> c[i]]
  BY ChainFacts DEF n
<1> QED
  BY <1>14, <1>15, <1>16

(* Following next from the head, h times. *)
LEMMA NodeAtIs ==
  ASSUME NEW l, NEW c \in Chains, Linked(l, c), NEW h \in Nat, h < Len(c)
  PROVE  NodeAt(l, h) = c[h + 1]
<1> DEFINE Walks(at) == at = [i \in 0..h |-> IF i = 0 THEN l.head ELSE l.next[at[i - 1]]]
           found == CHOOSE at : Walks(at)
           good == [i \in 0..h |-> c[i + 1]]
<1>0. Len(c) \in Nat
  BY ChainFacts
<1>1. \A i \in 0..h : i + 1 \in 1..Len(c)
  BY <1>0
<1>2. l.head = c[1] /\ \A i \in 1..Len(c) : i + 1 \in 1..Len(c) => l.next[c[i]] = c[i + 1]
  BY <1>0, <1>1 DEF Linked, Link
<1>3. ASSUME NEW i \in 0..h, i # 0 PROVE i - 1 \in 0..h /\ (i - 1) + 1 = i /\ i \in 1..Len(c)
  BY <1>0, <1>3
<1>4. NodeAt(l, h) = found[h]
  BY DEF NodeAt
<1>5. Walks(good)
  <2>1. ASSUME NEW i \in 0..h
        PROVE  good[i] = IF i = 0 THEN l.head ELSE l.next[good[i - 1]]
    <3>1. CASE i = 0
      BY <1>2, <3>1
    <3>2. CASE i # 0
      <4>1. good[i - 1] = c[i] /\ l.next[c[i]] = c[i + 1]
        BY <1>1, <1>2, <1>3, <3>2
      <4> QED
        BY <3>2, <4>1
    <3> QED
      BY <3>1, <3>2
  <2> QED
    BY <2>1
<1>6. Walks(found)
  BY <1>5
<1> HIDE DEF good, found
<1>7. found[0] = l.head /\ \A i \in 0..h : i # 0 => found[i] = l.next[found[i - 1]]
  BY <1>6
<1> HIDE DEF Walks
<1> DEFINE bad == {i \in 0..h : found[i] # c[i + 1]}
<1>8. ASSUME bad # {} PROVE FALSE
  <2>1. bad \in SUBSET Nat
    OBVIOUS
  <2>2. PICK k \in bad : \A i \in bad : k <= i
    BY <1>8, <2>1, LeastNatural
  <2>3. k # 0
    BY <1>2, <1>7, <2>2
  <2>4. k - 1 \in 0..h /\ ~(k <= k - 1) /\ (k - 1) + 1 = k /\ k \in 1..Len(c)
    BY <1>3, <2>2, <2>3
  <2>5. found[k - 1] = c[k]
    BY <2>2, <2>4
  <2>6. found[k] = c[k + 1]
    BY <1>1, <1>2, <1>7, <2>2, <2>3, <2>4, <2>5
  <2> QED
    BY <2>2, <2>6
<1> QED
  BY <1>4, <1>8

-----------------------------------------------------------------------------
(* m is l with b put in as the k-th element. *)
Inserted(l, k, b, m) ==
  /\ k \in 1..(Len(l) + 1) /\ Len(m) = Len(l) + 1
  /\ \A i \in 1..(Len(l) + 1) : m[i] = IF i < k THEN l[i] ELSE IF i = k THEN b ELSE l[i - 1]

(* What the elements are, once the chain is known. *)
LEMMA ElementsAre ==
  ASSUME NEW l, NEW c \in Chains, Linked(l, c)
  PROVE  /\ Elements(l) = ValuesAlong(l, c)
         /\ Elements(l) \in Seq(Int) /\ Len(Elements(l)) = Len(c)
         /\ \A i \in 1..Len(c) : Elements(l)[i] = l.value[c[i]] /\ l.value[c[i]] \in Int
<1>1. Len(c) \in Nat /\ DOMAIN c = 1..Len(c)
  BY ChainFacts
<1>2. Elements(l) = [i \in 1..Len(c) |-> l.value[c[i]]]
  BY <1>1, ChainIs DEF Elements
<1>3. \A i \in 1..Len(c) : l.value[c[i]] \in Int
  BY DEF Linked
<1>4. ValuesAlong(l, c) = [i \in 1..Len(c) |-> l.value[c[i]]]
  BY DEF ValuesAlong
<1>5. ValuesAlong(l, c) \in [1..Len(c) -> Int]
  BY <1>3, <1>4
<1>6. ValuesAlong(l, c) \in Seq(Int) /\ Len(ValuesAlong(l, c)) = Len(c)
  BY <1>1, <1>5
<1> QED
  BY <1>2, <1>3, <1>4, <1>6

(* The loops that look for the last node and for the one before it find them. *)
LEMMA LastNodeIs ==
  ASSUME NEW l, NEW c \in Chains, Linked(l, c), Len(c) # 0
  PROVE  LastNode(l) = c[Len(c)]
<1> DEFINE n == Len(c)
<1>0. n \in Nat /\ n \in 1..n /\ ~(n + 1 \in 1..n) /\ (\A i \in 1..n : c[i] # Null /\ c[i] \in NodesOf(c))
  BY ChainFacts
<1> HIDE DEF n
<1>1. ASSUME NEW i \in 1..n, i # n PROVE i + 1 \in 1..n
  BY <1>0, <1>1
<1>2. Allocated(l) = NodesOf(c) /\ \A i \in 1..n : l.next[c[i]] = IF i + 1 \in 1..n THEN c[i + 1] ELSE Null
  BY DEF Linked, Link, Allocated, n
<1>3. c[n] \in Allocated(l) /\ l.next[c[n]] = Null
  BY <1>0, <1>2
<1>4. ASSUME NEW a \in Allocated(l), l.next[a] = Null PROVE a = c[n]
  <2>1. PICK i \in 1..n : a = c[i]
    BY <1>2 DEF NodesOf, n
  <2>2. CASE i # n
    BY <1>0, <1>1, <1>2, <1>4, <2>1, <2>2
  <2> QED
    BY <2>1, <2>2
<1> QED
  BY <1>3, <1>4 DEF LastNode, n

(* The loop of list_remove_from_back stops at the node before the last. *)
LEMMA LastButOneIs ==
  ASSUME NEW l, NEW c \in Chains, Linked(l, c), Len(c) > 1
  PROVE  LastButOne(l) = c[Len(c) - 1]
<1> DEFINE n == Len(c)
<1>0. /\ n \in Nat /\ n > 1 /\ ~(n + 1 \in 1..n) /\ n - 1 \in 1..n /\ (n - 1) + 1 = n /\ n \in 1..n
      /\ \A i \in 1..n : c[i] # Null /\ c[i] \in NodesOf(c)
      /\ \A i, j \in 1..n : c[i] = c[j] => i = j
  BY ChainFacts
<1>1. LastNode(l) = c[n]
  BY LastNodeIs, <1>0 DEF n
<1> HIDE DEF n
<1>2. Allocated(l) = NodesOf(c) /\ \A i \in 1..n : l.next[c[i]] = IF i + 1 \in 1..n THEN c[i + 1] ELSE Null
  BY DEF Linked, Link, Allocated, n
<1>3. c[n - 1] \in Allocated(l) /\ l.next[c[n - 1]] = c[n]
  BY <1>0, <1>2
<1>4. ASSUME NEW a \in Allocated(l), l.next[a] = c[n] PROVE a = c[n - 1]
  <2>1. PICK i \in 1..n : a = c[i]
    BY <1>2 DEF NodesOf, n
  <2>2. i + 1 \in 1..n /\ c[i + 1] = c[n]
    BY <1>0, <1>2, <1>4, <2>1
  <2>3. i + 1 = n
    BY <1>0, <2>2
  <2>4. i = n - 1
    BY <1>0, <2>3
  <2> QED
    BY <2>1, <2>4
<1> QED
  BY <1>1, <1>3, <1>4 DEF LastButOne, n

-----------------------------------------------------------------------------
(* Putting a fresh node into a chain as its k-th. *)
PutIn(c, k, n) == [i \in 1..Len(c) + 1 |-> IF i < k THEN c[i] ELSE IF i = k THEN n ELSE c[i - 1]]

(* The chain with a node put in, and the list of its values. *)
LEMMA PutInFacts ==
  ASSUME NEW c \in Chains, NEW k \in 1..Len(c) + 1, NEW n \in Nat \ {Null}, n \notin NodesOf(c)
  PROVE  /\ PutIn(c, k, n) \in Chains /\ Inserted(c, k, n, PutIn(c, k, n))
         /\ NodesOf(PutIn(c, k, n)) = NodesOf(c) \cup {n}
<1> DEFINE d == PutIn(c, k, n)
           N == Len(c)
<1>0. /\ N \in Nat /\ k \in 1..N + 1
      /\ \A i \in 1..N : c[i] \in Nat \ {Null} /\ c[i] \in NodesOf(c) /\ c[i] # n
      /\ \A i, j \in 1..N : c[i] = c[j] => i = j
  BY ChainFacts
<1>1. d = [i \in 1..N + 1 |-> IF i < k THEN c[i] ELSE IF i = k THEN n ELSE c[i - 1]]
  BY DEF PutIn
<1>2. NodesOf(c) = {c[i] : i \in 1..N}
  BY DEF NodesOf
<1> HIDE DEF N, d
<1>3. ASSUME NEW i \in 1..N + 1
      PROVE  /\ d[i] = IF i < k THEN c[i] ELSE IF i = k THEN n ELSE c[i - 1]
             /\ i < k => i \in 1..N
             /\ i > k => i - 1 \in 1..N
             /\ i < k \/ i = k \/ i > k
  BY <1>0, <1>1
<1>4. \A i \in 1..N + 1 : d[i] \in Nat \ {Null} /\ (d[i] \in NodesOf(c) \/ d[i] = n)
  BY <1>0, <1>3
<1>5. d \in [1..N + 1 -> Nat \ {Null}]
  BY <1>1, <1>4
<1>6. d \in Seq(Nat \ {Null}) /\ Len(d) = N + 1
  BY <1>0, <1>5
<1>7. ASSUME NEW i \in 1..N + 1, NEW j \in 1..N + 1, d[i] = d[j] PROVE i = j
  <2>1. CASE i < k
    <3>1. d[i] = c[i] /\ i \in 1..N
      BY <1>3, <2>1
    <3>2. CASE j < k
      BY <1>0, <1>3, <1>7, <3>1, <3>2
    <3>3. CASE j = k
      <4>1. d[j] = n
        BY <1>0, <1>3, <3>3
      <4> QED
        BY <1>0, <1>7, <3>1, <4>1
    <3>4. CASE j > k
      <4>1. d[j] = c[j - 1] /\ j - 1 \in 1..N
        BY <1>0, <1>3, <3>4
      <4>2. j - 1 = i
        BY <1>0, <1>7, <3>1, <4>1
      <4> QED
        BY <1>0, <2>1, <3>4, <4>2
    <3> QED
      BY <1>3, <3>2, <3>3, <3>4
  <2>2. CASE i = k
    BY <1>0, <1>3, <1>7, <2>2
  <2>3. CASE i > k
    <3>1. d[i] = c[i - 1] /\ i - 1 \in 1..N
      BY <1>0, <1>3, <2>3
    <3>2. CASE j < k
      <4>1. d[j] = c[j] /\ j \in 1..N
        BY <1>0, <1>3, <3>2
      <4>2. j = i - 1
        BY <1>0, <1>7, <3>1, <4>1
      <4> QED
        BY <1>0, <2>3, <3>2, <4>2
    <3>3. CASE j = k
      <4>1. d[j] = n
        BY <1>0, <1>3, <3>3
      <4> QED
        BY <1>0, <1>7, <3>1, <4>1
    <3>4. CASE j > k
      <4>1. d[j] = c[j - 1] /\ j - 1 \in 1..N
        BY <1>0, <1>3, <3>4
      <4>2. j - 1 = i - 1
        BY <1>0, <1>7, <3>1, <4>1
      <4> QED
        BY <1>0, <4>2
    <3> QED
      BY <1>3, <3>2, <3>3, <3>4
  <2> QED
    BY <1>3, <2>1, <2>2, <2>3
<1>8. d \in Chains
  BY <1>6, <1>7 DEF Chains
<1>9. Inserted(c, k, n, d)
  BY <1>0, <1>3, <1>6 DEF Inserted, N
<1>10. NodesOf(d) = NodesOf(c) \cup {n}
  <2>1. NodesOf(d) \subseteq NodesOf(c) \cup {n}
    BY <1>4, <1>6 DEF NodesOf
  <2>2. n \in NodesOf(d)
    BY <1>0, <1>3, <1>6 DEF NodesOf
  <2>3. ASSUME NEW i \in 1..N PROVE c[i] \in NodesOf(d)
    <3>1. CASE i < k
      <4>1. i \in 1..N + 1 /\ d[i] = c[i]
        BY <1>0, <1>3, <3>1
      <4> QED
        BY <1>6, <4>1 DEF NodesOf
    <3>2. CASE ~(i < k)
      <4>1. i + 1 \in 1..N + 1 /\ ~(i + 1 < k) /\ i + 1 # k /\ (i + 1) - 1 = i
        BY <1>0, <3>2
      <4>2. d[i + 1] = c[i]
        BY <1>3, <4>1
      <4> QED
        BY <1>6, <4>1, <4>2 DEF NodesOf
    <3> QED
      BY <3>1, <3>2
  <2> QED
    BY <1>2, <2>1, <2>2, <2>3
<1> QED
  BY <1>8, <1>9, <1>10 DEF d

(* Taking the k-th node out of a chain. *)
TakeOut(c, k) == [i \in 1..Len(c) - 1 |-> IF i < k THEN c[i] ELSE c[i + 1]]

(* The chain with a node taken out. *)
LEMMA TakeOutFacts ==
  ASSUME NEW c \in Chains, NEW k \in 1..Len(c)
  PROVE  /\ TakeOut(c, k) \in Chains /\ Inserted(TakeOut(c, k), k, c[k], c)
         /\ NodesOf(TakeOut(c, k)) = NodesOf(c) \ {c[k]}
<1> DEFINE d == TakeOut(c, k)
           N == Len(c)
<1>0. /\ N \in Nat /\ N - 1 \in Nat /\ k \in 1..N
      /\ \A i \in 1..N : c[i] \in Nat \ {Null} /\ c[i] \in NodesOf(c)
      /\ \A i, j \in 1..N : c[i] = c[j] => i = j
  BY ChainFacts
<1>1. d = [i \in 1..N - 1 |-> IF i < k THEN c[i] ELSE c[i + 1]]
  BY DEF TakeOut
<1>2. NodesOf(c) = {c[i] : i \in 1..N}
  BY DEF NodesOf
<1> HIDE DEF N, d
<1>3. ASSUME NEW i \in 1..N - 1
      PROVE  d[i] = (IF i < k THEN c[i] ELSE c[i + 1]) /\ i \in 1..N /\ i + 1 \in 1..N
  BY <1>0, <1>1
<1>4. ASSUME NEW i \in 1..N - 1
      PROVE  d[i] \in Nat \ {Null} /\ d[i] \in NodesOf(c) /\ d[i] # c[k]
  <2>1. CASE i < k
    BY <1>0, <1>3, <2>1
  <2>2. CASE ~(i < k)
    <3>1. d[i] = c[i + 1] /\ i + 1 \in 1..N /\ i + 1 # k
      BY <1>0, <1>3, <2>2
    <3> QED
      BY <1>0, <3>1
  <2> QED
    BY <2>1, <2>2
<1>5. d \in [1..N - 1 -> Nat \ {Null}]
  BY <1>1, <1>4
<1>6. d \in Seq(Nat \ {Null}) /\ Len(d) = N - 1
  BY <1>0, <1>5
<1>7. ASSUME NEW i \in 1..N - 1, NEW j \in 1..N - 1, d[i] = d[j] PROVE i = j
  <2>1. CASE i < k
    BY <1>0, <1>3, <1>7, <2>1
  <2>2. CASE ~(i < k)
    BY <1>0, <1>3, <1>7, <2>2
  <2> QED
    BY <2>1, <2>2
<1>8. d \in Chains
  BY <1>6, <1>7 DEF Chains
<1>9. Inserted(d, k, c[k], c)
  <2>1. Len(d) + 1 = N /\ N = Len(c)
    BY <1>0, <1>6 DEF N
  <2>2. ASSUME NEW i \in 1..N, i < k PROVE c[i] = d[i]
    BY <1>0, <1>3, <2>2
  <2>3. ASSUME NEW i \in 1..N, i > k PROVE c[i] = d[i - 1]
    <3>1. i - 1 \in 1..N - 1 /\ ~(i - 1 < k) /\ (i - 1) + 1 = i
      BY <1>0, <2>3
    <3> QED
      BY <1>3, <3>1
  <2>4. \A i \in 1..N : i < k \/ i = k \/ i > k
    BY <1>0
  <2> QED
    BY <1>0, <2>1, <2>2, <2>3, <2>4 DEF Inserted
<1>10. NodesOf(d) = NodesOf(c) \ {c[k]}
  <2>1. NodesOf(d) \subseteq NodesOf(c) \ {c[k]}
    BY <1>4, <1>6 DEF NodesOf
  <2>2. ASSUME NEW i \in 1..N, c[i] # c[k] PROVE c[i] \in NodesOf(d)
    <3>1. CASE i < k
      <4>1. i \in 1..N - 1 /\ d[i] = c[i]
        BY <1>0, <1>3, <3>1
      <4> QED
        BY <1>6, <4>1 DEF NodesOf
    <3>2. CASE ~(i < k)
      <4>1. i # k
        BY <2>2
      <4>2. i - 1 \in 1..N - 1 /\ ~(i - 1 < k) /\ (i - 1) + 1 = i
        BY <1>0, <3>2, <4>1
      <4>3. d[i - 1] = c[i]
        BY <1>3, <4>2
      <4> QED
        BY <1>6, <4>2, <4>3 DEF NodesOf
    <3> QED
      BY <3>1, <3>2
  <2> QED
    BY <1>2, <2>1, <2>2
<1> QED
  BY <1>8, <1>9, <1>10 DEF d

-----------------------------------------------------------------------------
(* m is the list l with the chain c after a fresh node n with the value v was    *)
(* linked in as the k-th.                                                        *)
PutNode(l, c, k, n, v, m) ==
  /\ DOMAIN m = DOMAIN l
  /\ m.head = IF k = 1 THEN n ELSE l.head
  /\ DOMAIN m.next = NodesOf(c) \cup {n} /\ DOMAIN m.value = NodesOf(c) \cup {n}
  /\ m.next[n] = Link(c, k) /\ m.value[n] = v
  /\ \A i \in 1..Len(c) : /\ m.next[c[i]] = IF i = k - 1 THEN n ELSE Link(c, i + 1)
                          /\ m.value[c[i]] = l.value[c[i]]

(* A node that is linked in before the k-th makes the chain longer by that *)
(* node, and its value is inserted at k.                                   *)
LEMMA PutNodeLinks ==
  ASSUME NEW l, NEW c \in Chains, Linked(l, c), NEW k \in 1..Len(c) + 1,
         NEW n \in Nat \ {Null}, n \notin NodesOf(c), NEW v \in Int, NEW m, PutNode(l, c, k, n, v, m)
  PROVE  /\ Linked(m, PutIn(c, k, n))
         /\ Inserted(ValuesAlong(l, c), k, v, ValuesAlong(m, PutIn(c, k, n)))
<1> DEFINE d == PutIn(c, k, n)
           N == Len(c)
<1>0. /\ N \in Nat /\ k \in 1..N + 1 /\ Len(d) = N + 1 /\ NodesOf(d) = NodesOf(c) \cup {n}
      /\ \A i \in 1..N + 1 : d[i] = IF i < k THEN c[i] ELSE IF i = k THEN n ELSE c[i - 1]
  BY ChainFacts, PutInFacts DEF Inserted
<1>1. /\ DOMAIN l = {"head", "length", "next", "value"} /\ l.head = Link(c, 1)
      /\ \A i \in 1..N : l.value[c[i]] \in Int
  BY DEF Linked
<1>2. /\ DOMAIN m = DOMAIN l /\ m.head = IF k = 1 THEN n ELSE l.head
      /\ DOMAIN m.next = NodesOf(d) /\ DOMAIN m.value = NodesOf(d)
      /\ m.next[n] = Link(c, k) /\ m.value[n] = v
      /\ \A i \in 1..N : /\ m.next[c[i]] = IF i = k - 1 THEN n ELSE Link(c, i + 1)
                         /\ m.value[c[i]] = l.value[c[i]]
  BY <1>0 DEF PutNode
<1>3. /\ \A i : Link(c, i) = IF i \in 1..N THEN c[i] ELSE Null
      /\ \A i : Link(d, i) = IF i \in 1..N + 1 THEN d[i] ELSE Null
  BY <1>0 DEF Link
<1> HIDE DEF N, d
<1>4. m.head = Link(d, 1)
  <2>1. CASE k = 1
    <3>1. 1 \in 1..N + 1 /\ d[1] = n
      BY <1>0, <2>1
    <3> QED
      BY <1>2, <1>3, <2>1, <3>1
  <2>2. CASE k # 1
    <3>1. 1 \in 1..N /\ 1 \in 1..N + 1 /\ 1 < k
      BY <1>0, <2>2
    <3>2. d[1] = c[1] /\ Link(d, 1) = d[1] /\ Link(c, 1) = c[1]
      BY <1>0, <1>3, <3>1
    <3> QED
      BY <1>1, <1>2, <2>2, <3>2
  <2> QED
    BY <2>1, <2>2
<1>5. ASSUME NEW i \in 1..N + 1
      PROVE  /\ m.next[d[i]] = Link(d, i + 1)
             /\ m.value[d[i]] = IF i < k THEN l.value[c[i]] ELSE IF i = k THEN v ELSE l.value[c[i - 1]]
             /\ m.value[d[i]] \in Int
  <2>1. CASE i < k
    <3>1. d[i] = c[i] /\ i \in 1..N /\ i + 1 \in 1..N + 1
      BY <1>0, <2>1
    <3>2. m.value[d[i]] = l.value[c[i]] /\ m.value[d[i]] \in Int
      BY <1>1, <1>2, <3>1
    <3>3. CASE i = k - 1
      <4>1. d[i + 1] = n
        BY <1>0, <3>1, <3>3
      <4> QED
        BY <1>2, <1>3, <2>1, <3>1, <3>2, <3>3, <4>1
    <3>4. CASE i # k - 1
      <4>1. i + 1 < k /\ i + 1 \in 1..N
        BY <1>0, <2>1, <3>4
      <4>2. d[i + 1] = c[i + 1]
        BY <1>0, <3>1, <4>1
      <4> QED
        BY <1>2, <1>3, <2>1, <3>1, <3>2, <3>4, <4>1, <4>2
    <3> QED
      BY <3>3, <3>4
  <2>2. CASE i = k
    <3>1. d[i] = n
      BY <1>0, <2>2
    <3>2. CASE k = N + 1
      BY <1>0, <1>2, <1>3, <2>2, <3>1, <3>2
    <3>3. CASE k # N + 1
      <4>1. k \in 1..N /\ k + 1 \in 1..N + 1 /\ ~(k + 1 < k) /\ k + 1 # k /\ (k + 1) - 1 = k
        BY <1>0, <3>3
      <4>2. d[k + 1] = c[k]
        BY <1>0, <4>1
      <4> QED
        BY <1>0, <1>2, <1>3, <2>2, <3>1, <4>1, <4>2
    <3> QED
      BY <3>2, <3>3
  <2>3. CASE i > k
    <3>1. d[i] = c[i - 1] /\ i - 1 \in 1..N /\ i - 1 # k - 1 /\ (i - 1) + 1 = i /\ ~(i < k) /\ i # k
      BY <1>0, <2>3
    <3>2. m.value[d[i]] = l.value[c[i - 1]] /\ m.value[d[i]] \in Int
      BY <1>1, <1>2, <3>1
    <3>3. m.next[d[i]] = Link(c, i)
      BY <1>2, <3>1
    <3>4. CASE i = N + 1
      BY <1>0, <1>3, <3>1, <3>2, <3>3, <3>4
    <3>5. CASE i # N + 1
      <4>1. i \in 1..N /\ i + 1 \in 1..N + 1 /\ ~(i + 1 < k) /\ i + 1 # k /\ (i + 1) - 1 = i
        BY <1>0, <2>3, <3>5
      <4>2. d[i + 1] = c[i]
        BY <1>0, <4>1
      <4> QED
        BY <1>3, <3>1, <3>2, <3>3, <4>1, <4>2
    <3> QED
      BY <3>4, <3>5
  <2> QED
    BY <1>0, <2>1, <2>2, <2>3
<1>6. Linked(m, d)
  BY <1>0, <1>1, <1>2, <1>4, <1>5 DEF Linked
<1>7. Inserted(ValuesAlong(l, c), k, v, ValuesAlong(m, d))
  <2>1. /\ Len(ValuesAlong(l, c)) = N
        /\ \A i \in 1..N : ValuesAlong(l, c)[i] = l.value[c[i]]
    BY <1>0 DEF ValuesAlong, N
  <2>2. /\ Len(ValuesAlong(m, d)) = N + 1
        /\ \A i \in 1..N + 1 : ValuesAlong(m, d)[i] = m.value[d[i]]
    BY <1>0 DEF ValuesAlong
  <2>3. ASSUME NEW i \in 1..N + 1
        PROVE  ValuesAlong(m, d)[i] = IF i < k THEN ValuesAlong(l, c)[i]
                                      ELSE IF i = k THEN v ELSE ValuesAlong(l, c)[i - 1]
    <3>1. (i < k => i \in 1..N) /\ (~(i < k) /\ i # k => i - 1 \in 1..N)
      BY <1>0
    <3> QED
      BY <1>5, <2>1, <2>2, <3>1
  <2> QED
    BY <1>0, <2>1, <2>2, <2>3 DEF Inserted
<1> QED
  BY <1>6, <1>7 DEF d

(* m is the list l with the chain c after its k-th node was unlinked and freed. *)
TakeNode(l, c, k, m) ==
  /\ DOMAIN m = DOMAIN l
  /\ m.head = IF k = 1 THEN Link(c, 2) ELSE l.head
  /\ DOMAIN m.next = NodesOf(c) \ {c[k]} /\ DOMAIN m.value = NodesOf(c) \ {c[k]}
  /\ \A i \in 1..Len(c) : i # k => /\ m.next[c[i]] = Link(c, IF i = k - 1 THEN k + 1 ELSE i + 1)
                                   /\ m.value[c[i]] = l.value[c[i]]

(* A node that is unlinked and freed leaves the chain shorter by that node. *)
LEMMA TakeNodeLinks ==
  ASSUME NEW l, NEW c \in Chains, Linked(l, c), NEW k \in 1..Len(c), NEW m, TakeNode(l, c, k, m)
  PROVE  /\ Linked(m, TakeOut(c, k))
         /\ Inserted(ValuesAlong(m, TakeOut(c, k)), k, l.value[c[k]], ValuesAlong(l, c))
<1> DEFINE d == TakeOut(c, k)
           N == Len(c)
<1>0. /\ N \in Nat /\ k \in 1..N /\ Len(d) = N - 1 /\ NodesOf(d) = NodesOf(c) \ {c[k]}
      /\ \A i \in 1..N - 1 : d[i] = IF i < k THEN c[i] ELSE c[i + 1]
  <2>1. /\ Inserted(d, k, c[k], c) /\ NodesOf(d) = NodesOf(c) \ {c[k]} /\ N \in Nat /\ d \in Chains
    BY ChainFacts, TakeOutFacts
  <2>2. Len(d) \in Nat
    BY <2>1, ChainFacts
  <2>3. \A i \in 1..Len(c) - 1 : d[i] = IF i < k THEN c[i] ELSE c[i + 1]
    BY DEF TakeOut
  <2> QED
    BY <2>1, <2>2, <2>3 DEF Inserted
<1>1. /\ DOMAIN l = {"head", "length", "next", "value"} /\ l.head = Link(c, 1)
      /\ \A i \in 1..N : l.value[c[i]] \in Int
  BY DEF Linked
<1>2. /\ DOMAIN m = DOMAIN l /\ m.head = IF k = 1 THEN Link(c, 2) ELSE l.head
      /\ DOMAIN m.next = NodesOf(d) /\ DOMAIN m.value = NodesOf(d)
      /\ \A i \in 1..N : i # k => /\ m.next[c[i]] = Link(c, IF i = k - 1 THEN k + 1 ELSE i + 1)
                                  /\ m.value[c[i]] = l.value[c[i]]
  BY <1>0 DEF TakeNode
<1>3. /\ \A i : Link(c, i) = IF i \in 1..N THEN c[i] ELSE Null
      /\ \A i : Link(d, i) = IF i \in 1..N - 1 THEN d[i] ELSE Null
  BY <1>0 DEF Link
<1> HIDE DEF N, d
<1>4. m.head = Link(d, 1)
  <2>1. CASE k = 1
    <3>1. CASE N = 1
      BY <1>0, <1>2, <1>3, <2>1, <3>1
    <3>2. CASE N # 1
      <4>1. 2 \in 1..N /\ 1 \in 1..N - 1 /\ d[1] = c[2]
        BY <1>0, <2>1, <3>2
      <4> QED
        BY <1>2, <1>3, <2>1, <4>1
    <3> QED
      BY <3>1, <3>2
  <2>2. CASE k # 1
    <3>1. 1 \in 1..N /\ 1 \in 1..N - 1 /\ d[1] = c[1]
      BY <1>0, <2>2
    <3> QED
      BY <1>1, <1>2, <1>3, <2>2, <3>1
  <2> QED
    BY <2>1, <2>2
<1>5. ASSUME NEW i \in 1..N - 1
      PROVE  /\ m.next[d[i]] = Link(d, i + 1)
             /\ m.value[d[i]] = IF i < k THEN l.value[c[i]] ELSE l.value[c[i + 1]]
             /\ m.value[d[i]] \in Int
  <2>1. CASE i < k
    <3>1. d[i] = c[i] /\ i \in 1..N /\ i # k
      BY <1>0, <2>1
    <3>2. m.value[d[i]] = l.value[c[i]] /\ m.value[d[i]] \in Int
      BY <1>1, <1>2, <3>1
    <3>3. CASE i = k - 1
      <4>1. m.next[d[i]] = Link(c, k + 1) /\ i + 1 = k
        BY <1>0, <1>2, <3>1, <3>3
      <4>2. CASE k = N
        BY <1>0, <1>3, <2>1, <3>2, <4>1, <4>2
      <4>3. CASE k # N
        <5>1. k + 1 \in 1..N /\ k \in 1..N - 1 /\ d[k] = c[k + 1]
          BY <1>0, <4>3
        <5> QED
          BY <1>3, <2>1, <3>2, <4>1, <5>1
      <4> QED
        BY <4>2, <4>3
    <3>4. CASE i # k - 1
      <4>1. i + 1 < k /\ i + 1 \in 1..N /\ i + 1 \in 1..N - 1
        BY <1>0, <2>1, <3>4
      <4>2. d[i + 1] = c[i + 1] /\ m.next[d[i]] = Link(c, i + 1)
        BY <1>0, <1>2, <3>1, <3>4, <4>1
      <4> QED
        BY <1>3, <2>1, <3>2, <4>1, <4>2
    <3> QED
      BY <3>3, <3>4
  <2>2. CASE ~(i < k)
    <3>1. d[i] = c[i + 1] /\ i + 1 \in 1..N /\ i + 1 # k /\ i + 1 # k - 1
      BY <1>0, <2>2
    <3>2. /\ m.value[d[i]] = l.value[c[i + 1]] /\ m.value[d[i]] \in Int
          /\ m.next[d[i]] = Link(c, (i + 1) + 1)
      BY <1>1, <1>2, <3>1
    <3>3. CASE i = N - 1
      <4>1. ~((i + 1) + 1 \in 1..N) /\ ~(i + 1 \in 1..N - 1)
        BY <1>0, <3>3
      <4> QED
        BY <1>3, <2>2, <3>2, <4>1
    <3>4. CASE i # N - 1
      <4>1. (i + 1) + 1 \in 1..N /\ i + 1 \in 1..N - 1 /\ ~(i + 1 < k)
        BY <1>0, <2>2, <3>4
      <4>2. d[i + 1] = c[(i + 1) + 1]
        BY <1>0, <4>1
      <4> QED
        BY <1>3, <2>2, <3>2, <4>1, <4>2
    <3> QED
      BY <3>3, <3>4
  <2> QED
    BY <2>1, <2>2
<1>6. Linked(m, d)
  BY <1>0, <1>1, <1>2, <1>4, <1>5 DEF Linked
<1>7. Inserted(ValuesAlong(m, d), k, l.value[c[k]], ValuesAlong(l, c))
  <2>1. /\ Len(ValuesAlong(l, c)) = N
        /\ \A i \in 1..N : ValuesAlong(l, c)[i] = l.value[c[i]]
    BY <1>0 DEF ValuesAlong, N
  <2>2. /\ Len(ValuesAlong(m, d)) = N - 1 /\ N - 1 + 1 = N
        /\ \A i \in 1..N - 1 : ValuesAlong(m, d)[i] = m.value[d[i]]
    BY <1>0 DEF ValuesAlong
  <2>3. ASSUME NEW i \in 1..N
        PROVE  ValuesAlong(l, c)[i] = IF i < k THEN ValuesAlong(m, d)[i]
                                      ELSE IF i = k THEN l.value[c[k]] ELSE ValuesAlong(m, d)[i - 1]
    <3>1. CASE i < k
      <4>1. i \in 1..N - 1
        BY <1>0, <3>1
      <4> QED
        BY <1>5, <2>1, <2>2, <3>1, <4>1
    <3>2. CASE i = k
      <4>1. ~(i < k) /\ ValuesAlong(l, c)[k] = l.value[c[k]]
        BY <1>0, <2>1, <3>2
      <4> QED
        BY <3>2, <4>1
    <3>3. CASE ~(i < k) /\ i # k
      <4>1. i - 1 \in 1..N - 1 /\ ~(i - 1 < k) /\ (i - 1) + 1 = i
        BY <1>0, <3>3
      <4>2. i \in 1..N /\ ValuesAlong(l, c)[i] = l.value[c[i]]
        BY <2>1
      <4>3. /\ ValuesAlong(m, d)[i - 1] = m.value[d[i - 1]]
            /\ m.value[d[i - 1]] = l.value[c[(i - 1) + 1]]
        BY <1>5, <2>2, <4>1
      <4> QED
        BY <3>3, <4>1, <4>2, <4>3
    <3> QED
      BY <3>1, <3>2, <3>3
  <2> QED
    BY <1>0, <2>1, <2>2, <2>3 DEF Inserted
<1> QED
  BY <1>6, <1>7 DEF d

-----------------------------------------------------------------------------
(* The list that the code keeps: linked, without a node lost, and counted. *)
WellLinked(l) == Chain(l) \in Chains /\ Linked(l, Chain(l)) /\ l.length = Len(Chain(l))

(* A list linked along some chain is well linked: Chain finds that chain. *)
LEMMA WellLinkedBy ==
  ASSUME NEW l, NEW c \in Chains, Linked(l, c), l.length = Len(c)
  PROVE  WellLinked(l)
BY ChainIs DEF WellLinked

(* What a well linked list is: its length is that of its chain, its elements *)
(* are the values along it.                                                  *)
LEMMA WellLinkedFacts ==
  ASSUME NEW l, WellLinked(l)
  PROVE  /\ Elements(l) \in Seq(Int) /\ l.length = Len(Elements(l)) /\ l.length \in Nat
         /\ Len(Chain(l)) = Len(Elements(l))
         /\ (l.head = Null) <=> (Elements(l) = <<>>)
         /\ \A i \in 1..Len(Elements(l)) : Elements(l)[i] = l.value[Chain(l)[i]]
<1>1. Chain(l) \in Chains /\ Linked(l, Chain(l)) /\ l.length = Len(Chain(l))
  BY DEF WellLinked
<1>2. Elements(l) \in Seq(Int) /\ Len(Elements(l)) = Len(Chain(l))
      /\ \A i \in 1..Len(Chain(l)) : Elements(l)[i] = l.value[Chain(l)[i]]
  BY <1>1, ElementsAre
<1>3. l.head = Link(Chain(l), 1)
  BY <1>1 DEF Linked
<1>4. Len(Chain(l)) \in Nat /\ \A i \in 1..Len(Chain(l)) : Chain(l)[i] # Null
  BY <1>1, ChainFacts
<1>5. (l.head = Null) <=> (Len(Chain(l)) = 0)
  <2>1. (1 \in 1..Len(Chain(l))) <=> (Len(Chain(l)) # 0)
    BY <1>4
  <2> QED
    BY <1>3, <1>4, <2>1 DEF Link
<1>6. (Elements(l) = <<>>) <=> (Len(Elements(l)) = 0)
  BY <1>2, EmptySeq
<1> QED
  BY <1>1, <1>2, <1>4, <1>5, <1>6

(* A chain that is followed to the end, with the right count: what ListIsSound asks. *)
LEMMA WellLinkedIsSound ==
  ASSUME NEW l, WellLinked(l)
  PROVE  ListIsSound(l)
<1> DEFINE c == Chain(l)
<1>1. c \in Chains /\ Linked(l, c) /\ l.length = Len(c)
  BY DEF WellLinked
<1> HIDE DEF c
<1>2. Allocated(l) = NodesOf(c) /\ Cardinality(Allocated(l)) = Len(c) /\ DOMAIN c = 1..Len(c)
  BY <1>1, ChainCounted, ChainFacts DEF Linked, Allocated
<1>3. {c[i] : i \in DOMAIN c} = Allocated(l)
  BY <1>2 DEF NodesOf
<1>4. ASSUME NEW n \in Allocated(l) PROVE l.next[n] \in Allocated(l) \cup {Null}
  <2>1. PICK i \in 1..Len(c) : n = c[i]
    BY <1>2 DEF NodesOf
  <2>2. l.next[n] = Link(c, i + 1)
    BY <1>1, <2>1 DEF Linked
  <2> QED
    BY <1>2, <2>2 DEF Link, NodesOf
<1> QED
  BY <1>1, <1>2, <1>3, <1>4 DEF ListIsSound, c

(* list_alloc. *)
LEMMA EmptyListWellLinked == WellLinked(EmptyList) /\ Elements(EmptyList) = <<>>
<1>1. <<>> \in Seq(Nat \ {Null}) /\ Len(<<>>) = 0 /\ 1..0 = {} /\ DOMAIN <<>> = {}
  OBVIOUS
<1>2. <<>> \in Chains /\ NodesOf(<<>>) = {}
  BY <1>1 DEF Chains, NodesOf
<1>3. Link(<<>>, 1) = Null
  BY <1>1 DEF Link
<1>4. Linked(EmptyList, <<>>) /\ EmptyList.length = Len(<<>>)
  BY <1>1, <1>2, <1>3 DEF Linked, EmptyList
<1>5. WellLinked(EmptyList)
  BY <1>2, <1>4, WellLinkedBy
<1>6. Elements(EmptyList) \in Seq(Int) /\ Len(Elements(EmptyList)) = 0
  BY <1>1, <1>2, <1>4, ElementsAre
<1> QED
  BY <1>5, <1>6, EmptySeq

-----------------------------------------------------------------------------
(* m holds the elements of l and v as the k-th; or those of l without its k-th, v. *)
Adds(l, k, v, m)  == WellLinked(m) /\ Inserted(Elements(l), k, v, Elements(m))
Takes(l, k, v, m) == WellLinked(m) /\ Inserted(Elements(m), k, v, Elements(l))

(* The counter of a list is apart from its nodes. *)
LEMMA CountedFacts ==
  ASSUME NEW m, DOMAIN m = {"head", "length", "next", "value"}, NEW by
  PROVE  /\ DOMAIN Counted(m, by) = {"head", "length", "next", "value"}
         /\ Counted(m, by).head = m.head /\ Counted(m, by).next = m.next
         /\ Counted(m, by).value = m.value /\ Counted(m, by).length = m.length + by
BY DEF Counted

(* Putting in a node and counting it adds an element to a well linked list. *)
LEMMA PutNodeAdds ==
  ASSUME NEW l, WellLinked(l), NEW k \in 1..Len(Chain(l)) + 1, NEW v \in Int, NEW m,
         PutNode(l, Chain(l), k, Fresh(l), v, m), m.length = l.length
  PROVE  Adds(l, k, v, Counted(m, 1))
<1> DEFINE c == Chain(l)
           n == Fresh(l)
           d == PutIn(c, k, n)
           counted == Counted(m, 1)
<1>1. c \in Chains /\ Linked(l, c) /\ l.length = Len(c)
  BY DEF WellLinked
<1>2. k \in 1..Len(c) + 1 /\ PutNode(l, c, k, n, v, m)
  OBVIOUS
<1> HIDE DEF c
<1>3. n \in Nat \ {Null} /\ n \notin NodesOf(c)
  BY <1>1, FreshIsFree
<1> HIDE DEF n
<1>4. d \in Chains /\ Len(d) = Len(c) + 1
  BY <1>1, <1>2, <1>3, PutInFacts DEF Inserted
<1>5. Linked(m, d) /\ Inserted(ValuesAlong(l, c), k, v, ValuesAlong(m, d))
  BY <1>1, <1>2, <1>3, PutNodeLinks
<1> HIDE DEF d
<1>6. DOMAIN m = {"head", "length", "next", "value"}
  BY <1>5 DEF Linked
<1>7. /\ DOMAIN counted = {"head", "length", "next", "value"} /\ counted.head = m.head
      /\ counted.next = m.next /\ counted.value = m.value /\ counted.length = m.length + 1
  BY <1>6, CountedFacts
<1> HIDE DEF counted
<1>8. Linked(counted, d) /\ ValuesAlong(counted, d) = ValuesAlong(m, d)
  BY <1>5, <1>7 DEF Linked, ValuesAlong
<1>9. Elements(l) = ValuesAlong(l, c) /\ Elements(counted) = ValuesAlong(counted, d)
  BY <1>1, <1>4, <1>8, ElementsAre
<1>10. WellLinked(counted)
  BY <1>1, <1>4, <1>7, <1>8, WellLinkedBy
<1> QED
  BY <1>5, <1>8, <1>9, <1>10 DEF Adds, counted

(* Taking out a node and counting it takes an element away. *)
LEMMA TakeNodeTakes ==
  ASSUME NEW l, WellLinked(l), NEW k \in 1..Len(Chain(l)), NEW m,
         TakeNode(l, Chain(l), k, m), m.length = l.length
  PROVE  Takes(l, k, l.value[Chain(l)[k]], Counted(m, -1))
<1> DEFINE c == Chain(l)
           d == TakeOut(c, k)
           counted == Counted(m, -1)
<1>1. c \in Chains /\ Linked(l, c) /\ l.length = Len(c)
  BY DEF WellLinked
<1>2. k \in 1..Len(c) /\ TakeNode(l, c, k, m)
  OBVIOUS
<1>3. Takes(l, k, l.value[c[k]], counted) => Takes(l, k, l.value[Chain(l)[k]], Counted(m, -1))
  OBVIOUS
<1> HIDE DEF c
<1>4. d \in Chains /\ Len(c) = Len(d) + 1
  BY <1>1, <1>2, TakeOutFacts DEF Inserted
<1>5. Linked(m, d) /\ Inserted(ValuesAlong(m, d), k, l.value[c[k]], ValuesAlong(l, c))
  BY <1>1, <1>2, TakeNodeLinks
<1> HIDE DEF d
<1>6. DOMAIN m = {"head", "length", "next", "value"} /\ Len(d) \in Nat
  BY <1>4, <1>5, ChainFacts DEF Linked
<1>7. /\ DOMAIN counted = {"head", "length", "next", "value"} /\ counted.head = m.head
      /\ counted.next = m.next /\ counted.value = m.value /\ counted.length = m.length + (-1)
  BY <1>6, CountedFacts
<1> HIDE DEF counted
<1>8. Linked(counted, d) /\ ValuesAlong(counted, d) = ValuesAlong(m, d)
  BY <1>5, <1>7 DEF Linked, ValuesAlong
<1>9. Elements(l) = ValuesAlong(l, c) /\ Elements(counted) = ValuesAlong(counted, d)
  BY <1>1, <1>4, <1>8, ElementsAre
<1>11. counted.length = Len(d)
  BY <1>1, <1>4, <1>6, <1>7
<1>10. WellLinked(counted)
  BY <1>4, <1>8, <1>11, WellLinkedBy
<1> QED
  BY <1>3, <1>5, <1>8, <1>9, <1>10 DEF Takes

-----------------------------------------------------------------------------
(* PutFirst and PutAfter put a fresh node in, TakeFirst and TakeAfter take one *)
(* out.                                                                        *)
LEMMA PutFirstPuts ==
  ASSUME NEW l, NEW c \in Chains, Linked(l, c), NEW v
  PROVE  PutNode(l, c, 1, Fresh(l), v, PutFirst(l, v)) /\ PutFirst(l, v).length = l.length
<1> DEFINE n == Fresh(l)
           m == PutFirst(l, v)
<1>1. n \notin NodesOf(c)
  BY FreshIsFree
<1>2. /\ DOMAIN l = {"head", "length", "next", "value"} /\ l.head = Link(c, 1)
      /\ DOMAIN l.next = NodesOf(c) /\ DOMAIN l.value = NodesOf(c)
      /\ \A i \in 1..Len(c) : l.next[c[i]] = Link(c, i + 1)
  BY DEF Linked
<1>3. /\ DOMAIN m = DOMAIN l /\ m.head = n /\ m.length = l.length
      /\ m.next = With(l.next, n, l.head) /\ m.value = With(l.value, n, v)
  BY <1>2 DEF PutFirst
<1> HIDE DEF n, m
<1>4. /\ DOMAIN m.next = NodesOf(c) \cup {n} /\ m.next[n] = l.head
      /\ \A a \in NodesOf(c) : m.next[a] = l.next[a]
  BY <1>1, <1>2, <1>3 DEF With
<1>5. /\ DOMAIN m.value = NodesOf(c) \cup {n} /\ m.value[n] = v
      /\ \A a \in NodesOf(c) : m.value[a] = l.value[a]
  BY <1>1, <1>2, <1>3 DEF With
<1>6. \A i \in 1..Len(c) : c[i] \in NodesOf(c) /\ i # 1 - 1
  BY ChainFacts
<1> QED
  BY <1>2, <1>3, <1>4, <1>5, <1>6 DEF PutNode, n, m

LEMMA PutAfterPuts ==
  ASSUME NEW l, NEW c \in Chains, Linked(l, c), NEW k \in 2..Len(c) + 1, NEW v
  PROVE  /\ PutNode(l, c, k, Fresh(l), v, PutAfter(l, c[k - 1], v))
         /\ PutAfter(l, c[k - 1], v).length = l.length
<1> DEFINE n == Fresh(l)
           p == c[k - 1]
           m == PutAfter(l, p, v)
<1>1. n \notin NodesOf(c)
  BY FreshIsFree
<1>2. /\ DOMAIN l = {"head", "length", "next", "value"} /\ l.head = Link(c, 1)
      /\ DOMAIN l.next = NodesOf(c) /\ DOMAIN l.value = NodesOf(c)
      /\ \A i \in 1..Len(c) : l.next[c[i]] = Link(c, i + 1)
  BY DEF Linked
<1>3. /\ DOMAIN m = DOMAIN l /\ m.head = l.head /\ m.length = l.length
      /\ m.next = With([l.next EXCEPT ![p] = n], n, l.next[p]) /\ m.value = With(l.value, n, v)
  BY <1>2 DEF PutAfter
<1>4. /\ Len(c) \in Nat /\ k - 1 \in 1..Len(c) /\ (k - 1) + 1 = k /\ k # 1
      /\ \A i \in 1..Len(c) : c[i] \in NodesOf(c)
      /\ \A i \in 1..Len(c) : c[i] = p => i = k - 1
  <2>1. Len(c) \in Nat /\ k - 1 \in 1..Len(c) /\ (k - 1) + 1 = k /\ k # 1
    BY ChainFacts
  <2> QED
    BY <2>1, ChainFacts
<1> HIDE DEF n, m
<1>5. p \in NodesOf(c) /\ l.next[p] = Link(c, k)
  BY <1>2, <1>4
<1> DEFINE f == [l.next EXCEPT ![p] = n]
<1>6. DOMAIN f = NodesOf(c) /\ \A a \in NodesOf(c) : f[a] = IF a = p THEN n ELSE l.next[a]
  BY <1>2
<1>7. m.next = With(f, n, Link(c, k))
  BY <1>3, <1>5
<1> HIDE DEF f
<1>8. /\ DOMAIN m.next = NodesOf(c) \cup {n} /\ m.next[n] = Link(c, k)
      /\ \A a \in NodesOf(c) : m.next[a] = f[a]
  BY <1>1, <1>6, <1>7 DEF With
<1>9. /\ DOMAIN m.value = NodesOf(c) \cup {n} /\ m.value[n] = v
      /\ \A a \in NodesOf(c) : m.value[a] = l.value[a]
  BY <1>1, <1>2, <1>3 DEF With
<1> HIDE DEF p
<1>10. ASSUME NEW i \in 1..Len(c)
       PROVE  /\ m.next[c[i]] = IF i = k - 1 THEN n ELSE Link(c, i + 1)
              /\ m.value[c[i]] = l.value[c[i]]
  <2>1. c[i] \in NodesOf(c) /\ (c[i] = p <=> i = k - 1)
    BY <1>4 DEF p
  <2>2. m.next[c[i]] = IF c[i] = p THEN n ELSE l.next[c[i]]
    BY <1>6, <1>8, <2>1
  <2> QED
    BY <1>2, <1>9, <2>1, <2>2
<1>11. PutNode(l, c, k, n, v, m)
  BY <1>3, <1>4, <1>8, <1>9, <1>10 DEF PutNode
<1> QED
  BY <1>3, <1>11 DEF n, m, p

(* free. *)
LEMMA WithoutFacts ==
  ASSUME NEW l, DOMAIN l = {"head", "length", "next", "value"}, NEW n
  PROVE  /\ DOMAIN Without(l, n) = {"head", "length", "next", "value"}
         /\ Without(l, n).head = l.head /\ Without(l, n).length = l.length
         /\ DOMAIN Without(l, n).next = DOMAIN l.next \ {n}
         /\ DOMAIN Without(l, n).value = DOMAIN l.value \ {n}
         /\ \A a \in DOMAIN l.next \ {n} : Without(l, n).next[a] = l.next[a]
         /\ \A a \in DOMAIN l.value \ {n} : Without(l, n).value[a] = l.value[a]
<1> DEFINE m == Without(l, n)
<1>1. /\ DOMAIN m = {"head", "length", "next", "value"} /\ m.head = l.head /\ m.length = l.length
      /\ m.next = [a \in DOMAIN l.next \ {n} |-> l.next[a]]
      /\ m.value = [a \in DOMAIN l.value \ {n} |-> l.value[a]]
  BY DEF Without
<1> HIDE DEF m
<1> QED
  BY <1>1 DEF m

LEMMA TakeFirstTakes ==
  ASSUME NEW l, NEW c \in Chains, Linked(l, c), Len(c) # 0
  PROVE  TakeNode(l, c, 1, TakeFirst(l)) /\ TakeFirst(l).length = l.length
<1> DEFINE n == l.head
           h == [l EXCEPT !.head = l.next[n]]
           m == Without(h, n)
<1>1. /\ DOMAIN l = {"head", "length", "next", "value"} /\ l.head = Link(c, 1)
      /\ DOMAIN l.next = NodesOf(c) /\ DOMAIN l.value = NodesOf(c)
      /\ \A i \in 1..Len(c) : l.next[c[i]] = Link(c, i + 1)
  BY DEF Linked
<1>2. /\ Len(c) \in Nat /\ 1 \in 1..Len(c) /\ \A i \in 1..Len(c) : c[i] \in NodesOf(c)
      /\ \A i, j \in 1..Len(c) : c[i] = c[j] => i = j
  BY ChainFacts
<1>3. n = c[1] /\ l.next[n] = Link(c, 2)
  BY <1>1, <1>2 DEF Link
<1>4. /\ DOMAIN h = {"head", "length", "next", "value"} /\ h.head = Link(c, 2)
      /\ h.length = l.length /\ h.next = l.next /\ h.value = l.value
  BY <1>1, <1>3
<1>5. TakeFirst(l) = m
  BY DEF TakeFirst
<1> HIDE DEF h
<1>6. /\ DOMAIN m = {"head", "length", "next", "value"} /\ m.head = h.head /\ m.length = h.length
      /\ DOMAIN m.next = DOMAIN h.next \ {n} /\ DOMAIN m.value = DOMAIN h.value \ {n}
      /\ \A a \in DOMAIN h.next \ {n} : m.next[a] = h.next[a]
      /\ \A a \in DOMAIN h.value \ {n} : m.value[a] = h.value[a]
  BY <1>4, WithoutFacts
<1> HIDE DEF m, n
<1>7. ASSUME NEW i \in 1..Len(c), i # 1
      PROVE  m.next[c[i]] = Link(c, i + 1) /\ m.value[c[i]] = l.value[c[i]] /\ i # 1 - 1
  <2>1. c[i] \in NodesOf(c) \ {n}
    BY <1>2, <1>3, <1>7
  <2> QED
    BY <1>1, <1>4, <1>6, <2>1
<1> QED
  BY <1>1, <1>3, <1>4, <1>5, <1>6, <1>7 DEF TakeNode

LEMMA TakeAfterTakes ==
  ASSUME NEW l, NEW c \in Chains, Linked(l, c), NEW k \in 2..Len(c)
  PROVE  /\ TakeNode(l, c, k, TakeAfter(l, c[k - 1]))
         /\ TakeAfter(l, c[k - 1]).length = l.length
<1> DEFINE p == c[k - 1]
           n == l.next[p]
           h == [l EXCEPT !.next[p] = l.next[n]]
           m == Without(h, n)
<1>1. /\ DOMAIN l = {"head", "length", "next", "value"} /\ l.head = Link(c, 1)
      /\ DOMAIN l.next = NodesOf(c) /\ DOMAIN l.value = NodesOf(c)
      /\ \A i \in 1..Len(c) : l.next[c[i]] = Link(c, i + 1)
  BY DEF Linked
<1>2. /\ Len(c) \in Nat /\ k \in 1..Len(c) /\ k # 1 /\ k - 1 \in 1..Len(c) /\ (k - 1) + 1 = k
      /\ \A i \in 1..Len(c) : c[i] \in NodesOf(c)
      /\ \A i, j \in 1..Len(c) : c[i] = c[j] => i = j
  <2>1. Len(c) \in Nat
    BY ChainFacts
  <2>2. k \in 1..Len(c) /\ k # 1 /\ k - 1 \in 1..Len(c) /\ (k - 1) + 1 = k
    BY <2>1
  <2> QED
    BY <2>1, <2>2, ChainFacts
<1>3. n = c[k] /\ l.next[n] = Link(c, k + 1) /\ p \in NodesOf(c)
  BY <1>1, <1>2 DEF Link
<1>4. /\ DOMAIN h = {"head", "length", "next", "value"} /\ h.head = l.head
      /\ h.length = l.length /\ h.next = [l.next EXCEPT ![p] = Link(c, k + 1)] /\ h.value = l.value
  BY <1>1, <1>3
<1>5. TakeAfter(l, p) = m
  BY DEF TakeAfter
<1> HIDE DEF h
<1>6. /\ DOMAIN m = {"head", "length", "next", "value"} /\ m.head = h.head /\ m.length = h.length
      /\ DOMAIN m.next = DOMAIN h.next \ {n} /\ DOMAIN m.value = DOMAIN h.value \ {n}
      /\ \A a \in DOMAIN h.next \ {n} : m.next[a] = h.next[a]
      /\ \A a \in DOMAIN h.value \ {n} : m.value[a] = h.value[a]
  BY <1>4, WithoutFacts
<1> HIDE DEF m, n
<1>7. DOMAIN h.next = NodesOf(c)
      /\ \A a \in NodesOf(c) : h.next[a] = IF a = p THEN Link(c, k + 1) ELSE l.next[a]
  BY <1>1, <1>4
<1>8. ASSUME NEW i \in 1..Len(c), i # k
      PROVE  /\ m.next[c[i]] = Link(c, IF i = k - 1 THEN k + 1 ELSE i + 1)
             /\ m.value[c[i]] = l.value[c[i]]
  <2>1. c[i] \in NodesOf(c) \ {n} /\ (c[i] = p <=> i = k - 1)
    BY <1>2, <1>3, <1>8
  <2>2. m.next[c[i]] = IF c[i] = p THEN Link(c, k + 1) ELSE l.next[c[i]]
    BY <1>6, <1>7, <2>1
  <2> QED
    BY <1>1, <1>4, <1>6, <2>1, <2>2
<1>9. TakeNode(l, c, k, m)
  BY <1>1, <1>2, <1>3, <1>4, <1>6, <1>7, <1>8 DEF TakeNode
<1> QED
  BY <1>4, <1>5, <1>6, <1>9

-----------------------------------------------------------------------------
(* What the functions of list.c do to the elements, for every list that is well  *)
(* linked and every index.                                                       *)
LEMMA AddToFrontAdds ==
  ASSUME NEW l, WellLinked(l), NEW v \in Int
  PROVE  Adds(l, 1, v, AddToFront(l, v))
<1>1. Chain(l) \in Chains /\ Linked(l, Chain(l)) /\ Len(Chain(l)) \in Nat
  BY ChainFacts DEF WellLinked
<1>2. 1 \in 1..Len(Chain(l)) + 1
  BY <1>1
<1> QED
  BY <1>1, <1>2, PutFirstPuts, PutNodeAdds DEF AddToFront

(* The operations that add, each on a well linked list: where the value goes. *)
LEMMA AddsBehind ==
  ASSUME NEW l, WellLinked(l), NEW k \in 2..Len(Chain(l)) + 1, NEW v \in Int
  PROVE  Adds(l, k, v, Counted(PutAfter(l, Chain(l)[k - 1], v), 1))
<1>1. Chain(l) \in Chains /\ Linked(l, Chain(l)) /\ Len(Chain(l)) \in Nat
  BY ChainFacts DEF WellLinked
<1>2. k \in 1..Len(Chain(l)) + 1
  BY <1>1
<1>3. PutNode(l, Chain(l), k, Fresh(l), v, PutAfter(l, Chain(l)[k - 1], v))
      /\ PutAfter(l, Chain(l)[k - 1], v).length = l.length
  BY <1>1, PutAfterPuts
<1> QED
  BY <1>2, <1>3, PutNodeAdds

LEMMA AddToBackAdds ==
  ASSUME NEW l, WellLinked(l), NEW v \in Int
  PROVE  Adds(l, Len(Elements(l)) + 1, v, AddToBack(l, v))
<1> DEFINE N == Len(Chain(l))
<1>1. /\ Chain(l) \in Chains /\ Linked(l, Chain(l)) /\ N \in Nat /\ N = Len(Elements(l))
      /\ (l.head = Null) <=> (Elements(l) = <<>>)
  BY ChainFacts, WellLinkedFacts DEF WellLinked
<1>2. CASE l.head = Null
  <2>1. AddToBack(l, v) = AddToFront(l, v)
    BY <1>2 DEF AddToBack, AddToFront
  <2>2. Len(Elements(l)) = 0
    BY <1>1, <1>2
  <2> QED
    BY <2>1, <2>2, AddToFrontAdds
<1>3. CASE l.head # Null
  <2>1. N # 0
    BY <1>1, <1>3, WellLinkedFacts, EmptySeq
  <2>2. LastNode(l) = Chain(l)[N]
    BY <1>1, <2>1, LastNodeIs
  <2>3. AddToBack(l, v) = Counted(PutAfter(l, Chain(l)[N], v), 1)
    BY <1>3, <2>2 DEF AddToBack
  <2>4. N + 1 \in 2..N + 1 /\ (N + 1) - 1 = N
    BY <1>1, <2>1
  <2>5. Adds(l, N + 1, v, Counted(PutAfter(l, Chain(l)[(N + 1) - 1], v), 1))
    BY <2>4, AddsBehind
  <2> QED
    BY <1>1, <2>3, <2>4, <2>5
<1> QED
  BY <1>2, <1>3

LEMMA AddAtIndexAdds ==
  ASSUME NEW l, WellLinked(l), NEW i \in Int, NEW v \in Int
  PROVE  IF i \in 0..Len(Elements(l)) THEN Adds(l, i + 1, v, AddAtIndex(l, i, v))
                                      ELSE AddAtIndex(l, i, v) = l
<1> DEFINE N == Len(Chain(l))
<1>1. /\ Chain(l) \in Chains /\ Linked(l, Chain(l)) /\ N \in Nat /\ N = Len(Elements(l))
      /\ l.length = N
  BY ChainFacts, WellLinkedFacts DEF WellLinked
<1>2. CASE i < 0 \/ i > N
  <2>1. ~(i \in 0..N) /\ AddAtIndex(l, i, v) = l
    BY <1>1, <1>2 DEF AddAtIndex
  <2> QED
    BY <1>1, <2>1
<1>3. CASE i = 0
  <2>1. i \in 0..N /\ i + 1 = 1 /\ AddAtIndex(l, i, v) = AddToFront(l, v)
    BY <1>1, <1>3 DEF AddAtIndex
  <2> QED
    BY <1>1, <2>1, AddToFrontAdds
<1>4. CASE i > 0 /\ i <= N
  <2>1. /\ i \in 0..N /\ i - 1 \in Nat /\ i - 1 < N /\ (i - 1) + 1 = i
        /\ i + 1 \in 2..N + 1 /\ (i + 1) - 1 = i
    BY <1>1, <1>4
  <2>2. NodeAt(l, i - 1) = Chain(l)[i]
    BY <1>1, <2>1, NodeAtIs
  <2>3. ~(i < 0 \/ i > N) /\ i # 0
    BY <1>1, <1>4
  <2>4. AddAtIndex(l, i, v) = Counted(PutAfter(l, Chain(l)[i], v), 1)
    BY <1>1, <2>2, <2>3 DEF AddAtIndex
  <2>5. Adds(l, i + 1, v, Counted(PutAfter(l, Chain(l)[(i + 1) - 1], v), 1))
    BY <2>1, AddsBehind
  <2> QED
    BY <1>1, <2>1, <2>4, <2>5
<1> QED
  BY <1>1, <1>2, <1>3, <1>4

(* The operations that remove: which element goes, and that its value is *)
(* returned.                                                             *)
LEMMA TakesFirst ==
  ASSUME NEW l, WellLinked(l), Elements(l) # <<>>
  PROVE  Takes(l, 1, l.value[l.head], Counted(TakeFirst(l), -1))
<1>1. /\ Chain(l) \in Chains /\ Linked(l, Chain(l)) /\ Len(Chain(l)) \in Nat
      /\ Len(Chain(l)) # 0 /\ 1 \in 1..Len(Chain(l))
  <2>1. Chain(l) \in Chains /\ Linked(l, Chain(l)) /\ Len(Chain(l)) \in Nat
    BY ChainFacts DEF WellLinked
  <2>2. Len(Chain(l)) # 0
    BY WellLinkedFacts, EmptySeq
  <2> QED
    BY <2>1, <2>2
<1>2. l.head = Chain(l)[1]
  BY <1>1 DEF Linked, Link
<1>3. TakeNode(l, Chain(l), 1, TakeFirst(l)) /\ TakeFirst(l).length = l.length
  BY <1>1, TakeFirstTakes
<1> QED
  BY <1>1, <1>2, <1>3, TakeNodeTakes

LEMMA TakesBehind ==
  ASSUME NEW l, WellLinked(l), NEW k \in 2..Len(Chain(l))
  PROVE  Takes(l, k, l.value[Chain(l)[k]], Counted(TakeAfter(l, Chain(l)[k - 1]), -1))
<1>1. Chain(l) \in Chains /\ Linked(l, Chain(l)) /\ Len(Chain(l)) \in Nat
  BY ChainFacts DEF WellLinked
<1>2. k \in 1..Len(Chain(l))
  BY <1>1
<1>3. TakeNode(l, Chain(l), k, TakeAfter(l, Chain(l)[k - 1]))
      /\ TakeAfter(l, Chain(l)[k - 1]).length = l.length
  BY <1>1, TakeAfterTakes
<1> QED
  BY <1>2, <1>3, TakeNodeTakes

(* What a function that removes returns: the list and the k-th element, or, for   *)
(* an element that does not exist, the list as it was and -1.                     *)
Removes(l, k, r) == IF k \in 1..Len(Elements(l)) THEN Takes(l, k, r.value, r.list)
                                                 ELSE r.list = l /\ r.value = -1

LEMMA RemoveFromFrontRemoves ==
  ASSUME NEW l, WellLinked(l)
  PROVE  Removes(l, 1, RemoveFromFront(l))
<1>1. Elements(l) \in Seq(Int) /\ ((l.head = Null) <=> (Elements(l) = <<>>))
  BY WellLinkedFacts
<1>2. CASE l.head = Null
  <2>1. ~(1 \in 1..Len(Elements(l)))
    BY <1>1, <1>2
  <2>2. RemoveFromFront(l) = [list |-> l, value |-> -1]
    BY <1>2 DEF RemoveFromFront, Nothing
  <2> QED
    BY <2>1, <2>2 DEF Removes
<1>3. CASE l.head # Null
  <2>1. Elements(l) # <<>> /\ 1 \in 1..Len(Elements(l))
    BY <1>1, <1>3, EmptySeq
  <2>2. RemoveFromFront(l) = [list |-> Counted(TakeFirst(l), -1), value |-> l.value[l.head]]
    BY <1>3 DEF RemoveFromFront
  <2> QED
    BY <2>1, <2>2, TakesFirst DEF Removes
<1> QED
  BY <1>2, <1>3

LEMMA RemoveFromBackRemoves ==
  ASSUME NEW l, WellLinked(l)
  PROVE  Removes(l, Len(Elements(l)), RemoveFromBack(l))
<1> DEFINE N == Len(Chain(l))
<1>1. /\ Chain(l) \in Chains /\ Linked(l, Chain(l)) /\ N \in Nat /\ N = Len(Elements(l))
      /\ Elements(l) \in Seq(Int) /\ ((l.head = Null) <=> (Elements(l) = <<>>))
      /\ \A i \in 1..N : Chain(l)[i] # Null
  BY ChainFacts, WellLinkedFacts DEF WellLinked
<1>2. CASE l.head = Null
  <2>1. ~(N \in 1..N)
    BY <1>1, <1>2
  <2>2. RemoveFromBack(l) = [list |-> l, value |-> -1]
    BY <1>2 DEF RemoveFromBack, Nothing
  <2> QED
    BY <1>1, <2>1, <2>2 DEF Removes
<1>3. ASSUME l.head # Null PROVE Elements(l) # <<>> /\ N # 0 /\ 1 \in 1..N /\ N \in 1..N
  BY <1>1, <1>3, EmptySeq
<1>4. ASSUME l.head # Null PROVE l.head = Chain(l)[1] /\ l.next[l.head] = Link(Chain(l), 2)
  BY <1>1, <1>3, <1>4 DEF Linked, Link
<1>5. CASE l.head # Null /\ N = 1
  <2>1. l.next[l.head] = Null
    BY <1>4, <1>5 DEF Link
  <2>2. RemoveFromBack(l) = [list |-> Counted(TakeFirst(l), -1), value |-> l.value[l.head]]
    BY <1>5, <2>1 DEF RemoveFromBack
  <2> QED
    BY <1>1, <1>3, <1>5, <2>2, TakesFirst DEF Removes
<1>6. CASE l.head # Null /\ N # 1
  <2>1. N > 1 /\ N \in 2..N /\ 2 \in 1..N /\ N \in 1..N /\ N # 0
    BY <1>1, <1>3, <1>6
  <2>2. l.next[l.head] # Null
    BY <1>1, <1>4, <1>6, <2>1 DEF Link
  <2>3. LastButOne(l) = Chain(l)[N - 1] /\ LastNode(l) = Chain(l)[N]
    BY <1>1, <2>1, LastButOneIs, LastNodeIs
  <2>4. RemoveFromBack(l)
          = [list |-> Counted(TakeAfter(l, Chain(l)[N - 1]), -1), value |-> l.value[Chain(l)[N]]]
    BY <1>6, <2>2, <2>3 DEF RemoveFromBack
  <2>5. Takes(l, N, l.value[Chain(l)[N]], Counted(TakeAfter(l, Chain(l)[N - 1]), -1))
    BY <2>1, TakesBehind
  <2> QED
    BY <1>1, <2>1, <2>4, <2>5 DEF Removes
<1> QED
  BY <1>2, <1>5, <1>6

LEMMA RemoveAtIndexRemoves ==
  ASSUME NEW l, WellLinked(l), NEW i \in Int
  PROVE  Removes(l, i + 1, RemoveAtIndex(l, i))
<1> DEFINE N == Len(Chain(l))
<1>1. /\ Chain(l) \in Chains /\ Linked(l, Chain(l)) /\ N \in Nat /\ N = Len(Elements(l))
      /\ l.length = N
  BY ChainFacts, WellLinkedFacts DEF WellLinked
<1>2. CASE i < 0 \/ i >= N
  <2>1. ~(i + 1 \in 1..N)
    BY <1>1, <1>2
  <2>2. RemoveAtIndex(l, i) = [list |-> l, value |-> -1]
    BY <1>1, <1>2 DEF RemoveAtIndex, Nothing
  <2> QED
    BY <1>1, <2>1, <2>2 DEF Removes
<1>3. CASE i = 0 /\ N # 0
  <2>1. RemoveAtIndex(l, i) = RemoveFromFront(l) /\ i + 1 = 1
    BY <1>1, <1>3 DEF RemoveAtIndex
  <2> QED
    BY <2>1, RemoveFromFrontRemoves
<1>4. CASE i > 0 /\ i < N
  <2>1. /\ i + 1 \in 2..N /\ i + 1 \in 1..N /\ (i + 1) - 1 = i /\ (i - 1) + 1 = i
        /\ i - 1 \in Nat /\ i - 1 < N /\ i \in Nat /\ ~(i < 0 \/ i >= N) /\ i # 0
    BY <1>1, <1>4
  <2>2. NodeAt(l, i - 1) = Chain(l)[i] /\ NodeAt(l, i) = Chain(l)[i + 1]
    BY <1>1, <1>4, <2>1, NodeAtIs
  <2>3. RemoveAtIndex(l, i)
          = [list |-> Counted(TakeAfter(l, Chain(l)[i]), -1), value |-> l.value[Chain(l)[i + 1]]]
    BY <1>1, <2>1, <2>2 DEF RemoveAtIndex
  <2>4. Takes(l, i + 1, l.value[Chain(l)[i + 1]], Counted(TakeAfter(l, Chain(l)[(i + 1) - 1]), -1))
    BY <2>1, TakesBehind
  <2> QED
    BY <1>1, <2>1, <2>3, <2>4 DEF Removes
<1> QED
  BY <1>1, <1>2, <1>3, <1>4

(* list_get_elem_at returns the element at an index of the list and -1 *)
(* elsewhere.                                                          *)
LEMMA GetElemAtGets ==
  ASSUME NEW l, WellLinked(l), NEW i \in Int
  PROVE  GetElemAt(l, i) = IF i + 1 \in 1..Len(Elements(l)) THEN Elements(l)[i + 1] ELSE -1
<1> DEFINE N == Len(Chain(l))
<1>1. /\ Chain(l) \in Chains /\ Linked(l, Chain(l)) /\ N \in Nat /\ N = Len(Elements(l))
      /\ l.length = N /\ \A j \in 1..N : Elements(l)[j] = l.value[Chain(l)[j]]
  BY ChainFacts, WellLinkedFacts DEF WellLinked
<1>2. CASE i < 0 \/ i >= N
  <2>1. ~(i + 1 \in 1..N) /\ GetElemAt(l, i) = -1
    BY <1>1, <1>2 DEF GetElemAt
  <2> QED
    BY <1>1, <2>1
<1>3. CASE ~(i < 0 \/ i >= N)
  <2>1. i + 1 \in 1..N /\ i \in Nat /\ i < N
    BY <1>1, <1>3
  <2>2. NodeAt(l, i) = Chain(l)[i + 1]
    BY <1>1, <2>1, NodeAtIs
  <2>3. GetElemAt(l, i) = l.value[Chain(l)[i + 1]]
    BY <1>1, <1>3, <2>2 DEF GetElemAt
  <2> QED
    BY <1>1, <2>1, <2>3
<1> QED
  BY <1>2, <1>3

-----------------------------------------------------------------------------
(* The sequences of RemoteList. *)
LEMMA SeqFacts ==
  ASSUME NEW S, NEW s \in Seq(S)
  PROVE  Len(s) \in Nat /\ DOMAIN s = 1..Len(s) /\ \A i \in 1..Len(s) : s[i] \in S
OBVIOUS

(* The operations RemoteList has on sequences insert and remove just so; the *)
(* two sequences are then the same.                                          *)
LEMMA InsertAtInserts ==
  ASSUME NEW S, NEW l \in Seq(S), NEW b \in S, NEW k \in 1..(Len(l) + 1)
  PROVE  Promised!InsertAt(l, k, b) \in Seq(S) /\ Inserted(l, k, b, Promised!InsertAt(l, k, b))
<1> DEFINE front == SubSeq(l, 1, k - 1)
           back == SubSeq(l, k, Len(l))
<1>0. Len(l) \in Nat /\ \A j \in 1..Len(l) : l[j] \in S
  BY SeqFacts
<1>1. front \in Seq(S) /\ Len(front) = k - 1 /\ \A j \in 1..(k - 1) : front[j] = l[j]
  BY <1>0, SubSeqProperties
<1>2. back \in Seq(S) /\ Len(back) = Len(l) + 1 - k
      /\ \A j \in 1..(Len(l) + 1 - k) : back[j] = l[k + j - 1]
  BY <1>0, SubSeqProperties
<1>3. Promised!InsertAt(l, k, b) = (front \o <<b>>) \o back
  BY DEF Promised!InsertAt
<1> HIDE DEF front, back
<1>4. <<b>> \in Seq(S) /\ Len(<<b>>) = 1 /\ <<b>>[1] = b
  OBVIOUS
<1> DEFINE start == front \o <<b>>
<1>5. start \in Seq(S) /\ Len(start) = k
      /\ \A j \in 1..k : start[j] = IF j < k THEN l[j] ELSE b
  BY <1>0, <1>1, <1>4, ConcatProperties
<1> HIDE DEF start
<1>6. k + (Len(l) + 1 - k) = Len(l) + 1
  BY <1>0
<1>7. /\ start \o back \in Seq(S) /\ Len(start \o back) = Len(l) + 1
      /\ \A j \in 1..(Len(l) + 1) :
           (start \o back)[j] = IF j <= k THEN start[j] ELSE back[j - k]
  <2>1. /\ start \o back \in Seq(S) /\ Len(start \o back) = k + (Len(l) + 1 - k)
        /\ \A j \in 1..(k + (Len(l) + 1 - k)) :
             (start \o back)[j] = IF j <= k THEN start[j] ELSE back[j - k]
    BY <1>2, <1>5, ConcatProperties
  <2> QED
    BY <1>6, <2>1
<1>8. \A j \in 1..(Len(l) + 1) :
        (start \o back)[j] = IF j < k THEN l[j] ELSE IF j = k THEN b ELSE l[j - 1]
  BY <1>0, <1>2, <1>5, <1>7
<1> QED
  BY <1>3, <1>7, <1>8 DEF Inserted, start

LEMMA RemoveAtRemoves ==
  ASSUME NEW S, NEW l \in Seq(S), NEW k \in 1..Len(l)
  PROVE  Promised!RemoveAt(l, k) \in Seq(S) /\ Inserted(Promised!RemoveAt(l, k), k, l[k], l)
<1> DEFINE front == SubSeq(l, 1, k - 1)
           back == SubSeq(l, k + 1, Len(l))
           rest == front \o back
<1>0. Len(l) \in Nat /\ \A j \in 1..Len(l) : l[j] \in S
  BY SeqFacts
<1>1. front \in Seq(S) /\ Len(front) = k - 1 /\ \A j \in 1..(k - 1) : front[j] = l[j]
  BY <1>0, SubSeqProperties
<1>2. back \in Seq(S) /\ Len(back) = Len(l) - k
      /\ \A j \in 1..(Len(l) - k) : back[j] = l[k + j]
  BY <1>0, SubSeqProperties
<1>3. Promised!RemoveAt(l, k) = rest
  BY DEF Promised!RemoveAt
<1> HIDE DEF front, back
<1>4. (k - 1) + (Len(l) - k) = Len(l) - 1
  BY <1>0
<1>5. /\ rest \in Seq(S) /\ Len(rest) = Len(l) - 1
      /\ \A j \in 1..(Len(l) - 1) : rest[j] = IF j <= k - 1 THEN front[j] ELSE back[j - (k - 1)]
  <2>1. rest \in Seq(S) /\ Len(rest) = Len(front) + Len(back)
    BY <1>1, <1>2, ConcatProperties
  <2>2. \A j \in 1..(Len(front) + Len(back)) :
          rest[j] = IF j <= Len(front) THEN front[j] ELSE back[j - Len(front)]
    BY <1>1, <1>2, ConcatProperties
  <2> QED
    BY <1>1, <1>2, <1>4, <2>1, <2>2
<1> HIDE DEF rest
<1>6. ASSUME NEW i \in 1..Len(l), i < k PROVE l[i] = rest[i]
  <2>1. i \in 1..(Len(l) - 1) /\ i <= k - 1 /\ i \in 1..(k - 1)
    BY <1>0, <1>6
  <2> QED
    BY <1>1, <1>5, <2>1
<1>7. ASSUME NEW i \in 1..Len(l), i > k PROVE l[i] = rest[i - 1]
  <2>1. /\ i - 1 \in 1..(Len(l) - 1) /\ ~(i - 1 <= k - 1)
        /\ (i - 1) - (k - 1) \in 1..(Len(l) - k) /\ k + ((i - 1) - (k - 1)) = i
    BY <1>0, <1>7
  <2>2. rest[i - 1] = back[(i - 1) - (k - 1)]
    BY <1>5, <2>1
  <2> QED
    BY <1>2, <2>1, <2>2
<1>8. Len(rest) + 1 = Len(l) /\ \A i \in 1..Len(l) : i < k \/ i = k \/ i > k
  BY <1>0, <1>5
<1>9. Inserted(rest, k, l[k], l)
  BY <1>0, <1>6, <1>7, <1>8 DEF Inserted
<1> QED
  BY <1>3, <1>5, <1>9

LEMMA SameLonger ==
  ASSUME NEW l \in Seq(Int), NEW s \in Seq(Int), NEW t \in Seq(Int), NEW k, NEW b,
         Inserted(l, k, b, s), Inserted(l, k, b, t)
  PROVE  s = t
<1>1. Len(l) \in Nat /\ Len(s) = Len(l) + 1 /\ Len(t) = Len(l) + 1
  BY SeqFacts DEF Inserted
<1>2. \A i \in 1..Len(s) : s[i] = t[i]
  BY <1>1 DEF Inserted
<1> QED
  BY <1>1, <1>2, SeqEqual

LEMMA SameShorter ==
  ASSUME NEW l \in Seq(Int), NEW s \in Seq(Int), NEW t \in Seq(Int), NEW k, NEW b, NEW d,
         Inserted(s, k, b, l), Inserted(t, k, d, l)
  PROVE  s = t /\ b = l[k]
<1>1. Len(s) \in Nat /\ Len(t) \in Nat /\ Len(l) = Len(s) + 1 /\ Len(l) = Len(t) + 1 /\ k \in 1..(Len(s) + 1)
  BY SeqFacts DEF Inserted
<1>2. Len(s) = Len(t)
  BY <1>1
<1>3. ASSUME NEW i \in 1..Len(s) PROVE s[i] = t[i]
  <2>1. CASE i < k
    <3>1. i \in 1..(Len(s) + 1) /\ i \in 1..(Len(t) + 1)
      BY <1>1, <1>2
    <3>2. l[i] = s[i]
      BY <2>1, <3>1 DEF Inserted
    <3>3. l[i] = t[i]
      BY <2>1, <3>1 DEF Inserted
    <3> QED
      BY <3>2, <3>3
  <2>2. CASE ~(i < k)
    <3>1. /\ i + 1 \in 1..(Len(s) + 1) /\ i + 1 \in 1..(Len(t) + 1)
          /\ ~(i + 1 < k) /\ i + 1 # k /\ (i + 1) - 1 = i
      BY <1>1, <1>2, <2>2
    <3>2. l[i + 1] = s[i]
      <4>1. l[i + 1] = s[(i + 1) - 1]
        BY <3>1 DEF Inserted
      <4> QED
        BY <3>1, <4>1
    <3>3. l[i + 1] = t[i]
      <4>1. l[i + 1] = t[(i + 1) - 1]
        BY <3>1 DEF Inserted
      <4> QED
        BY <3>1, <4>1
    <3> QED
      BY <3>2, <3>3
  <2> QED
    BY <2>1, <2>2
<1>4. b = l[k]
  BY <1>1 DEF Inserted
<1> QED
  BY <1>2, <1>3, <1>4, SeqEqual

LEMMA AppendInserts ==
  ASSUME NEW l \in Seq(Int), NEW b \in Int
  PROVE  Append(l, b) \in Seq(Int) /\ Inserted(l, Len(l) + 1, b, Append(l, b))
<1>1. Len(l) \in Nat
  BY SeqFacts
<1>2. /\ Append(l, b) \in Seq(Int) /\ Len(Append(l, b)) = Len(l) + 1
      /\ \A i \in 1..Len(l) : Append(l, b)[i] = l[i]
      /\ Append(l, b)[Len(l) + 1] = b
  BY AppendProperties
<1>3. \A i \in 1..(Len(l) + 1) : IF i < Len(l) + 1 THEN i \in 1..Len(l) ELSE i = Len(l) + 1
  BY <1>1
<1> QED
  BY <1>1, <1>2, <1>3 DEF Inserted

(* In the words of RemoteList. *)
LEMMA AddsInsertAt ==
  ASSUME NEW l, WellLinked(l), NEW v \in Int, NEW k \in 1..(Len(Elements(l)) + 1), NEW m, Adds(l, k, v, m)
  PROVE  WellLinked(m) /\ Elements(m) = Promised!InsertAt(Elements(l), k, v)
<1>1. /\ WellLinked(m) /\ Elements(m) \in Seq(Int) /\ Elements(l) \in Seq(Int)
      /\ Inserted(Elements(l), k, v, Elements(m))
  BY WellLinkedFacts DEF Adds
<1>2. /\ Promised!InsertAt(Elements(l), k, v) \in Seq(Int)
      /\ Inserted(Elements(l), k, v, Promised!InsertAt(Elements(l), k, v))
  BY <1>1, InsertAtInserts
<1> QED
  BY <1>1, <1>2, SameLonger

LEMMA AddsAppend ==
  ASSUME NEW l, WellLinked(l), NEW v \in Int, NEW m, Adds(l, Len(Elements(l)) + 1, v, m)
  PROVE  WellLinked(m) /\ Elements(m) = Append(Elements(l), v)
<1>1. /\ WellLinked(m) /\ Elements(m) \in Seq(Int) /\ Elements(l) \in Seq(Int)
      /\ Inserted(Elements(l), Len(Elements(l)) + 1, v, Elements(m))
  BY WellLinkedFacts DEF Adds
<1>2. /\ Append(Elements(l), v) \in Seq(Int)
      /\ Inserted(Elements(l), Len(Elements(l)) + 1, v, Append(Elements(l), v))
  BY <1>1, AppendInserts
<1> QED
  BY <1>1, <1>2, SameLonger

LEMMA TakesRemoveAt ==
  ASSUME NEW l, WellLinked(l), NEW k \in 1..Len(Elements(l)), NEW v, NEW m, Takes(l, k, v, m)
  PROVE  /\ WellLinked(m) /\ Elements(m) = Promised!RemoveAt(Elements(l), k)
         /\ v = Elements(l)[k] /\ v \in Int
<1>1. /\ WellLinked(m) /\ Elements(m) \in Seq(Int) /\ Elements(l) \in Seq(Int)
      /\ Inserted(Elements(m), k, v, Elements(l))
  BY WellLinkedFacts DEF Takes
<1>2. /\ Promised!RemoveAt(Elements(l), k) \in Seq(Int)
      /\ Inserted(Promised!RemoveAt(Elements(l), k), k, Elements(l)[k], Elements(l))
  BY <1>1, RemoveAtRemoves
<1>3. Elements(m) = Promised!RemoveAt(Elements(l), k) /\ v = Elements(l)[k]
  BY <1>1, <1>2, SameShorter
<1> QED
  BY <1>1, <1>3, SeqFacts

-----------------------------------------------------------------------------
(* What the phases do not say: the variables with an entry for each client. *)
PerClient == /\ DOMAIN pc = Clients /\ DOMAIN inbox = Clients /\ DOMAIN outbox = Clients
             /\ DOMAIN shown = Clients /\ DOMAIN asked = Clients

InStep == PerClient /\ Phases

USE DEF InStep, PerClient

(* A mailbox with one message. *)
LEMMA OneMessage ==
  ASSUME NEW x
  PROVE  /\ Append(<<>>, x) = <<x>> /\ Len(<<x>>) = 1 /\ <<x>> # <<>>
         /\ Head(<<x>>) = x /\ Tail(<<x>>) = <<>>
<1>1. x \in {x} /\ <<>> \in Seq({x}) /\ <<x>> \in Seq({x})
  OBVIOUS
<1> QED
  BY <1>1

(* The two commands that are not one of the list. *)
LEMMA ExitIsCommand == Exit \in Commands /\ Exit.name = "exit" /\ NoCommand.name = "none"
BY DEF Commands, Exit, NoCommand, Command

(* Before the first connection every client is quiet. *)
LEMMA InStepInit == Init => InStep
BY DEF Init, Phases, Quiet, Executing

(* A client whose mailboxes and program do not change stays in its phase, if the  *)
(* server starts or ends no command of its own and does not end.                  *)
LEMMA Untouched ==
  ASSUME NEW c \in Clients, Quiet(c) \/ Sent(c) \/ Served(c) \/ Answered(c),
         pc'[c] = pc[c], inbox'[c] = inbox[c], outbox'[c] = outbox[c],
         shown'[c] = shown[c], asked'[c] = asked[c],
         server' # "ended" \/ server = "ended", server # "ended" \/ server' = "ended",
         Executing(c)' <=> Executing(c), Executing(c) => buf' = buf
  PROVE  (Quiet(c) \/ Sent(c) \/ Served(c) \/ Answered(c))'
<1>1. CASE Quiet(c)
  BY <1>1 DEF Quiet
<1>2. CASE Sent(c)
  <2>1. PICK m \in Commands : inbox[c] = <<m>> /\ (pc[c] = "awaiting" => m.name = asked[c])
    BY <1>2 DEF Sent
  <2>2. Sent(c)'
    BY <1>2, <2>1 DEF Sent
  <2> QED
    BY <2>2
<1>3. CASE Served(c)
  BY <1>3 DEF Served
<1>4. CASE Answered(c)
  BY <1>4 DEF Answered
<1> QED
  BY <1>1, <1>2, <1>3, <1>4

(* A step of one client: the others are untouched. *)
LEMMA OtherClients ==
  ASSUME NEW c \in Clients, InStep, UNCHANGED <<server, clientSocket, buf>>,
         \A d \in Clients \ {c} : /\ pc'[d] = pc[d] /\ inbox'[d] = inbox[d] /\ outbox'[d] = outbox[d]
                                  /\ shown'[d] = shown[d] /\ asked'[d] = asked[d],
         (Quiet(c) \/ Sent(c) \/ Served(c) \/ Answered(c))'
  PROVE  Phases'
<1> SUFFICES ASSUME NEW d \in Clients, d # c
             PROVE  (Quiet(d) \/ Sent(d) \/ Served(d) \/ Answered(d))'
  BY DEF Phases
<1>1. Executing(d)' <=> Executing(d)
  BY DEF Executing
<1> QED
  BY <1>1, Untouched DEF Phases

-----------------------------------------------------------------------------
(* One lemma for each action: it takes its client to the next phase and leaves *)
(* the others in theirs.                                                       *)
LEMMA ConnectKeeps == ASSUME InStep, NEW c \in Clients, Connect(c) PROVE InStep'
<1>1. Quiet(c) /\ pc[c] = "outside"
  BY DEF Connect, Goto, Phases, Sent, Served, Answered
<1>2. PerClient'
  BY DEF Connect, Goto
<1>3. Quiet(c)'
  BY <1>1 DEF Connect, Goto, Quiet, Executing, serverVars
<1>4. Phases'
  BY <1>3, OtherClients DEF Connect, Goto, serverVars
<1> QED
  BY <1>2, <1>4

LEMMA SendKeeps == ASSUME InStep, NEW c \in Clients, Send(c) PROVE InStep'
<1>1. PICK command \in Commands :
        /\ pc[c] = "prompt"
        /\ pc' = [pc EXCEPT ![c] = IF command = Exit THEN "gone" ELSE "awaiting"]
        /\ inbox' = [inbox EXCEPT ![c] = Append(@, command)]
        /\ asked' = [asked EXCEPT ![c] = command.name]
  BY DEF Send, SendThen, Goto
<1>2. /\ server # "ended" /\ server' = server /\ clientSocket' = clientSocket /\ buf' = buf
      /\ outbox' = outbox /\ shown' = shown
  BY DEF Send, SendThen, serverVars
<1>3. Quiet(c)
  BY <1>1 DEF Phases, Sent, Served, Answered
<1>4. PerClient'
  BY <1>1, <1>2
<1>5. inbox'[c] = <<command>>
  BY <1>1, <1>3, OneMessage DEF Quiet
<1>6. Sent(c)'
  BY <1>1, <1>2, <1>3, <1>5 DEF Sent, Quiet, Executing
<1>7. Phases'
  BY <1>1, <1>2, <1>6, OtherClients
<1> QED
  BY <1>4, <1>7

LEMMA SendToNobodyKeeps == ASSUME InStep, NEW c \in Clients, SendToNobody(c) PROVE InStep'
<1>1. PICK to \in {"awaiting", "gone"} : pc[c] = "prompt" /\ pc' = [pc EXCEPT ![c] = to]
  BY DEF SendToNobody, Goto
<1>2. /\ server = "ended" /\ server' = server /\ clientSocket' = clientSocket /\ buf' = buf
      /\ inbox' = inbox /\ outbox' = outbox /\ shown' = shown /\ asked' = asked
  BY DEF SendToNobody, serverVars
<1>3. Quiet(c)
  BY <1>1 DEF Phases, Sent, Served, Answered
<1>4. Quiet(c)'
  BY <1>2, <1>3 DEF Quiet, Executing
<1>5. Phases'
  BY <1>1, <1>2, <1>4, OtherClients
<1> QED
  BY <1>1, <1>2, <1>5

LEMMA ReceiveKeeps == ASSUME InStep, NEW c \in Clients, Receive(c) PROVE InStep'
<1>1. /\ pc[c] = "awaiting" /\ outbox[c] # <<>> /\ pc' = [pc EXCEPT ![c] = "prompt"]
      /\ shown' = [shown EXCEPT ![c] = Head(outbox[c]).name]
      /\ outbox' = [outbox EXCEPT ![c] = Tail(@)]
  BY DEF Receive, Goto
<1>2. /\ server' = server /\ clientSocket' = clientSocket /\ buf' = buf
      /\ inbox' = inbox /\ asked' = asked
  BY DEF Receive, serverVars
<1>3. Answered(c)
  BY <1>1 DEF Phases, Quiet, Sent, Served
<1>4. shown'[c] = asked[c] /\ outbox'[c] = <<>>
  <2>1. outbox[c] = <<outbox[c][1]>> /\ outbox[c][1].name = asked[c]
    BY <1>3 DEF Answered
  <2>2. Head(outbox[c]) = outbox[c][1] /\ Tail(outbox[c]) = <<>>
    BY <2>1, OneMessage
  <2> QED
    BY <1>1, <2>1, <2>2
<1>5. Quiet(c)'
  BY <1>1, <1>2, <1>3, <1>4 DEF Quiet, Answered, Executing
<1>6. Phases'
  BY <1>1, <1>2, <1>5, OtherClients
<1> QED
  BY <1>1, <1>2, <1>6

LEMMA ReceiveNothingKeeps == ASSUME InStep, NEW c \in Clients, ReceiveNothing(c) PROVE InStep'
<1>1. /\ pc[c] = "awaiting" /\ outbox[c] = <<>> /\ server = "ended"
      /\ pc' = [pc EXCEPT ![c] = "prompt"]
      /\ server' = server /\ clientSocket' = clientSocket /\ buf' = buf
      /\ inbox' = inbox /\ outbox' = outbox /\ shown' = shown /\ asked' = asked
  BY DEF ReceiveNothing, Goto, serverVars
<1>2. Quiet(c)
  <2>1. Len(<<>>) = 0
    OBVIOUS
  <2> QED
    BY <1>1, <2>1 DEF Phases, Sent, Served, Answered, Executing
<1>3. Quiet(c)'
  BY <1>1, <1>2 DEF Quiet, Executing
<1>4. Phases'
  BY <1>1, <1>3, OtherClients
<1> QED
  BY <1>1, <1>4

LEMMA QuitKeeps == ASSUME InStep, NEW c \in Clients, Quit(c) PROVE InStep'
<1>1. /\ pc[c] \in {"prompt", "awaiting"} /\ pc' = [pc EXCEPT ![c] = "gone"]
      /\ outbox' = [outbox EXCEPT ![c] = <<>>]
      /\ shown' = [shown EXCEPT ![c] = "none"] /\ asked' = [asked EXCEPT ![c] = "none"]
  BY DEF Quit, Goto
<1>2. server' = server /\ clientSocket' = clientSocket /\ buf' = buf /\ inbox' = inbox
  BY DEF Quit, serverVars
<1>3. pc'[c] = "gone" /\ outbox'[c] = <<>> /\ inbox'[c] = inbox[c] /\ (Executing(c)' <=> Executing(c))
  BY <1>1, <1>2 DEF Executing
<1>4. CASE Quiet(c) \/ Answered(c)
  <2>1. Quiet(c)'
    BY <1>2, <1>3, <1>4 DEF Quiet, Answered
  <2> QED
    BY <1>1, <1>2, <2>1, OtherClients
<1>5. CASE Sent(c)
  <2>1. PICK m \in Commands : inbox[c] = <<m>>
    BY <1>5 DEF Sent
  <2>2. Sent(c)'
    BY <1>2, <1>3, <1>5, <2>1 DEF Sent
  <2> QED
    BY <1>1, <1>2, <2>2, OtherClients
<1>6. CASE Served(c)
  <2>1. Served(c)'
    BY <1>2, <1>3, <1>6 DEF Served
  <2> QED
    BY <1>1, <1>2, <2>1, OtherClients
<1> QED
  BY <1>1, <1>2, <1>4, <1>5, <1>6 DEF Phases

-----------------------------------------------------------------------------
LEMMA AcceptKeeps == ASSUME InStep, Accept PROVE InStep'
<1>1. /\ server = "accepting" /\ server' = "receiving" /\ buf' = buf
      /\ inbox' = inbox /\ outbox' = outbox /\ pc' = pc /\ shown' = shown /\ asked' = asked
  BY DEF Accept, clientVars
<1>2. ASSUME NEW c \in Clients PROVE (Quiet(c) \/ Sent(c) \/ Served(c) \/ Answered(c))'
  <2>1. ~Executing(c) /\ ~Executing(c)'
    BY <1>1 DEF Executing
  <2> QED
    BY <1>1, <2>1, Untouched DEF Phases
<1>3. Phases'
  BY <1>2 DEF Phases
<1> QED
  BY <1>1, <1>3

LEMMA RecvKeeps == ASSUME InStep, Recv PROVE InStep'
<1>1. /\ server = "receiving" /\ server' = "executing" /\ inbox[clientSocket] # <<>>
      /\ buf' = Head(inbox[clientSocket])
      /\ inbox' = [inbox EXCEPT ![clientSocket] = Tail(@)]
      /\ clientSocket' = clientSocket
      /\ outbox' = outbox /\ pc' = pc /\ shown' = shown /\ asked' = asked
  BY DEF Recv, clientVars
<1>2. ASSUME NEW c \in Clients PROVE (Quiet(c) \/ Sent(c) \/ Served(c) \/ Answered(c))'
  <2>1. ~Executing(c)
    BY <1>1 DEF Executing
  <2>2. CASE c = clientSocket
    <3>1. Sent(c)
      BY <1>1, <1>2, <2>1, <2>2 DEF Phases, Quiet, Served, Answered
    <3>2. PICK m \in Commands : inbox[c] = <<m>> /\ (pc[c] = "awaiting" => m.name = asked[c])
      BY <3>1 DEF Sent
    <3>3. inbox'[c] = <<>> /\ buf' = m
      BY <1>1, <2>2, <3>2, OneMessage
    <3>4. Served(c)'
      BY <1>1, <2>2, <3>1, <3>2, <3>3 DEF Served, Sent, Executing
    <3> QED
      BY <3>4
  <2>3. CASE c # clientSocket
    <3>1. ~Executing(c)' /\ inbox'[c] = inbox[c]
      BY <1>1, <2>3 DEF Executing
    <3> QED
      BY <1>1, <2>1, <3>1, Untouched DEF Phases
  <2> QED
    BY <2>2, <2>3
<1>3. Phases'
  BY <1>2 DEF Phases
<1> QED
  BY <1>1, <1>3

(* The ten commands that are answered differ in the list and the result only. *)
LEMMA RespondKeeps == ASSUME InStep, NEW name, NEW list, NEW result, Respond(name, list, result) PROVE InStep'
<1> DEFINE answer == [name |-> name, result |-> result]
<1>1. /\ server = "executing" /\ server' = "receiving" /\ buf.name = name
      /\ clientSocket' = clientSocket
      /\ inbox' = inbox /\ pc' = pc /\ shown' = shown /\ asked' = asked
  BY DEF Respond, clientVars
<1>2. outbox' = IF pc[clientSocket] = "gone" THEN outbox
                ELSE [outbox EXCEPT ![clientSocket] = Append(@, answer)]
  BY DEF Respond
<1>3. ASSUME NEW c \in Clients PROVE (Quiet(c) \/ Sent(c) \/ Served(c) \/ Answered(c))'
  <2>1. ~Executing(c)'
    BY <1>1 DEF Executing
  <2>2. CASE c = clientSocket
    <3>1. Served(c)
      BY <1>1, <2>2 DEF Phases, Quiet, Sent, Answered, Executing
    <3>2. CASE pc[c] = "gone"
      <4>1. Quiet(c)'
        BY <1>1, <1>2, <2>1, <2>2, <3>1, <3>2 DEF Quiet, Served
      <4> QED
        BY <4>1
    <3>3. CASE pc[c] = "awaiting"
      <4>1. outbox'[c] = <<answer>>
        BY <1>2, <2>2, <3>1, <3>3, OneMessage DEF Served
      <4>2. Len(outbox'[c]) = 1 /\ outbox'[c][1] = answer /\ answer.name = asked[c]
        BY <1>1, <3>1, <3>3, <4>1, OneMessage DEF Served
      <4>3. Answered(c)'
        BY <1>1, <2>1, <3>1, <3>3, <4>1, <4>2 DEF Answered, Served
      <4> QED
        BY <4>3
    <3> QED
      BY <3>1, <3>2, <3>3 DEF Served
  <2>3. CASE c # clientSocket
    <3>1. ~Executing(c) /\ outbox'[c] = outbox[c]
      BY <1>2, <2>3 DEF Executing
    <3> QED
      BY <1>1, <2>1, <3>1, Untouched DEF Phases
  <2> QED
    BY <2>2, <2>3
<1>4. Phases'
  BY <1>3 DEF Phases
<1>5. PerClient'
  BY <1>1, <1>2
<1> QED
  BY <1>4, <1>5

LEMMA EndKeeps == ASSUME InStep, End PROVE InStep'
<1>1. /\ server' = "ended" /\ inbox' = [c \in Clients |-> <<>>]
      /\ outbox' = outbox /\ pc' = pc /\ shown' = shown /\ asked' = asked
  BY DEF End, clientVars
<1>2. ASSUME NEW c \in Clients PROVE (Quiet(c) \/ Sent(c) \/ Served(c) \/ Answered(c))'
  <2>1. ~Executing(c)' /\ inbox'[c] = <<>>
    BY <1>1 DEF Executing
  <2>2. CASE outbox[c] = <<>>
    BY <1>1, <2>1, <2>2 DEF Quiet
  <2>3. CASE Answered(c)
    BY <1>1, <2>1, <2>3 DEF Answered
  <2> QED
    BY <2>2, <2>3 DEF Phases, Quiet, Sent, Served
<1>3. Phases'
  BY <1>2 DEF Phases
<1> QED
  BY <1>1, <1>3

LEMMA ServerKeeps == ASSUME InStep, ServerStep PROVE InStep'
<1>1. CASE Accept
  BY <1>1, AcceptKeeps
<1>2. CASE Recv
  BY <1>2, RecvKeeps
<1>3. CASE AddFront \/ AddBack \/ AddPosition
  BY <1>3, RespondKeeps DEF AddFront, AddBack, AddPosition
<1>4. CASE RemoveFront \/ RemoveBack \/ RemovePosition
  BY <1>4, RespondKeeps DEF RemoveFront, RemoveBack, RemovePosition, Remove
<1>5. CASE Get \/ GetLength \/ PrintList \/ Unknown
  BY <1>5, RespondKeeps DEF Get, GetLength, PrintList, Unknown
<1>6. CASE End
  BY <1>6, EndKeeps
<1> QED
  BY <1>1, <1>2, <1>3, <1>4, <1>5, <1>6 DEF ServerStep

LEMMA UnchangedKeeps == ASSUME InStep, UNCHANGED vars PROVE InStep'
BY DEF vars, Phases, Quiet, Sent, Served, Answered, Executing

LEMMA InStepStep == InStep /\ [Next]_vars => InStep'
<1> SUFFICES ASSUME InStep, [Next]_vars PROVE InStep'
  OBVIOUS
<1>1. CASE ServerStep
  BY <1>1, ServerKeeps
<1>2. CASE Spin \/ Ended \/ UNCHANGED vars
  BY <1>2, UnchangedKeeps DEF Spin, Ended
<1>3. ASSUME NEW c \in Clients,
             Connect(c) \/ Send(c) \/ SendToNobody(c) \/ Receive(c) \/ ReceiveNothing(c) \/ Quit(c)
      PROVE  InStep'
  BY <1>3, ConnectKeeps, SendKeeps, SendToNobodyKeeps, ReceiveKeeps, ReceiveNothingKeeps, QuitKeeps
<1> QED
  BY <1>1, <1>2, <1>3 DEF Next

(* In each of its phases a client has at most one command or answer under way. *)
LEMMA PhasesLockstep == Phases => Lockstep
<1> SUFFICES ASSUME Phases, NEW c \in Clients
             PROVE  /\ InFlight(c) <= 1
                    /\ pc[c] = "prompt" => InFlight(c) = 0
                    /\ server # "ended" => /\ pc[c] = "awaiting" => InFlight(c) = 1
                                           /\ pc[c] = "prompt" => shown[c] = asked[c]
  BY DEF Lockstep
<1>1. Len(<<>>) = 0
  OBVIOUS
<1>2. CASE Quiet(c)
  BY <1>1, <1>2 DEF Quiet, InFlight, Executing
<1>3. CASE Sent(c)
  <2>1. Len(inbox[c]) = 1
    BY <1>3, OneMessage DEF Sent
  <2> QED
    BY <1>1, <1>3, <2>1 DEF Sent, InFlight, Executing
<1>4. CASE Served(c)
  BY <1>1, <1>4 DEF Served, InFlight, Executing
<1>5. CASE Answered(c)
  BY <1>1, <1>5 DEF Answered, InFlight, Executing
<1> QED
  BY <1>2, <1>3, <1>4, <1>5 DEF Phases

(* Client and server take turns, and as long as there is a server the response a *)
(* client prints answers its last command (cli.c:68 looks at no result of recv): *)
(* for any clients, arguments and numbers of commands.                           *)
THEOREM StaysInLockstep == Spec => []Lockstep
<1>1. Spec => []InStep
  BY InStepInit, InStepStep, PTL DEF Spec
<1>2. InStep => Lockstep
  BY PhasesLockstep
<1> QED
  BY <1>1, <1>2, PTL

-----------------------------------------------------------------------------
(* Arguments are integers (sscanf of %d), and only exit ends a client. *)
LEMMA CommandFacts ==
  ASSUME ListServerAssumption, NEW command \in Commands
  PROVE  /\ command.index \in Int /\ command.value \in Int
         /\ command.name \in Names /\ command.name # "none" /\ command # NoCommand
         /\ command.name = "exit" => command = Exit
<1>1. ASSUME NEW c \in Commands
      PROVE c.index \in Int /\ c.value \in Int /\ c.name # "none" /\ (c.name = "exit" => c = Exit)
  BY <1>1 DEF ListServerAssumption, Commands, ListCommands, Command, Exit, Incomplete
<1>2. command # NoCommand
  BY <1>1 DEF NoCommand, Command
<1> QED
  BY <1>1, <1>2 DEF Names

(* What the registers hold before the first command. *)
LEMMA NoneIsName == "none" \in Names /\ NoReply \in Replies
<1>1. NoCommand.name = "none"
  BY DEF NoCommand, Command
<1> QED
  BY <1>1 DEF Names, Replies, NoReply

(* What a command leaves and answers is what RemoteList promises of it. *)
Does(list, result) == /\ WellLinked(list) /\ result \in Seq(Int)
                      /\ Elements(list) = Promised!After(buf) /\ result = Promised!Result(buf)

(* Each command: what execution does to the elements and answers is what *)
(* RemoteList promises.                                                  *)
LEMMA AddFrontDoes ==
  ASSUME ListServerAssumption, WellLinked(mylist), buf \in Commands, buf.name = "add_front"
  PROVE  Does(AddToFront(mylist, buf.value), <<buf.value>>)
<1> DEFINE E == Elements(mylist)
<1>1. buf.value \in Int /\ E \in Seq(Int) /\ Len(E) \in Nat
  BY CommandFacts, WellLinkedFacts, SeqFacts
<1>2. 1 \in 1..(Len(E) + 1)
  BY <1>1
<1>3. Adds(mylist, 1, buf.value, AddToFront(mylist, buf.value))
  BY <1>1, AddToFrontAdds
<1>4. /\ WellLinked(AddToFront(mylist, buf.value))
      /\ Elements(AddToFront(mylist, buf.value)) = Promised!InsertAt(E, 1, buf.value)
  BY <1>1, <1>2, <1>3, AddsInsertAt
<1>5. Promised!After(buf) = Promised!InsertAt(E, 1, buf.value)
  BY DEF Promised!After, Promised!Removed
<1>6. Promised!Result(buf) = <<buf.value>>
  BY DEF Promised!Result
<1> QED
  BY <1>1, <1>4, <1>5, <1>6 DEF Does

LEMMA AddBackDoes ==
  ASSUME ListServerAssumption, WellLinked(mylist), buf \in Commands, buf.name = "add_back"
  PROVE  Does(AddToBack(mylist, buf.value), <<buf.value>>)
<1> DEFINE E == Elements(mylist)
<1>1. buf.value \in Int
  BY CommandFacts
<1>2. Adds(mylist, Len(E) + 1, buf.value, AddToBack(mylist, buf.value))
  BY <1>1, AddToBackAdds
<1>3. /\ WellLinked(AddToBack(mylist, buf.value))
      /\ Elements(AddToBack(mylist, buf.value)) = Append(E, buf.value)
  BY <1>1, <1>2, AddsAppend
<1>4. Promised!After(buf) = Append(E, buf.value)
  BY DEF Promised!After, Promised!Removed
<1>5. Promised!Result(buf) = <<buf.value>>
  BY DEF Promised!Result
<1> QED
  BY <1>1, <1>3, <1>4, <1>5 DEF Does

LEMMA AddPositionDoes ==
  ASSUME ListServerAssumption, WellLinked(mylist), buf \in Commands, buf.name = "add_position"
  PROVE  Does(AddAtIndex(mylist, buf.index, buf.value), <<buf.value>>)
<1> DEFINE E == Elements(mylist)
           list == AddAtIndex(mylist, buf.index, buf.value)
<1>1. buf.value \in Int /\ buf.index \in Int /\ E \in Seq(Int) /\ Len(E) \in Nat
  BY CommandFacts, WellLinkedFacts, SeqFacts
<1>2. IF buf.index \in 0..Len(E) THEN Adds(mylist, buf.index + 1, buf.value, list) ELSE list = mylist
  BY <1>1, AddAtIndexAdds
<1>3. Promised!Result(buf) = <<buf.value>>
  BY DEF Promised!Result
<1>4. Promised!Removed(buf) = 0
  BY DEF Promised!Removed
<1> HIDE DEF list
<1>5. CASE buf.index \in 0..Len(E)
  <2>1. buf.index + 1 \in 1..(Len(E) + 1)
    BY <1>1, <1>5
  <2>2. WellLinked(list) /\ Elements(list) = Promised!InsertAt(E, buf.index + 1, buf.value)
    BY <1>1, <1>2, <1>5, <2>1, AddsInsertAt
  <2>3. Promised!After(buf) = Promised!InsertAt(E, buf.index + 1, buf.value)
    BY <1>4, <1>5 DEF Promised!After
  <2> QED
    BY <1>1, <1>3, <2>2, <2>3 DEF Does, list
<1>6. CASE buf.index \notin 0..Len(E)
  <2>1. Promised!After(buf) = E
    BY <1>4, <1>6 DEF Promised!After
  <2> QED
    BY <1>1, <1>2, <1>3, <1>6, <2>1 DEF Does, list
<1> QED
  BY <1>5, <1>6

(* The three functions that remove. *)
LEMMA RemovesDoes ==
  ASSUME WellLinked(mylist), NEW k \in Int, NEW r, Removes(mylist, k, r),
         k \in 1..Len(Elements(mylist)) => Promised!Removed(buf) = k,
         k \notin 1..Len(Elements(mylist)) => Promised!Removed(buf) = 0,
         buf.name \in {"remove_front", "remove_back", "remove_position"}
  PROVE  Does(r.list, <<r.value>>)
<1> DEFINE E == Elements(mylist)
<1>1. E \in Seq(Int) /\ Len(E) \in Nat
  BY WellLinkedFacts, SeqFacts
<1>2. CASE k \in 1..Len(E)
  <2>1. Takes(mylist, k, r.value, r.list) /\ Promised!Removed(buf) = k /\ k # 0
    BY <1>1, <1>2 DEF Removes
  <2>2. /\ WellLinked(r.list) /\ Elements(r.list) = Promised!RemoveAt(E, k)
        /\ r.value = E[k] /\ r.value \in Int
    BY <1>2, <2>1, TakesRemoveAt
  <2>3. Promised!After(buf) = Promised!RemoveAt(E, k)
    BY <2>1 DEF Promised!After
  <2>4. Promised!Result(buf) = <<E[k]>>
    BY <2>1 DEF Promised!Result
  <2> QED
    BY <2>2, <2>3, <2>4 DEF Does
<1>3. CASE k \notin 1..Len(E)
  <2>1. r.list = mylist /\ r.value = -1 /\ Promised!Removed(buf) = 0
    BY <1>3 DEF Removes
  <2>2. Promised!After(buf) = E
    BY <2>1 DEF Promised!After
  <2>3. Promised!Result(buf) = <<-1>>
    BY <2>1 DEF Promised!Result
  <2> QED
    BY <2>1, <2>2, <2>3 DEF Does
<1> QED
  BY <1>2, <1>3

LEMMA RemoveFrontDoes ==
  ASSUME WellLinked(mylist), buf.name = "remove_front"
  PROVE  Does(RemoveFromFront(mylist).list, <<RemoveFromFront(mylist).value>>)
<1> DEFINE E == Elements(mylist)
<1>1. E \in Seq(Int) /\ Len(E) \in Nat /\ (E = <<>> <=> Len(E) = 0)
  BY WellLinkedFacts, SeqFacts, EmptySeq
<1>2. Promised!Removed(buf) = IF E = <<>> THEN 0 ELSE 1
  BY DEF Promised!Removed
<1>3. 1 \in 1..Len(E) <=> E # <<>>
  BY <1>1
<1>4. Removes(mylist, 1, RemoveFromFront(mylist))
  BY RemoveFromFrontRemoves
<1> QED
  BY <1>2, <1>3, <1>4, RemovesDoes

LEMMA RemoveBackDoes ==
  ASSUME WellLinked(mylist), buf.name = "remove_back"
  PROVE  Does(RemoveFromBack(mylist).list, <<RemoveFromBack(mylist).value>>)
<1> DEFINE E == Elements(mylist)
<1>1. E \in Seq(Int) /\ Len(E) \in Nat
  BY WellLinkedFacts, SeqFacts
<1>2. Promised!Removed(buf) = Len(E)
  BY DEF Promised!Removed
<1>3. Len(E) \notin 1..Len(E) => Len(E) = 0
  BY <1>1
<1>4. Removes(mylist, Len(E), RemoveFromBack(mylist))
  BY RemoveFromBackRemoves
<1> QED
  BY <1>1, <1>2, <1>3, <1>4, RemovesDoes

LEMMA RemovePositionDoes ==
  ASSUME ListServerAssumption, WellLinked(mylist), buf \in Commands, buf.name = "remove_position"
  PROVE  Does(RemoveAtIndex(mylist, buf.index).list, <<RemoveAtIndex(mylist, buf.index).value>>)
<1> DEFINE E == Elements(mylist)
<1>1. E \in Seq(Int) /\ Len(E) \in Nat /\ buf.index \in Int
  BY WellLinkedFacts, SeqFacts, CommandFacts
<1>2. Promised!Removed(buf) = IF buf.index \in 0..Len(E) - 1 THEN buf.index + 1 ELSE 0
  BY DEF Promised!Removed, Promised!Position
<1>3. buf.index + 1 \in 1..Len(E) <=> buf.index \in 0..Len(E) - 1
  BY <1>1
<1>4. Removes(mylist, buf.index + 1, RemoveAtIndex(mylist, buf.index))
  BY <1>1, RemoveAtIndexRemoves
<1>5. buf.index + 1 \in Int
  BY <1>1
<1> QED
  BY <1>2, <1>3, <1>4, <1>5, RemovesDoes

LEMMA GetDoes ==
  ASSUME ListServerAssumption, WellLinked(mylist), buf \in Commands, buf.name = "get"
  PROVE  Does(mylist, <<GetElemAt(mylist, buf.index)>>)
<1> DEFINE E == Elements(mylist)
<1>1. E \in Seq(Int) /\ Len(E) \in Nat /\ buf.index \in Int /\ \A i \in 1..Len(E) : E[i] \in Int
  BY WellLinkedFacts, SeqFacts, CommandFacts
<1>2. GetElemAt(mylist, buf.index) = IF buf.index + 1 \in 1..Len(E) THEN E[buf.index + 1] ELSE -1
  BY <1>1, GetElemAtGets
<1>3. buf.index + 1 \in 1..Len(E) <=> buf.index \in 0..Len(E) - 1
  BY <1>1
<1>4. Promised!After(buf) = E
  BY DEF Promised!After, Promised!Removed
<1>5. Promised!Result(buf) = IF buf.index \in 0..Len(E) - 1 THEN <<E[buf.index + 1]>> ELSE <<-1>>
  BY DEF Promised!Result, Promised!Position
<1>6. GetElemAt(mylist, buf.index) \in Int
  BY <1>1, <1>2
<1>7. Promised!Result(buf) = <<GetElemAt(mylist, buf.index)>>
  BY <1>2, <1>3, <1>5
<1> QED
  BY <1>4, <1>6, <1>7 DEF Does

LEMMA OthersDo ==
  ASSUME WellLinked(mylist)
  PROVE  /\ buf.name = "get_length" => Does(mylist, <<mylist.length>>)
         /\ buf.name = "print" => Does(mylist, Elements(mylist))
         /\ buf.name = "other" => Does(mylist, <<>>)
<1> DEFINE E == Elements(mylist)
<1>1. E \in Seq(Int) /\ mylist.length = Len(E) /\ Len(E) \in Int
  BY WellLinkedFacts, SeqFacts
<1>2. ASSUME buf.name \in {"get_length", "print", "other"} PROVE Promised!After(buf) = E
  BY <1>2 DEF Promised!After, Promised!Removed
<1>3. ASSUME buf.name = "get_length" PROVE Promised!Result(buf) = <<Len(E)>>
  BY <1>3 DEF Promised!Result
<1>4. ASSUME buf.name = "print" PROVE Promised!Result(buf) = E
  BY <1>4 DEF Promised!Result
<1>5. ASSUME buf.name = "other" PROVE Promised!Result(buf) = <<>>
  BY <1>5 DEF Promised!Result
<1>6. <<Len(E)>> \in Seq(Int) /\ <<>> \in Seq(Int)
  BY <1>1
<1> QED
  BY <1>1, <1>2, <1>3, <1>4, <1>5, <1>6 DEF Does

-----------------------------------------------------------------------------
(* What the server's variables are; it has a command while it executes one only. *)
ServerTyped ==
  /\ server \in {"accepting", "receiving", "executing", "ended"}
  /\ clientSocket \in Clients \cup {NoClient}
  /\ (clientSocket = NoClient) <=> (server = "accepting")
  /\ backlog \in Seq(Clients)
  /\ IF server = "executing" THEN buf \in Commands ELSE buf = NoCommand
  /\ sbuf \in Replies
  /\ WellLinked(mylist)

ClientsTyped ==
  /\ pc \in [Clients -> {"outside", "prompt", "awaiting", "gone"}]
  /\ \A c \in Clients : shown[c] \in Names /\ asked[c] \in Names

Sane == InStep /\ ServerTyped /\ ClientsTyped

(* The server starts with an empty list and no client. *)
LEMMA SaneInit == ListServerAssumption /\ Init => Sane
<1> SUFFICES ASSUME ListServerAssumption, Init PROVE Sane
  OBVIOUS
<1>1. ServerTyped
  <2>1. <<>> \in Seq(Clients)
    OBVIOUS
  <2> QED
    BY <2>1, NoneIsName, EmptyListWellLinked DEF Init, ServerTyped
<1>2. ClientsTyped
  BY NoneIsName DEF Init, ClientsTyped
<1> QED
  BY <1>1, <1>2, InStepInit DEF Sane

(* The clients. *)
LEMMA ClientsStay == ASSUME ClientsTyped, UNCHANGED clientVars PROVE ClientsTyped'
BY DEF ClientsTyped, clientVars

(* What each action leaves of the types and of the list. *)
LEMMA ConnectTyped == ASSUME Sane, NEW c \in Clients, Connect(c) PROVE ServerTyped' /\ ClientsTyped'
<1>1. ServerTyped /\ ClientsTyped /\ InStep
  BY DEF Sane
<1>2. UNCHANGED <<server, clientSocket, mylist, buf, sbuf, shown, asked>>
  BY DEF Connect, serverVars
<1>3. backlog' \in Seq(Clients)
  <2>1. backlog \in Seq(Clients)
    BY <1>1 DEF ServerTyped
  <2>2. Append(backlog, c) \in Seq(Clients)
    BY <2>1
  <2> QED
    BY <2>1, <2>2 DEF Connect
<1>4. pc' = [pc EXCEPT ![c] = IF server = "ended" THEN "gone" ELSE "prompt"]
  BY DEF Connect, Goto
<1>5. ServerTyped'
  BY <1>1, <1>2, <1>3 DEF ServerTyped
<1>6. ClientsTyped'
  BY <1>1, <1>2, <1>4 DEF ClientsTyped
<1> QED
  BY <1>5, <1>6

LEMMA ServerStays == ASSUME ServerTyped, UNCHANGED <<serverVars, backlog>> PROVE ServerTyped'
BY DEF ServerTyped, serverVars

LEMMA SendTyped ==
  ASSUME ListServerAssumption, Sane, NEW c \in Clients, Send(c) PROVE ServerTyped' /\ ClientsTyped'
<1>1. ServerTyped /\ ClientsTyped /\ InStep
  BY DEF Sane
<1>2. PICK command \in Commands :
        /\ pc' = [pc EXCEPT ![c] = IF command = Exit THEN "gone" ELSE "awaiting"]
        /\ asked' = [asked EXCEPT ![c] = command.name]
  BY DEF Send, SendThen, Goto
<1>3. command.name \in Names
  BY CommandFacts
<1>4. UNCHANGED <<serverVars, backlog, shown>>
  BY DEF Send, SendThen
<1>5. ServerTyped'
  BY <1>1, <1>4, ServerStays
<1>6. ClientsTyped'
  BY <1>1, <1>2, <1>3, <1>4 DEF ClientsTyped
<1> QED
  BY <1>5, <1>6

LEMMA ReceiveTyped == ASSUME Sane, NEW c \in Clients, Receive(c) PROVE ServerTyped' /\ ClientsTyped'
<1>1. ServerTyped /\ ClientsTyped /\ InStep
  BY DEF Sane
<1>2. /\ pc[c] = "awaiting" /\ outbox[c] # <<>> /\ pc' = [pc EXCEPT ![c] = "prompt"]
      /\ shown' = [shown EXCEPT ![c] = Head(outbox[c]).name]
      /\ UNCHANGED <<serverVars, backlog, asked>>
  BY DEF Receive, Goto
<1>3. Answered(c)
  BY <1>1, <1>2 DEF Phases, Quiet, Sent, Served
<1>4. Head(outbox[c]).name = asked[c]
  <2>1. outbox[c] = <<outbox[c][1]>> /\ outbox[c][1].name = asked[c]
    BY <1>3 DEF Answered
  <2>2. Head(outbox[c]) = outbox[c][1]
    BY <2>1, OneMessage
  <2> QED
    BY <2>1, <2>2
<1>5. ServerTyped'
  BY <1>1, <1>2, ServerStays
<1>6. ClientsTyped'
  BY <1>1, <1>2, <1>4 DEF ClientsTyped
<1> QED
  BY <1>5, <1>6

LEMMA OtherClientSteps ==
  ASSUME Sane, NEW c \in Clients, SendToNobody(c) \/ ReceiveNothing(c) \/ Quit(c)
  PROVE  ServerTyped' /\ ClientsTyped'
<1>1. ServerTyped /\ ClientsTyped /\ InStep
  BY DEF Sane
<1>2. UNCHANGED <<serverVars, backlog>>
  BY DEF SendToNobody, ReceiveNothing, Quit
<1>3. PICK to \in {"prompt", "awaiting", "gone"} : pc' = [pc EXCEPT ![c] = to]
  BY DEF SendToNobody, ReceiveNothing, Quit, Goto
<1>4. \/ UNCHANGED <<shown, asked>>
      \/ shown' = [shown EXCEPT ![c] = "none"] /\ asked' = [asked EXCEPT ![c] = "none"]
  BY DEF SendToNobody, ReceiveNothing, Quit
<1>5. ServerTyped'
  BY <1>1, <1>2, ServerStays
<1>6. ClientsTyped'
  BY <1>1, <1>3, <1>4, NoneIsName DEF ClientsTyped
<1> QED
  BY <1>5, <1>6

(* The server. *)
LEMMA AcceptTyped == ASSUME ListServerAssumption, ServerTyped, Accept PROVE ServerTyped'
<1>1. /\ server = "accepting" /\ server' = "receiving" /\ backlog # <<>>
      /\ clientSocket' = Head(backlog) /\ backlog' = Tail(backlog)
      /\ UNCHANGED <<mylist, buf, sbuf>>
  BY DEF Accept
<1>2. backlog \in Seq(Clients)
  BY DEF ServerTyped
<1>3. Head(backlog) \in Clients /\ Tail(backlog) \in Seq(Clients)
  BY <1>1, <1>2
<1> QED
  BY <1>1, <1>3 DEF ServerTyped, ListServerAssumption

LEMMA RecvTyped == ASSUME Sane, Recv PROVE ServerTyped'
<1>1. /\ server = "receiving" /\ server' = "executing" /\ inbox[clientSocket] # <<>>
      /\ buf' = Head(inbox[clientSocket])
      /\ UNCHANGED <<clientSocket, backlog, mylist, sbuf>>
  BY DEF Recv
<1>2. ServerTyped /\ Phases /\ clientSocket \in Clients
  BY <1>1 DEF Sane, ServerTyped
<1>3. Sent(clientSocket)
  BY <1>1, <1>2 DEF Phases, Quiet, Served, Answered
<1>4. PICK m \in Commands : inbox[clientSocket] = <<m>>
  BY <1>3 DEF Sent
<1>5. buf' \in Commands
  BY <1>1, <1>4, OneMessage
<1> QED
  BY <1>1, <1>2, <1>5 DEF ServerTyped

LEMMA RespondTyped ==
  ASSUME ListServerAssumption, ServerTyped, NEW name, NEW list, NEW result,
         Respond(name, list, result), Does(list, result)
  PROVE  ServerTyped' /\ Promised!Execute
<1>1. /\ server = "executing" /\ buf.name = name /\ server' = "receiving" /\ mylist' = list
      /\ sbuf' = [name |-> name, result |-> result] /\ buf' = NoCommand
      /\ UNCHANGED <<clientSocket, backlog>>
  BY DEF Respond
<1>2. buf \in Commands
  BY <1>1 DEF ServerTyped
<1>3. buf.name \in Names /\ buf # NoCommand
  BY <1>2, CommandFacts
<1>4. sbuf' \in Replies
  BY <1>1, <1>3 DEF Does, Replies
<1>5. ServerTyped'
  BY <1>1, <1>4 DEF ServerTyped, Does
<1>6. Promised!Execute
  BY <1>1, <1>3 DEF Promised!Execute, Does
<1> QED
  BY <1>5, <1>6

LEMMA AnswersTyped ==
  ASSUME ListServerAssumption, ServerTyped,
         \/ AddFront \/ AddBack \/ AddPosition \/ RemoveFront \/ RemoveBack \/ RemovePosition
         \/ Get \/ GetLength \/ PrintList \/ Unknown
  PROVE  ServerTyped' /\ Promised!Execute
<1>1. WellLinked(mylist) /\ (server = "executing" => buf \in Commands)
  BY DEF ServerTyped
<1>2. ASSUME NEW name, NEW list, NEW result, Respond(name, list, result)
      PROVE  buf \in Commands /\ buf.name = name
  BY <1>1, <1>2 DEF Respond
<1>3. CASE AddFront
  BY <1>1, <1>2, <1>3, AddFrontDoes, RespondTyped DEF AddFront
<1>4. CASE AddBack
  BY <1>1, <1>2, <1>4, AddBackDoes, RespondTyped DEF AddBack
<1>5. CASE AddPosition
  BY <1>1, <1>2, <1>5, AddPositionDoes, RespondTyped DEF AddPosition
<1>6. CASE RemoveFront
  BY <1>1, <1>2, <1>6, RemoveFrontDoes, RespondTyped DEF RemoveFront, Remove
<1>7. CASE RemoveBack
  BY <1>1, <1>2, <1>7, RemoveBackDoes, RespondTyped DEF RemoveBack, Remove
<1>8. CASE RemovePosition
  BY <1>1, <1>2, <1>8, RemovePositionDoes, RespondTyped DEF RemovePosition, Remove
<1>9. CASE Get
  BY <1>1, <1>2, <1>9, GetDoes, RespondTyped DEF Get
<1>10. CASE GetLength
  BY <1>1, <1>2, <1>10, OthersDo, RespondTyped DEF GetLength
<1>11. CASE PrintList
  BY <1>1, <1>2, <1>11, OthersDo, RespondTyped DEF PrintList
<1>12. CASE Unknown
  BY <1>1, <1>2, <1>12, OthersDo, RespondTyped DEF Unknown
<1> QED
  BY <1>3, <1>4, <1>5, <1>6, <1>7, <1>8, <1>9, <1>10, <1>11, <1>12

LEMMA EndTyped == ASSUME ListServerAssumption, ServerTyped, End PROVE ServerTyped' /\ Promised!Down
<1>1. /\ server = "executing" /\ server' = "ended" /\ mylist' = EmptyList /\ buf' = NoCommand
      /\ sbuf' = NoReply /\ backlog' = <<>> /\ clientSocket' = clientSocket
  BY DEF End
<1>2. <<>> \in Seq(Clients)
  OBVIOUS
<1>3. ServerTyped'
  BY <1>1, <1>2, NoneIsName, EmptyListWellLinked DEF ServerTyped
<1>4. Promised!Down
  BY <1>1, EmptyListWellLinked DEF Promised!Down
<1> QED
  BY <1>3, <1>4

LEMMA ServerStepTyped ==
  ASSUME ListServerAssumption, Sane, ServerStep
  PROVE  ServerTyped' /\ [Promised!Next]_(Promised!vars)
<1>1. ServerTyped
  BY DEF Sane
<1>2. CASE Accept
  <2>1. server = "accepting" /\ server' = "receiving" /\ UNCHANGED <<mylist, buf, sbuf>>
    BY <1>2 DEF Accept
  <2> QED
    BY <1>1, <1>2, <2>1, AcceptTyped DEF Promised!vars
<1>3. CASE Recv
  <2>1. server = "receiving" /\ server' = "executing" /\ UNCHANGED <<mylist, sbuf>>
    BY <1>3 DEF Recv
  <2>2. ServerTyped'
    BY <1>3, RecvTyped
  <2>3. buf = NoCommand /\ buf' \in Commands
    BY <1>1, <2>1, <2>2 DEF ServerTyped
  <2>4. Promised!Take
    BY <2>1, <2>3 DEF Promised!Take
  <2> QED
    BY <2>2, <2>4 DEF Promised!Next
<1>4. CASE \/ AddFront \/ AddBack \/ AddPosition \/ RemoveFront \/ RemoveBack \/ RemovePosition
           \/ Get \/ GetLength \/ PrintList \/ Unknown
  BY <1>1, <1>4, AnswersTyped DEF Promised!Next
<1>5. CASE End
  BY <1>1, <1>5, EndTyped DEF Promised!Next
<1> QED
  BY <1>2, <1>3, <1>4, <1>5 DEF ServerStep

(* Only Accept, Recv, the answers and End change anything that RemoteList sees. *)
LEMMA SaneStep ==
  ListServerAssumption /\ Sane /\ [Next]_vars => Sane' /\ [Promised!Next]_(Promised!vars)
<1> SUFFICES ASSUME ListServerAssumption, Sane, [Next]_vars
             PROVE  Sane' /\ [Promised!Next]_(Promised!vars)
  OBVIOUS
<1>1. InStep'
  BY InStepStep DEF Sane
<1>2. CASE ServerStep
  <2>1. UNCHANGED clientVars
    BY <1>2 DEF ServerStep, Accept, Recv, AddFront, AddBack, AddPosition, RemoveFront, RemoveBack,
                RemovePosition, Remove, Get, GetLength, PrintList, Unknown, Respond, End
  <2>2. ClientsTyped'
    BY <2>1, ClientsStay DEF Sane
  <2> QED
    BY <1>1, <1>2, <2>2, ServerStepTyped DEF Sane
<1>3. CASE Spin \/ Ended \/ UNCHANGED vars
  <2>1. UNCHANGED vars
    BY <1>3 DEF Spin, Ended
  <2>2. UNCHANGED <<serverVars, backlog>> /\ UNCHANGED clientVars
    BY <2>1 DEF vars, serverVars, clientVars
  <2>3. UNCHANGED Promised!vars
    BY <2>1 DEF vars, Promised!vars
  <2> QED
    BY <1>1, <2>2, <2>3, ClientsStay, ServerStays DEF Sane
<1>4. ASSUME NEW c \in Clients,
             Connect(c) \/ Send(c) \/ SendToNobody(c) \/ Receive(c) \/ ReceiveNothing(c) \/ Quit(c)
      PROVE  Sane' /\ [Promised!Next]_(Promised!vars)
  <2>1. UNCHANGED serverVars
    BY <1>4 DEF Connect, Send, SendThen, SendToNobody, Receive, ReceiveNothing, Quit
  <2>2. UNCHANGED Promised!vars
    BY <2>1 DEF serverVars, Promised!vars
  <2>3. ServerTyped' /\ ClientsTyped'
    BY <1>4, ConnectTyped, SendTyped, ReceiveTyped, OtherClientSteps
  <2> QED
    BY <1>1, <2>2, <2>3 DEF Sane
<1> QED
  BY <1>2, <1>3, <1>4 DEF Next

(* The inductive invariant holds in every state. *)
LEMMA SaneAlways == Spec => []Sane
<1>1. Init => Sane
  BY SaneInit, ListServerAssumption
<1>2. Sane /\ [Next]_vars => Sane'
  BY SaneStep, ListServerAssumption
<1> QED
  BY <1>1, <1>2, PTL DEF Spec

(* It says what the runs check. *)
LEMMA SaneIsSound == Sane => ListServerInv
<1> SUFFICES ASSUME Sane PROVE ListServerInv
  OBVIOUS
<1>1. ServerTyped /\ ClientsTyped /\ Phases /\ WellLinked(mylist)
  BY DEF Sane, ServerTyped
<1>2. ListIsSound(mylist)
  BY <1>1, WellLinkedIsSound
<1> QED
  BY <1>1, <1>2 DEF ListServerInv, ServerTyped, ClientsTyped

(* Whatever its clients ask for, the list of the server stays well linked: a    *)
(* chain from the head to NULL through every node that is allocated and through *)
(* none twice, as long as its counter says (list.c of lab 4: no operation leaks *)
(* a node, loses one or frees one that is still linked). For any clients,       *)
(* integer arguments and numbers of commands.                                   *)
THEOREM ListServerInvariant == Spec => []ListServerInv
BY SaneAlways, SaneIsSound, PTL

(* The pointers implement the sequence: every step of client and server, with   *)
(* its recv, its list operation on nodes and its send, is a step of RemoteList, *)
(* where a command reads and changes a sequence of integers at once, or changes *)
(* nothing there (serv.c:46-112 of lab 4 and the list.c behind it).             *)
THEOREM RefinesRemoteList == Spec => ImplementsRemoteList
<1>1. Init => Promised!Init
  BY EmptyListWellLinked DEF Init, Promised!Init
<1>2. Sane /\ [Next]_vars => [Promised!Next]_(Promised!vars)
  BY SaneStep, ListServerAssumption
<1> QED
  BY <1>1, <1>2, SaneAlways, PTL DEF Spec, ImplementsRemoteList, Promised!Spec

-----------------------------------------------------------------------------
(* The counter is all that the two lists differ in. *)
LEMMA CounterDoesNotMatter ==
  ASSUME NEW m, NEW by, WellLinked(Counted(m, by))
  PROVE  SameList(m, Counted(m, by))
<1> DEFINE counted == Counted(m, by)
           c == Chain(counted)
<1>1. c \in Chains /\ Linked(counted, c)
  BY DEF WellLinked
<1> HIDE DEF c
<1>2. DOMAIN counted = DOMAIN m
  BY DEF Counted
<1>3. DOMAIN m = {"head", "length", "next", "value"}
  BY <1>1, <1>2 DEF Linked
<1>4. counted.head = m.head /\ counted.next = m.next /\ counted.value = m.value
  BY <1>3, CountedFacts
<1> HIDE DEF counted
<1>5. Linked(m, c)
  BY <1>1, <1>2, <1>4 DEF Linked
<1>6. Elements(m) = ValuesAlong(m, c) /\ Elements(counted) = ValuesAlong(counted, c)
  BY <1>1, <1>5, ElementsAre
<1>7. ValuesAlong(m, c) = ValuesAlong(counted, c)
  BY <1>4 DEF ValuesAlong
<1> QED
  BY <1>4, <1>6, <1>7 DEF SameList, Allocated, counted

(* A list is the same as itself. *)
LEMMA SameItself == ASSUME NEW l PROVE SameList(l, l)
BY DEF SameList

(* Walking the list counts its nodes (list_length of the lab that keeps no *)
(* counter).                                                               *)
LEMMA LabLengthIs ==
  ASSUME NEW l, WellLinked(l)
  PROVE  LabLength(l) = l.length /\ l.length = Len(Elements(l)) /\ l.length \in Nat
BY WellLinkedFacts DEF LabLength, WellLinked

(* Adding at the ends. *)
LEMMA LabAddsTheSame ==
  ASSUME NEW l, WellLinked(l), NEW v \in Int
  PROVE  SameWithValue(l, v)
<1>1. WellLinked(AddToFront(l, v)) /\ WellLinked(AddToBack(l, v))
  BY AddToFrontAdds, AddToBackAdds DEF Adds
<1>2. AddToFront(l, v) = Counted(LabAddToFront(l, v), 1)
  BY DEF AddToFront, LabAddToFront
<1>3. AddToBack(l, v) = Counted(LabAddToBack(l, v), 1)
  BY DEF AddToBack, LabAddToBack
<1> QED
  BY <1>1, <1>2, <1>3, CounterDoesNotMatter DEF SameWithValue

(* Adding at an index: the one lab counts from 0, the other from 1. *)
LEMMA LabAddsAtTheSame ==
  ASSUME NEW l, WellLinked(l), NEW i \in Int, NEW v \in Int
  PROVE  SameAtIndexWithValue(l, i, v)
<1>1. LabLength(l) = l.length /\ l.length = Len(Elements(l)) /\ l.length \in Nat
  BY LabLengthIs
<1>2. CASE ~(i \in 0..l.length)
  <2>1. AddAtIndex(l, i, v) = l /\ LabAddAtIndex(l, v, i + 1) = l
    BY <1>1, <1>2 DEF AddAtIndex, LabAddAtIndex
  <2> QED
    BY <2>1, SameItself DEF SameAtIndexWithValue
<1>3. CASE i \in 0..l.length
  <2>1. WellLinked(AddAtIndex(l, i, v))
    BY <1>1, <1>3, AddAtIndexAdds DEF Adds
  <2>2. AddAtIndex(l, i, v) = Counted(LabAddAtIndex(l, v, i + 1), 1)
    <3>1. CASE i = 0
      BY <1>1, <1>3, <3>1 DEF AddAtIndex, LabAddAtIndex, AddToFront
    <3>2. CASE i # 0
      <4>1. /\ ~(i < 0 \/ i > l.length) /\ ~(i + 1 < 1 \/ i + 1 > l.length + 1) /\ i + 1 # 1
            /\ (i + 1) - 1 = i
        BY <1>1, <1>3, <3>2
      <4>2. AddAtIndex(l, i, v) = Counted(PutAfter(l, NodeAt(l, i - 1), v), 1)
        BY <3>2, <4>1 DEF AddAtIndex
      <4>3. LabAddAtIndex(l, v, i + 1) = PutAfter(l, NodeAt(l, i - 1), v)
        BY <1>1, <4>1 DEF LabAddAtIndex, Numbered
      <4> QED
        BY <4>2, <4>3
    <3> QED
      BY <3>1, <3>2
  <2> QED
    BY <2>1, <2>2, CounterDoesNotMatter DEF SameAtIndexWithValue
<1> QED
  BY <1>2, <1>3

(* A result of a function that removes: Counted, or the list as it was. *)
LEMMA RemovedTheSame ==
  ASSUME NEW l, WellLinked(l), NEW k, NEW r, Removes(l, k, r), NEW s,
         s.value = r.value, s.list = r.list \/ r.list = Counted(s.list, -1)
  PROVE  SameResult(s, r)
<1>1. WellLinked(r.list)
  BY DEF Removes, Takes
<1>2. SameList(s.list, r.list)
  BY <1>1, SameItself, CounterDoesNotMatter
<1> QED
  BY <1>2 DEF SameResult

(* Removing at the ends. *)
LEMMA LabRemovesFirst ==
  ASSUME NEW l, WellLinked(l)
  PROVE  /\ LabRemoveFromFront(l).value = RemoveFromFront(l).value
         /\ \/ LabRemoveFromFront(l).list = RemoveFromFront(l).list
            \/ RemoveFromFront(l).list = Counted(LabRemoveFromFront(l).list, -1)
BY DEF LabRemoveFromFront, RemoveFromFront, Nothing

LEMMA LabRemovesLast ==
  ASSUME NEW l, WellLinked(l)
  PROVE  /\ LabRemoveFromBack(l).value = RemoveFromBack(l).value
         /\ \/ LabRemoveFromBack(l).list = RemoveFromBack(l).list
            \/ RemoveFromBack(l).list = Counted(LabRemoveFromBack(l).list, -1)
BY DEF LabRemoveFromBack, LabRemoveFromFront, RemoveFromBack, Nothing

LEMMA LabRemovesEndsTheSame ==
  ASSUME NEW l, WellLinked(l)
  PROVE  /\ SameResult(LabRemoveFromFront(l), RemoveFromFront(l))
         /\ SameResult(LabRemoveFromBack(l), RemoveFromBack(l))
<1>1. SameResult(LabRemoveFromFront(l), RemoveFromFront(l))
  BY LabRemovesFirst, RemoveFromFrontRemoves, RemovedTheSame
<1>2. SameResult(LabRemoveFromBack(l), RemoveFromBack(l))
  BY LabRemovesLast, RemoveFromBackRemoves, RemovedTheSame
<1> QED
  BY <1>1, <1>2

(* Removing and looking up at an index. *)
LEMMA LabAtTheSame ==
  ASSUME NEW l, WellLinked(l), NEW i \in Int
  PROVE  SameAtIndex(l, i)
<1>1. LabLength(l) = l.length /\ l.length \in Nat
  BY LabLengthIs
<1>2. (i + 1 < 1 \/ i + 1 > l.length) <=> (i < 0 \/ i >= l.length)
  BY <1>1
<1>3. (i + 1 = 1 <=> i = 0) /\ (i + 1) - 1 = i
  BY <1>1
<1>4. LabGetElemAt(l, i + 1) = GetElemAt(l, i)
  BY <1>1, <1>2, <1>3 DEF LabGetElemAt, GetElemAt, Numbered
<1>5. /\ LabRemoveAtIndex(l, i + 1).value = RemoveAtIndex(l, i).value
      /\ \/ LabRemoveAtIndex(l, i + 1).list = RemoveAtIndex(l, i).list
         \/ RemoveAtIndex(l, i).list = Counted(LabRemoveAtIndex(l, i + 1).list, -1)
  <2>1. CASE i < 0 \/ i >= l.length
    BY <1>1, <1>2, <2>1 DEF LabRemoveAtIndex, RemoveAtIndex, Nothing
  <2>2. CASE ~(i < 0 \/ i >= l.length) /\ i = 0
    <3>1. RemoveAtIndex(l, i) = RemoveFromFront(l)
      BY <2>2 DEF RemoveAtIndex
    <3>2. LabRemoveAtIndex(l, i + 1) = LabRemoveFromFront(l)
      BY <1>1, <1>2, <1>3, <2>2 DEF LabRemoveAtIndex
    <3> QED
      BY <3>1, <3>2, LabRemovesFirst
  <2>3. CASE ~(i < 0 \/ i >= l.length) /\ i # 0
    <3>1. RemoveAtIndex(l, i) = [list  |-> Counted(TakeAfter(l, NodeAt(l, i - 1)), -1),
                                 value |-> l.value[NodeAt(l, i)]]
      BY <2>3 DEF RemoveAtIndex
    <3>2. LabRemoveAtIndex(l, i + 1) = [list  |-> TakeAfter(l, NodeAt(l, i - 1)),
                                        value |-> l.value[NodeAt(l, i)]]
      BY <1>1, <1>2, <1>3, <2>3 DEF LabRemoveAtIndex, Numbered
    <3> QED
      BY <3>1, <3>2
  <2> QED
    BY <2>1, <2>2, <2>3
<1>6. SameResult(LabRemoveAtIndex(l, i + 1), RemoveAtIndex(l, i))
  BY <1>5, RemoveAtIndexRemoves, RemovedTheSame
<1> QED
  BY <1>4, <1>6 DEF SameAtIndex

(* list_get_index_of finds the first node with the value, and answers -1 for none. *)
LEMMA LabFindsFirst ==
  ASSUME NEW l, WellLinked(l), NEW v
  PROVE  FindsFirst(l, v)
<1> DEFINE N == l.length
           hits == {i \in 1..LabLength(l) : l.value[Numbered(l, i)] = v}
           at == LabGetIndexOf(l, v)
<1>1. LabLength(l) = N /\ N \in Nat
  BY LabLengthIs
<1> HIDE DEF N
<1>2. hits = {i \in 1..N : l.value[Numbered(l, i)] = v}
  BY <1>1
<1>3. LabIsIn(l, v) <=> hits # {}
  BY <1>1 DEF LabIsIn
<1>4. at = IF hits = {} THEN -1 ELSE CHOOSE i \in hits : \A j \in hits : i <= j
  BY DEF LabGetIndexOf
<1> HIDE DEF hits, at
<1>5. CASE hits = {}
  BY <1>3, <1>4, <1>5 DEF FindsFirst, at
<1>6. CASE hits # {}
  <2>1. hits \in SUBSET Nat
    BY <1>1, <1>2
  <2>2. \E i \in hits : \A j \in hits : i <= j
    BY <1>6, <2>1, LeastNatural
  <2>3. at \in hits /\ \A j \in hits : at <= j
    BY <1>4, <1>6, <2>2
  <2>4. at \in 1..N /\ l.value[Numbered(l, at)] = v
    BY <1>2, <2>3
  <2>5. at # -1 /\ LabIsIn(l, v)
    BY <1>1, <1>3, <1>6, <2>4
  <2>6. ASSUME NEW i \in 0..N - 1 PROVE GetElemAt(l, i) = l.value[NodeAt(l, i)]
    BY <1>1, <2>6 DEF GetElemAt, N
  <2>7. GetElemAt(l, at - 1) = v
    <3>1. at - 1 \in 0..N - 1
      BY <1>1, <2>4
    <3> QED
      BY <2>4, <2>6, <3>1 DEF Numbered
  <2>8. ASSUME NEW i \in 0..at - 2 PROVE GetElemAt(l, i) # v
    <3>1. i \in 0..N - 1 /\ i + 1 \in 1..N /\ ~(at <= i + 1) /\ (i + 1) - 1 = i
      BY <1>1, <2>4
    <3>2. l.value[Numbered(l, i + 1)] # v
      BY <1>2, <2>3, <3>1
    <3>3. Numbered(l, i + 1) = NodeAt(l, i)
      BY <3>1 DEF Numbered
    <3> QED
      BY <2>6, <3>1, <3>2, <3>3
  <2> QED
    BY <2>5, <2>7, <2>8 DEF FindsFirst, at
<1> QED
  BY <1>5, <1>6

(* On every list the server can hold, the list of the linked-list lab, which  *)
(* counts positions from 1 and keeps no counter, and the list of lab 4, which *)
(* counts from 0 and does, add, remove and find the same at each end and at   *)
(* each index from below the first to beyond the last.                        *)
THEOREM ListsOfBothLabsAgree == Spec => []LabListAgrees
<1>1. Sane => LabListAgrees
  <2> SUFFICES ASSUME Sane PROVE LabListAgrees
    OBVIOUS
  <2>1. WellLinked(mylist) /\ mylist.length \in Nat
    BY WellLinkedFacts DEF Sane, ServerTyped
  <2>2. Values \subseteq Int /\ -1..mylist.length + 1 \subseteq Int
    BY <2>1, ListServerAssumption DEF ListServerAssumption
  <2>3. LabLength(mylist) = mylist.length
    BY <2>1, LabLengthIs
  <2>4. /\ SameResult(LabRemoveFromFront(mylist), RemoveFromFront(mylist))
        /\ SameResult(LabRemoveFromBack(mylist), RemoveFromBack(mylist))
    BY <2>1, LabRemovesEndsTheSame
  <2>5. \A v \in Values : SameWithValue(mylist, v) /\ FindsFirst(mylist, v)
    BY <2>1, <2>2, LabAddsTheSame, LabFindsFirst
  <2>6. \A i \in -1..mylist.length + 1 :
          SameAtIndex(mylist, i) /\ \A v \in Values : SameAtIndexWithValue(mylist, i, v)
    BY <2>1, <2>2, LabAtTheSame, LabAddsAtTheSame
  <2> QED
    BY <2>3, <2>4, <2>5, <2>6 DEF LabListAgrees
<1> QED
  BY <1>1, SaneAlways, PTL
=============================================================================
