-------------------------- MODULE BensChilliProofs --------------------------
(***************************************************************************)
(* Proofs about BensChilliBowl, for any finite sets of customers and       *)
(* cooks, any queue size and any number of orders: the queue keeps the     *)
(* orders in order and within its size, no wake-up is lost, and the        *)
(* restaurant implements the order book of OrderBook.                      *)
(***************************************************************************)
EXTENDS BensChilliBowl, FiniteSetTheorems, TLAPS

USE ChilliAssumption

(* Sets of threads are finite, so their sizes are numbers. *)
LEMMA ThreadSets ==
  ASSUME NEW S \in SUBSET Threads
  PROVE  IsFiniteSet(S) /\ Cardinality(S) \in Nat
<1>1. IsFiniteSet(Threads)
  BY FS_Union DEF Threads
<1> QED
  BY <1>1, FS_Subset, FS_CardinalityType

(* A thread that joins a set adds one to its size. *)
LEMMA Joins ==
  ASSUME NEW S \in SUBSET Threads, NEW t \in Threads, t \notin S
  PROVE  Cardinality(S \cup {t}) = Cardinality(S) + 1
BY ThreadSets, FS_AddElement

(* A thread that leaves a set takes one away. *)
LEMMA Leaves ==
  ASSUME NEW S \in SUBSET Threads, NEW t \in S
  PROVE  Cardinality(S \ {t}) = Cardinality(S) - 1
BY ThreadSets, FS_RemoveElement

(* The sets that NoLostWakeup counts are sets of threads. *)
LEMMA AwakeSets ==
  /\ AwakeCooks \in SUBSET Threads /\ Cardinality(AwakeCooks) \in Nat
  /\ AwakeCustomers \in SUBSET Threads /\ Cardinality(AwakeCustomers) \in Nat
<1>1. AwakeCooks \in SUBSET Threads /\ AwakeCustomers \in SUBSET Threads
  BY DEF AwakeCooks, AwakeCustomers, At
<1> QED
  BY <1>1, ThreadSets

(* The restaurant opens empty and with its mutex free (OpenRestaurant). *)
LEMMA InitChilliInv == Init => ChilliInv
<1> SUFFICES ASSUME Init PROVE ChilliInv
  OBVIOUS
<1> USE DEF Init
<1>1. TypeOK
  BY DEF TypeOK, Threads, CustomerPlaces, CookPlaces
<1>2. MutexOwner
  BY DEF MutexOwner, Threads
<1>3. QueueInOrder /\ WithinSize /\ ClosedIsQuiet
  BY DEF QueueInOrder, WithinSize, ClosedIsQuiet
<1>4. At("get_wait") = {} /\ At("add_wait") = {}
  BY DEF At, Threads
<1> QED
  BY <1>1, <1>2, <1>3, <1>4 DEF ChilliInv, NoLostWakeup

(* Which threads wait and how many are awake decides NoLostWakeup. *)
LEMMA WakeupArithmetic ==
  ASSUME ChilliInv,
         currentSize' \in Nat,
         AwakeCooks' \in SUBSET Threads, AwakeCustomers' \in SUBSET Threads,
         \/ At("get_wait")' = {}
         \/ currentSize' = 0
         \/ /\ At("get_wait") # {}
            /\ Cardinality(AwakeCooks') - currentSize' >= Cardinality(AwakeCooks) - currentSize,
         \/ At("add_wait")' = {}
         \/ currentSize' = MaxSize
         \/ /\ At("add_wait") # {}
            /\ Cardinality(AwakeCustomers') + currentSize' >= Cardinality(AwakeCustomers) + currentSize
  PROVE  NoLostWakeup'
<1>1. /\ Cardinality(AwakeCooks') \in Nat /\ Cardinality(AwakeCustomers') \in Nat
      /\ Cardinality(AwakeCooks) \in Nat /\ Cardinality(AwakeCustomers) \in Nat
      /\ currentSize \in Nat
  BY ThreadSets, AwakeSets DEF ChilliInv, TypeOK
<1>2. At("get_wait")' # {} => currentSize' <= Cardinality(AwakeCooks')
  BY <1>1 DEF ChilliInv, NoLostWakeup
<1>3. At("add_wait")' # {} => MaxSize - currentSize' <= Cardinality(AwakeCustomers')
  BY <1>1 DEF ChilliInv, NoLostWakeup
<1> QED
  BY <1>2, <1>3 DEF NoLostWakeup

(* A customer enters the monitor. *)
LEMMA EnterAddKeepsInv ==
  ASSUME ChilliInv, NEW c \in Customers, EnterAdd(c)
  PROVE  ChilliInv'
<1> USE DEF ChilliInv, EnterAdd, Lock
<1>1. TypeOK'
  BY DEF TypeOK, CustomerPlaces, CookPlaces, Threads
<1>2. MutexOwner'
  BY DEF TypeOK, MutexOwner, Threads
<1>3. QueueInOrder' /\ WithinSize' /\ ClosedIsQuiet'
  BY DEF QueueInOrder, WithinSize, ClosedIsQuiet, CustomersDone, CooksDone
<1>4. NoLostWakeup'
  <2>1. /\ AwakeCooks' = AwakeCooks /\ At("get_wait")' = At("get_wait")
        /\ AwakeCustomers' = AwakeCustomers \cup {c} /\ At("add_wait")' = At("add_wait")
        /\ c \notin AwakeCustomers /\ c \in Threads
    BY DEF TypeOK, AwakeCooks, AwakeCustomers, At, Threads
  <2>2. Cardinality(AwakeCustomers') = Cardinality(AwakeCustomers) + 1
    BY <2>1, AwakeSets, Joins
  <2> QED
    BY <2>1, <2>2, AwakeSets, WakeupArithmetic DEF TypeOK
<1> QED
  BY <1>1, <1>2, <1>3, <1>4

(* A customer that finds the queue full waits; no place is free just then. *)
LEMMA WaitForRoomKeepsInv ==
  ASSUME ChilliInv, NEW c \in Customers, WaitForRoom(c)
  PROVE  ChilliInv'
<1> USE DEF ChilliInv, WaitForRoom
<1>1. TypeOK'
  BY DEF TypeOK, CustomerPlaces, CookPlaces, Threads
<1>2. MutexOwner'
  BY DEF TypeOK, MutexOwner, Threads
<1>3. QueueInOrder' /\ WithinSize' /\ ClosedIsQuiet'
  BY DEF QueueInOrder, WithinSize, ClosedIsQuiet, CustomersDone, CooksDone
<1>4. NoLostWakeup'
  <2>1. /\ AwakeCooks' = AwakeCooks /\ At("get_wait")' = At("get_wait")
        /\ AwakeCustomers' = AwakeCustomers \ {c}
        /\ currentSize' = MaxSize
    BY DEF TypeOK, AwakeCooks, AwakeCustomers, At, Threads, IsFull
  <2> QED
    BY <2>1, AwakeSets, WakeupArithmetic DEF TypeOK, IsFull
<1> QED
  BY <1>1, <1>2, <1>3, <1>4

(* What MoveAndSignal makes of pc: the mover moves, and a waiter, if there   *)
(* is one, wakes up.                                                         *)
LEMMA Signalled ==
  ASSUME TypeOK, NEW t \in Threads, NEW there, NEW wait, NEW woken,
         pc[t] # wait, MoveAndSignal(t, there, wait, woken)
  PROVE  \/ At(wait) = {} /\ pc' = [pc EXCEPT ![t] = there]
         \/ \E w \in At(wait) : /\ w \in Threads /\ w # t
                                /\ pc' = [u \in Threads |-> IF u = t THEN there
                                                            ELSE IF u = w THEN woken ELSE pc[u]]
<1>1. CASE At(wait) = {}
  BY <1>1 DEF MoveAndSignal
<1>2. CASE At(wait) # {}
  <2>1. PICK w \in At(wait) : pc' = [pc EXCEPT ![t] = there, ![w] = woken]
    BY <1>2 DEF MoveAndSignal
  <2>2. w \in Threads /\ w # t
    BY DEF At
  <2>3. pc' = [u \in Threads |-> IF u = t THEN there ELSE IF u = w THEN woken ELSE pc[u]]
    BY <2>1, <2>2 DEF TypeOK
  <2> QED
    BY <2>2, <2>3
<1> QED
  BY <1>1, <1>2

(* A customer places its order and signals a cook. *)
LEMMA PlaceOrderKeepsInv ==
  ASSUME ChilliInv, NEW c \in Customers, PlaceOrder(c)
  PROVE  ChilliInv'
<1> USE DEF ChilliInv, PlaceOrder, AddOrderToBack
<1>1. c \in Threads /\ pc[c] # "get_wait" /\ TypeOK
  BY DEF Threads
<1>2. \/ At("get_wait") = {} /\ pc' = [pc EXCEPT ![c] = "out"]
      \/ \E w \in At("get_wait") :
           /\ w \in Threads /\ w # c
           /\ pc' = [u \in Threads |-> IF u = c THEN "out"
                                       ELSE IF u = w THEN "get_woken" ELSE pc[u]]
  BY <1>1, Signalled
<1>3. open
  BY DEF ClosedIsQuiet, CustomersDone
<1>4. orders' \in Seq(Order) /\ Len(orders') = Len(orders) + 1
      /\ \A i \in 1..Len(orders) : orders'[i] = orders[i]
      /\ orders'[Len(orders) + 1].number = nextNumber
  BY DEF TypeOK, Order
<1>5. TypeOK'
  <2>1. /\ pc' \in [Threads -> CustomerPlaces \cup CookPlaces]
        /\ \A c2 \in Customers : pc'[c2] \in CustomerPlaces
        /\ \A k2 \in Cooks : pc'[k2] \in CookPlaces
    <3>1. CASE pc' = [pc EXCEPT ![c] = "out"]
      BY <3>1 DEF TypeOK, CustomerPlaces, CookPlaces, Threads
    <3>2. ASSUME NEW w \in At("get_wait"), w \in Threads,
                 pc' = [u \in Threads |-> IF u = c THEN "out"
                                          ELSE IF u = w THEN "get_woken" ELSE pc[u]]
          PROVE  <2>1!1 /\ <2>1!2 /\ <2>1!3
      <4>1. w \in Cooks
        BY <3>2 DEF TypeOK, At, CustomerPlaces, Threads
      <4> QED
        BY <3>2, <4>1 DEF TypeOK, CustomerPlaces, CookPlaces, Threads
    <3> QED
      BY <1>2, <3>1, <3>2
  <2>2. nextNumber' \in Nat /\ currentSize' \in Nat /\ placed' \in [Customers -> Nat]
    BY DEF TypeOK
  <2>3. mutex' \in Threads \cup {NoThread}
    OBVIOUS
  <2> QED
    BY <1>4, <2>1, <2>2, <2>3 DEF TypeOK
<1>6. MutexOwner'
  BY <1>2 DEF TypeOK, MutexOwner, Threads, At
<1>7. QueueInOrder' /\ WithinSize' /\ ClosedIsQuiet'
  <2>1. Len(orders) = currentSize /\ currentSize \in Nat /\ handled \in Nat
        /\ nextNumber = handled + currentSize + 1
    BY <1>3 DEF TypeOK, QueueInOrder
  <2>2. \A i \in 1..Len(orders') : orders'[i].number = handled' + i
    <3>1. TAKE i \in 1..Len(orders')
    <3>2. CASE i \in 1..Len(orders)
      BY <1>3, <1>4, <3>2 DEF QueueInOrder
    <3>3. CASE i = Len(orders) + 1
      BY <1>4, <2>1, <3>3
    <3> QED
      BY <1>4, <2>1, <3>2, <3>3
  <2>3. WithinSize'
    BY <2>1 DEF WithinSize, IsFull
  <2> QED
    BY <1>3, <1>4, <2>1, <2>2, <2>3 DEF QueueInOrder, ClosedIsQuiet
<1>8. NoLostWakeup'
  <2>1. /\ AwakeCustomers' = AwakeCustomers \ {c} /\ c \in AwakeCustomers
        /\ At("add_wait")' = At("add_wait")
    BY <1>2 DEF TypeOK, AwakeCustomers, At, Threads
  <2>2. Cardinality(AwakeCustomers') = Cardinality(AwakeCustomers) - 1
    BY <2>1, AwakeSets, Leaves
  <2>3. \/ At("get_wait")' = {} /\ AwakeCooks' \in SUBSET Threads
        \/ /\ At("get_wait") # {} /\ AwakeCooks' \in SUBSET Threads
           /\ Cardinality(AwakeCooks') = Cardinality(AwakeCooks) + 1
    <3>1. CASE At("get_wait") = {} /\ pc' = [pc EXCEPT ![c] = "out"]
      BY <3>1 DEF TypeOK, At, AwakeCooks
    <3>2. ASSUME NEW w \in At("get_wait"), w \in Threads, w # c,
                 pc' = [u \in Threads |-> IF u = c THEN "out"
                                          ELSE IF u = w THEN "get_woken" ELSE pc[u]]
          PROVE  /\ At("get_wait") # {} /\ AwakeCooks' \in SUBSET Threads
                 /\ Cardinality(AwakeCooks') = Cardinality(AwakeCooks) + 1
      <4>1. AwakeCooks' = AwakeCooks \cup {w} /\ w \notin AwakeCooks
        BY <3>2 DEF TypeOK, AwakeCooks, At, Threads
      <4> QED
        BY <3>2, <4>1, AwakeSets, Joins
    <3> QED
      BY <1>2, <3>1, <3>2
  <2>4. currentSize \in Nat /\ currentSize' = currentSize + 1
        /\ AwakeCustomers' \in SUBSET Threads
    BY <2>1, AwakeSets DEF TypeOK
  <2> QED
    BY <2>1, <2>2, <2>3, <2>4, AwakeSets, WakeupArithmetic
<1> QED
  BY <1>5, <1>6, <1>7, <1>8

(* A cook enters the monitor. *)
LEMMA EnterGetKeepsInv ==
  ASSUME ChilliInv, NEW k \in Cooks, EnterGet(k)
  PROVE  ChilliInv'
<1> USE DEF ChilliInv, EnterGet, Lock
<1>1. TypeOK'
  BY DEF TypeOK, CustomerPlaces, CookPlaces, Threads
<1>2. MutexOwner'
  BY DEF TypeOK, MutexOwner, Threads
<1>3. QueueInOrder' /\ WithinSize' /\ ClosedIsQuiet'
  BY DEF QueueInOrder, WithinSize, ClosedIsQuiet, CustomersDone, CooksDone
<1>4. NoLostWakeup'
  <2>1. /\ AwakeCustomers' = AwakeCustomers /\ At("add_wait")' = At("add_wait")
        /\ AwakeCooks' = AwakeCooks \cup {k} /\ At("get_wait")' = At("get_wait")
        /\ k \notin AwakeCooks /\ k \in Threads
    BY DEF TypeOK, AwakeCooks, AwakeCustomers, At, Threads
  <2>2. Cardinality(AwakeCooks') = Cardinality(AwakeCooks) + 1
    BY <2>1, AwakeSets, Joins
  <2> QED
    BY <2>1, <2>2, AwakeSets, WakeupArithmetic DEF TypeOK
<1> QED
  BY <1>1, <1>2, <1>3, <1>4

(* A cook that finds the queue empty waits; there is no order just then. *)
LEMMA WaitForOrderKeepsInv ==
  ASSUME ChilliInv, NEW k \in Cooks, WaitForOrder(k)
  PROVE  ChilliInv'
<1> USE DEF ChilliInv, WaitForOrder
<1>1. TypeOK'
  BY DEF TypeOK, CustomerPlaces, CookPlaces, Threads
<1>2. MutexOwner'
  BY DEF TypeOK, MutexOwner, Threads
<1>3. QueueInOrder' /\ WithinSize' /\ ClosedIsQuiet'
  BY DEF QueueInOrder, WithinSize, ClosedIsQuiet, CustomersDone, CooksDone
<1>4. NoLostWakeup'
  <2>1. /\ AwakeCustomers' = AwakeCustomers /\ At("add_wait")' = At("add_wait")
        /\ AwakeCooks' = AwakeCooks \ {k} /\ currentSize' = 0
    BY DEF TypeOK, AwakeCooks, AwakeCustomers, At, Threads
  <2> QED
    BY <2>1, AwakeSets, WakeupArithmetic DEF TypeOK
<1> QED
  BY <1>1, <1>2, <1>3, <1>4

(* A cook takes the oldest order and signals a customer. *)
LEMMA TakeOrderKeepsInv ==
  ASSUME ChilliInv, NEW k \in Cooks, TakeOrder(k)
  PROVE  ChilliInv'
<1> USE DEF ChilliInv, TakeOrder
<1>1. k \in Threads /\ pc[k] # "add_wait" /\ TypeOK
  BY DEF Threads
<1>2. \/ At("add_wait") = {} /\ pc' = [pc EXCEPT ![k] = "cooking"]
      \/ \E w \in At("add_wait") :
           /\ w \in Threads /\ w # k
           /\ pc' = [u \in Threads |-> IF u = k THEN "cooking"
                                       ELSE IF u = w THEN "add_woken" ELSE pc[u]]
  BY <1>1, Signalled
<1>3. open
  BY DEF ClosedIsQuiet, CooksDone
<1>4. currentSize \in Nat /\ currentSize # 0 /\ orders # <<>> /\ orders \in Seq(Order)
  BY <1>3 DEF TypeOK, QueueInOrder
<1>5. /\ Head(orders) \in Order /\ orders' \in Seq(Order) /\ Len(orders') = Len(orders) - 1
      /\ \A i \in 1..Len(orders') : orders'[i] = orders[i + 1]
  BY <1>4
<1>6. TypeOK'
  <2>1. /\ pc' \in [Threads -> CustomerPlaces \cup CookPlaces]
        /\ \A c2 \in Customers : pc'[c2] \in CustomerPlaces
        /\ \A k2 \in Cooks : pc'[k2] \in CookPlaces
    <3>1. CASE pc' = [pc EXCEPT ![k] = "cooking"]
      BY <3>1 DEF TypeOK, CustomerPlaces, CookPlaces, Threads
    <3>2. ASSUME NEW w \in At("add_wait"), w \in Threads,
                 pc' = [u \in Threads |-> IF u = k THEN "cooking"
                                          ELSE IF u = w THEN "add_woken" ELSE pc[u]]
          PROVE  <2>1!1 /\ <2>1!2 /\ <2>1!3
      <4>1. w \in Customers
        BY <3>2 DEF TypeOK, At, CookPlaces, Threads
      <4> QED
        BY <3>2, <4>1 DEF TypeOK, CustomerPlaces, CookPlaces, Threads
    <3> QED
      BY <1>2, <3>1, <3>2
  <2>2. handled' \in Nat /\ currentSize' \in Nat /\ hand' \in [Cooks -> Order \cup {NoOrder}]
    BY <1>4, <1>5 DEF TypeOK
  <2>3. mutex' \in Threads \cup {NoThread}
    OBVIOUS
  <2> QED
    BY <1>5, <2>1, <2>2, <2>3 DEF TypeOK
<1>7. MutexOwner'
  BY <1>2 DEF TypeOK, MutexOwner, Threads, At
<1>8. QueueInOrder' /\ WithinSize' /\ ClosedIsQuiet'
  BY <1>3, <1>4, <1>5 DEF TypeOK, QueueInOrder, WithinSize, ClosedIsQuiet
<1>9. NoLostWakeup'
  <2>1. /\ AwakeCooks' = AwakeCooks \ {k} /\ k \in AwakeCooks
        /\ At("get_wait")' = At("get_wait")
    BY <1>2 DEF TypeOK, AwakeCooks, At, Threads
  <2>2. Cardinality(AwakeCooks') = Cardinality(AwakeCooks) - 1
    BY <2>1, AwakeSets, Leaves
  <2>3. \/ At("add_wait")' = {} /\ AwakeCustomers' \in SUBSET Threads
        \/ /\ At("add_wait") # {} /\ AwakeCustomers' \in SUBSET Threads
           /\ Cardinality(AwakeCustomers') = Cardinality(AwakeCustomers) + 1
    <3>1. CASE At("add_wait") = {} /\ pc' = [pc EXCEPT ![k] = "cooking"]
      BY <3>1 DEF TypeOK, At, AwakeCustomers
    <3>2. ASSUME NEW w \in At("add_wait"), w \in Threads, w # k,
                 pc' = [u \in Threads |-> IF u = k THEN "cooking"
                                          ELSE IF u = w THEN "add_woken" ELSE pc[u]]
          PROVE  /\ At("add_wait") # {} /\ AwakeCustomers' \in SUBSET Threads
                 /\ Cardinality(AwakeCustomers') = Cardinality(AwakeCustomers) + 1
      <4>1. AwakeCustomers' = AwakeCustomers \cup {w} /\ w \notin AwakeCustomers
        BY <3>2 DEF TypeOK, AwakeCustomers, At, Threads
      <4> QED
        BY <3>2, <4>1, AwakeSets, Joins
    <3> QED
      BY <1>2, <3>1, <3>2
  <2>4. currentSize' \in Nat /\ currentSize' = currentSize - 1
        /\ AwakeCooks' \in SUBSET Threads
    BY <1>4, <2>1, AwakeSets
  <2> QED
    BY <1>4, <2>1, <2>2, <2>3, <2>4, AwakeSets, WakeupArithmetic
<1> QED
  BY <1>6, <1>7, <1>8, <1>9

(* A wake-up without a signal only adds to those awake. *)
LEMMA SpuriousKeepsInv ==
  ASSUME ChilliInv, NEW t \in Threads,
         (t \in Customers /\ CustomerWakes(t)) \/ (t \in Cooks /\ CookWakes(t))
  PROVE  ChilliInv'
<1> USE DEF ChilliInv, CustomerWakes, CookWakes, Rewoken
<1>1. TypeOK'
  <2>1. CASE t \in Customers /\ CustomerWakes(t)
    BY <2>1 DEF TypeOK, CustomerPlaces, CookPlaces, Threads
  <2>2. CASE t \in Cooks /\ CookWakes(t)
    BY <2>2 DEF TypeOK, CustomerPlaces, CookPlaces, Threads
  <2> QED
    BY <2>1, <2>2
<1>2. MutexOwner'
  BY DEF TypeOK, MutexOwner, Threads
<1>3. QueueInOrder' /\ WithinSize' /\ ClosedIsQuiet'
  BY DEF QueueInOrder, WithinSize, ClosedIsQuiet, CustomersDone, CooksDone
<1>4. NoLostWakeup'
  <2>1. /\ AwakeCooks' = AwakeCooks \/ (AwakeCooks' = AwakeCooks \cup {t} /\ t \notin AwakeCooks)
        /\ \/ AwakeCustomers' = AwakeCustomers
           \/ AwakeCustomers' = AwakeCustomers \cup {t} /\ t \notin AwakeCustomers
        /\ At("get_wait")' \subseteq At("get_wait") /\ At("add_wait")' \subseteq At("add_wait")
    BY DEF TypeOK, AwakeCooks, AwakeCustomers, At
  <2>2. /\ Cardinality(AwakeCooks') >= Cardinality(AwakeCooks)
        /\ Cardinality(AwakeCustomers') >= Cardinality(AwakeCustomers)
        /\ AwakeCooks' \in SUBSET Threads /\ AwakeCustomers' \in SUBSET Threads
        /\ Cardinality(AwakeCooks') \in Nat /\ Cardinality(AwakeCustomers') \in Nat
    BY <2>1, AwakeSets, Joins
  <2>3. currentSize \in Nat /\ currentSize' = currentSize
    BY DEF TypeOK
  <2>4. Cardinality(AwakeCooks') - currentSize' >= Cardinality(AwakeCooks) - currentSize
    BY <2>2, <2>3, AwakeSets
  <2>5. Cardinality(AwakeCustomers') + currentSize' >= Cardinality(AwakeCustomers) + currentSize
    BY <2>2, <2>3, AwakeSets
  <2> HIDE DEF ChilliInv
  <2> QED
    BY <2>1, <2>2, <2>3, <2>4, <2>5, WakeupArithmetic
<1> QED
  BY <1>1, <1>2, <1>3, <1>4

(* A woken thread that gets the mutex back was awake and stays awake. *)
LEMMA RelockKeepsInv ==
  ASSUME ChilliInv, NEW t \in Threads,
         (t \in Customers /\ CustomerRelocks(t)) \/ (t \in Cooks /\ CookRelocks(t))
  PROVE  ChilliInv'
<1> USE DEF ChilliInv, CustomerRelocks, CookRelocks, Relock, Lock
<1>1. TypeOK'
  BY DEF TypeOK, CustomerPlaces, CookPlaces, Threads
<1>2. MutexOwner'
  BY DEF TypeOK, MutexOwner, Threads
<1>3. QueueInOrder' /\ WithinSize' /\ ClosedIsQuiet'
  BY DEF QueueInOrder, WithinSize, ClosedIsQuiet, CustomersDone, CooksDone
<1>4. /\ AwakeCooks' = AwakeCooks /\ AwakeCustomers' = AwakeCustomers
      /\ At("get_wait")' = At("get_wait") /\ At("add_wait")' = At("add_wait")
  BY DEF TypeOK, AwakeCooks, AwakeCustomers, At
<1>5. NoLostWakeup'
  BY <1>4 DEF NoLostWakeup
<1> QED
  BY <1>1, <1>2, <1>3, <1>5

(* Outside the monitor nothing that counts changes. *)
LEMMA CookLoopKeepsInv ==
  ASSUME ChilliInv, NEW k \in Cooks, Check(k) \/ Fulfil(k)
  PROVE  ChilliInv'
<1> USE DEF ChilliInv, Check, Fulfil
<1>1. TypeOK'
  BY DEF TypeOK, CustomerPlaces, CookPlaces, Threads
<1>2. MutexOwner'
  BY DEF TypeOK, MutexOwner, Threads
<1>3. QueueInOrder' /\ WithinSize'
  BY DEF QueueInOrder, WithinSize
<1>4. ClosedIsQuiet'
  BY DEF TypeOK, ClosedIsQuiet, CustomersDone, CooksDone
<1>5. /\ AwakeCooks' = AwakeCooks /\ AwakeCustomers' = AwakeCustomers
      /\ At("get_wait")' = At("get_wait") /\ At("add_wait")' = At("add_wait")
  BY DEF TypeOK, AwakeCooks, AwakeCustomers, At, Threads
<1>6. NoLostWakeup'
  BY <1>5 DEF NoLostWakeup
<1> QED
  BY <1>1, <1>2, <1>3, <1>4, <1>6

(* Closing frees the list when everybody is done. *)
LEMMA CloseKeepsInv ==
  ASSUME ChilliInv, CloseRestaurant
  PROVE  ChilliInv'
<1> USE DEF ChilliInv, CloseRestaurant
<1>1. TypeOK' /\ MutexOwner'
  <2>1. orders' \in Seq(Order)
    OBVIOUS
  <2> QED
    BY <2>1 DEF TypeOK, MutexOwner
<1>2. QueueInOrder' /\ WithinSize' /\ ClosedIsQuiet'
  BY DEF QueueInOrder, WithinSize, ClosedIsQuiet, CustomersDone, CooksDone
<1>3. NoLostWakeup'
  BY DEF NoLostWakeup, AwakeCooks, AwakeCustomers, At
<1> QED
  BY <1>1, <1>2, <1>3

(* A step in which nothing happens. *)
LEMMA StutterKeepsInv == ChilliInv /\ UNCHANGED vars => ChilliInv'
BY DEF vars, ChilliInv, TypeOK, MutexOwner, QueueInOrder, WithinSize, NoLostWakeup, ClosedIsQuiet,
   CustomersDone, CooksDone, AwakeCooks, AwakeCustomers, At

-----------------------------------------------------------------------------
(* Every step of the restaurant preserves the invariant. *)
LEMMA NextChilliInv == ChilliInv /\ [Next]_vars => ChilliInv'
<1> SUFFICES ASSUME ChilliInv, [Next]_vars PROVE ChilliInv'
  OBVIOUS
<1>1. ASSUME NEW c \in Customers, CustomerStep(c) \/ CustomerWakes(c)
      PROVE  ChilliInv'
  <2>1. c \in Threads
    BY DEF Threads
  <2> QED
    BY <1>1, <2>1, EnterAddKeepsInv, WaitForRoomKeepsInv, PlaceOrderKeepsInv, RelockKeepsInv,
       SpuriousKeepsInv DEF CustomerStep
<1>2. ASSUME NEW k \in Cooks, CookStep(k) \/ CookWakes(k)
      PROVE  ChilliInv'
  <2>1. k \in Threads
    BY DEF Threads
  <2> QED
    BY <1>2, <2>1, EnterGetKeepsInv, WaitForOrderKeepsInv, TakeOrderKeepsInv, RelockKeepsInv,
       SpuriousKeepsInv, CookLoopKeepsInv DEF CookStep
<1> QED
  BY <1>1, <1>2, CloseKeepsInv, StutterKeepsInv DEF Next

(* The queue of BENSCHILLIBOWL.c keeps its orders in the order in which they *)
(* were numbered and within max_size, and loses no wake-up, whatever the     *)
(* number of customers, cooks and orders.                                    *)
THEOREM ChilliInvariant == Spec => []ChilliInv
<1>1. Init => ChilliInv
  BY InitChilliInv
<1>2. ChilliInv /\ [Next]_vars => ChilliInv'
  BY NextChilliInv
<1> QED
  BY <1>1, <1>2, PTL DEF Spec

-----------------------------------------------------------------------------
(* Orders leave the queue as their numbers come up: what a cook holds has a       *)
(* number already handled, and what is queued has a later one.                    *)
HeldIsHandled == \A k \in Cooks : hand[k] # NoOrder => hand[k].number <= handled
ClosedIsEmpty == ~open => orders = <<>>
HandsInv == HeldIsHandled /\ ClosedIsEmpty /\ OneOwner

LEMMA InitHandsInv == Init => HandsInv
BY DEF Init, HandsInv, HeldIsHandled, ClosedIsEmpty, OneOwner

(* Numbers in the queue, as long as there is one. *)
LEMMA QueuedIsLater ==
  ASSUME ChilliInv, open, NEW i \in 1..Len(orders)
  PROVE  orders[i].number = handled + i
BY DEF ChilliInv, QueueInOrder

(* A step that takes nothing and puts nothing down in a cook's hands. *)
LEMMA HandsAlone ==
  ASSUME ChilliInv, ChilliInv', HandsInv, hand' = hand, handled' = handled, open' = open,
         open \/ orders' = orders
  PROVE  HandsInv'
<1>1. HeldIsHandled' /\ ClosedIsEmpty'
  BY DEF HandsInv, HeldIsHandled, ClosedIsEmpty
<1>2. CASE open
  <2>1. ASSUME NEW k \in Cooks, NEW i \in 1..Len(orders'), hand[k] # NoOrder
        PROVE  hand[k].number # orders'[i].number
    <3>1. orders'[i].number = handled + i
      BY <1>2 DEF ChilliInv, QueueInOrder
    <3>2. hand[k].number \in Nat /\ handled \in Nat /\ hand[k].number <= handled
      BY <2>1 DEF ChilliInv, TypeOK, Order, HandsInv, HeldIsHandled
    <3>3. i \in Nat /\ i >= 1
      BY DEF ChilliInv, TypeOK
    <3> QED
      BY <3>1, <3>2, <3>3
  <2> QED
    BY <1>1, <2>1 DEF HandsInv, OneOwner
<1>3. CASE orders' = orders
  BY <1>1, <1>3 DEF HandsInv, OneOwner
<1> QED
  BY <1>2, <1>3

LEMMA TakeOrderKeepsHands ==
  ASSUME ChilliInv, HandsInv, NEW k \in Cooks, TakeOrder(k)
  PROVE  HandsInv'
<1>1. open
  BY DEF TakeOrder, ChilliInv, ClosedIsQuiet, CooksDone
<1>2. /\ orders \in Seq(Order) /\ Len(orders) = currentSize /\ currentSize # 0
      /\ currentSize \in Nat /\ handled \in Nat
  BY <1>1 DEF TakeOrder, ChilliInv, TypeOK, QueueInOrder
<1>3. /\ hand' = [hand EXCEPT ![k] = Head(orders)] /\ orders' = Tail(orders)
      /\ handled' = handled + 1 /\ open' = open
  BY DEF TakeOrder
<1>4. Head(orders) = orders[1] /\ orders[1].number = handled + 1
  BY <1>1, <1>2, QueuedIsLater
<1>5. hand \in [Cooks -> Order \cup {NoOrder}]
  BY DEF ChilliInv, TypeOK
(* The other cooks hold earlier orders. *)
<1>6. ASSUME NEW l \in Cooks, l # k, hand[l] # NoOrder
      PROVE  hand'[l] = hand[l] /\ hand[l].number \in Nat /\ hand[l].number <= handled
  BY <1>3, <1>5, <1>6 DEF HandsInv, HeldIsHandled, Order
<1>7. hand'[k] = orders[1]
  BY <1>3, <1>4, <1>5
<1>8. HeldIsHandled'
  <2> SUFFICES ASSUME NEW l \in Cooks, hand'[l] # NoOrder PROVE hand'[l].number <= handled'
    BY DEF HeldIsHandled
  <2>1. CASE l = k
    BY <1>2, <1>3, <1>4, <1>7, <2>1
  <2>2. CASE l # k
    BY <1>2, <1>3, <1>5, <1>6, <2>2
  <2> QED
    BY <2>1, <2>2
<1>9. ASSUME NEW i \in 1..Len(orders')
      PROVE  i \in Nat /\ orders'[i].number = handled + 1 + i
  <2>1. i \in Nat /\ i + 1 \in 1..Len(orders) /\ orders'[i] = orders[i + 1]
    BY <1>2, <1>3
  <2>2. orders[i + 1].number = handled + (i + 1)
    BY <1>1, <2>1, QueuedIsLater
  <2> QED
    BY <1>2, <2>1, <2>2
<1>10. OneOwner'
  <2>1. ASSUME NEW l \in Cooks, NEW m \in Cooks, hand'[l] # NoOrder, hand'[m] # NoOrder, l # m
        PROVE  hand'[l].number # hand'[m].number
    <3>1. CASE l # k /\ m # k
      <4>1. hand[l] # NoOrder /\ hand[m] # NoOrder
        BY <1>3, <1>5, <2>1, <3>1
      <4> QED
        BY <1>6, <2>1, <3>1, <4>1 DEF HandsInv, OneOwner
    <3>2. CASE l = k
      <4>1. hand[m] # NoOrder
        BY <1>3, <1>5, <2>1, <3>2
      <4> QED
        BY <1>2, <1>4, <1>6, <1>7, <2>1, <3>2, <4>1
    <3>3. CASE m = k
      <4>1. hand[l] # NoOrder
        BY <1>3, <1>5, <2>1, <3>3
      <4> QED
        BY <1>2, <1>4, <1>6, <1>7, <2>1, <3>3, <4>1
    <3> QED
      BY <3>1, <3>2, <3>3
  <2>2. ASSUME NEW l \in Cooks, NEW i \in 1..Len(orders'), hand'[l] # NoOrder
        PROVE  hand'[l].number # orders'[i].number
    <3>1. i \in Nat /\ orders'[i].number = handled + 1 + i /\ i >= 1
      BY <1>2, <1>3, <1>9
    <3>2. CASE l = k
      BY <1>2, <1>4, <1>7, <3>1, <3>2
    <3>3. CASE l # k
      <4>1. hand[l] # NoOrder
        BY <1>3, <1>5, <2>2, <3>3
      <4> QED
        BY <1>2, <1>6, <3>1, <3>3, <4>1
    <3> QED
      BY <3>2, <3>3
  <2> QED
    BY <2>1, <2>2 DEF OneOwner
<1> QED
  BY <1>1, <1>3, <1>8, <1>10 DEF HandsInv, ClosedIsEmpty

(* Hands that are emptied hold nothing that another could hold too. *)
LEMMA FulfilKeepsHands ==
  ASSUME ChilliInv, HandsInv, NEW k \in Cooks, Fulfil(k)
  PROVE  HandsInv'
<1>1. /\ hand' = [hand EXCEPT ![k] = NoOrder] /\ handled' = handled
      /\ orders' = orders /\ open' = open
  BY DEF Fulfil
<1>2. ASSUME NEW l \in Cooks, hand'[l] # NoOrder PROVE hand'[l] = hand[l]
  BY <1>1, <1>2 DEF ChilliInv, TypeOK
<1> QED
  BY <1>1, <1>2 DEF HandsInv, HeldIsHandled, ClosedIsEmpty, OneOwner

LEMMA CloseKeepsHands == ASSUME HandsInv, CloseRestaurant PROVE HandsInv'
<1>1. orders' = <<>> /\ hand' = hand /\ handled' = handled
  BY DEF CloseRestaurant
<1>2. 1..Len(orders') = {}
  BY <1>1
<1> QED
  BY <1>1, <1>2 DEF HandsInv, HeldIsHandled, ClosedIsEmpty, OneOwner

LEMMA NextHandsInv == ChilliInv /\ ChilliInv' /\ HandsInv /\ [Next]_vars => HandsInv'
<1> SUFFICES ASSUME ChilliInv, ChilliInv', HandsInv, [Next]_vars PROVE HandsInv'
  OBVIOUS
<1>1. ASSUME NEW c \in Customers, CustomerStep(c) PROVE HandsInv'
  <2>1. CASE PlaceOrder(c)
    <3>1. open
      BY <2>1 DEF PlaceOrder, ChilliInv, ClosedIsQuiet, CustomersDone
    <3> QED
      BY <2>1, <3>1, HandsAlone DEF PlaceOrder
  <2>2. CASE EnterAdd(c) \/ WaitForRoom(c) \/ CustomerRelocks(c)
    BY <2>2, HandsAlone DEF EnterAdd, WaitForRoom, CustomerRelocks, Relock
  <2> QED
    BY <1>1, <2>1, <2>2 DEF CustomerStep
<1>2. ASSUME NEW k \in Cooks, CookStep(k) PROVE HandsInv'
  <2>1. CASE EnterGet(k) \/ WaitForOrder(k) \/ CookRelocks(k) \/ Check(k)
    BY <2>1, HandsAlone DEF EnterGet, WaitForOrder, CookRelocks, Relock, Check
  <2> QED
    BY <1>2, <2>1, TakeOrderKeepsHands, FulfilKeepsHands DEF CookStep
<1>3. ASSUME NEW t \in Threads, CustomerWakes(t) \/ CookWakes(t) PROVE HandsInv'
  BY <1>3, HandsAlone DEF CustomerWakes, CookWakes, Rewoken
<1>4. CASE UNCHANGED vars
  BY <1>4, HandsAlone DEF vars
<1> QED
  BY <1>1, <1>2, <1>3, <1>4, CloseKeepsHands DEF Next, Threads

(* An order is in one pair of hands, and not in the queue any more (GetOrder      *)
(* takes it out in the step that hands it out): for any numbers of cooks,         *)
(* customers and orders, no two cooks free the same order.                        *)
THEOREM OneOwnerTheorem == Spec => []OneOwner
<1>1. ChilliInv /\ ChilliInv' /\ HandsInv /\ [Next]_vars => HandsInv'
  BY NextHandsInv
<1>2. Init => HandsInv
  BY InitHandsInv
<1>3. Spec => []HandsInv
  BY <1>1, <1>2, ChilliInvariant, PTL DEF Spec
<1>4. HandsInv => OneOwner
  BY DEF HandsInv
<1> QED
  BY <1>3, <1>4, PTL

-----------------------------------------------------------------------------
(* The orders placed so far, by customer and turn, and how many there are.        *)
Turns == Customers \X (1..OrdersPerCustomer)
PlacedOrders == {o \in Turns : o[2] <= placed[o[1]]}

WithinOrders == \A c \in Customers : /\ placed[c] <= OrdersPerCustomer
                                     /\ pc[c] # "out" => placed[c] < OrdersPerCustomer
CountInv == /\ WithinOrders
            /\ nextNumber = Cardinality(PlacedOrders) + 1
            /\ \A k \in Cooks : pc[k] = "done" => handled = Expected

LEMMA TurnsExpected ==
  /\ IsFiniteSet(Turns) /\ Cardinality(Turns) = Expected /\ Expected \in Nat
  /\ IsFiniteSet(PlacedOrders) /\ Cardinality(PlacedOrders) \in Nat
  /\ Cardinality(PlacedOrders) <= Expected
<1>1. IsFiniteSet(1..OrdersPerCustomer) /\ Cardinality(1..OrdersPerCustomer) = OrdersPerCustomer
  BY FS_Interval
<1>2. IsFiniteSet(Turns) /\ Cardinality(Turns) = Expected
  BY <1>1, FS_Product DEF Turns, Expected
<1>3. PlacedOrders \subseteq Turns
  BY DEF PlacedOrders
<1> QED
  BY <1>2, <1>3, FS_Subset, FS_CardinalityType

(* Steps that place no order and hand none out. *)
LEMMA CountAlone ==
  ASSUME ChilliInv, CountInv, WithinOrders',
         UNCHANGED <<placed, nextNumber, handled>>,
         \A k \in Cooks : pc'[k] = "done" => pc[k] = "done" \/ handled = Expected
  PROVE  CountInv'
BY DEF CountInv, PlacedOrders

LEMMA PlaceOrderCounts ==
  ASSUME ChilliInv, CountInv, NEW c \in Customers, PlaceOrder(c)
  PROVE  CountInv'
<1>1. /\ placed \in [Customers -> Nat] /\ placed' = [placed EXCEPT ![c] = @ + 1]
      /\ placed[c] < OrdersPerCustomer /\ nextNumber' = nextNumber + 1 /\ handled' = handled
      /\ OrdersPerCustomer \in Nat /\ nextNumber \in Nat
  BY DEF ChilliInv, TypeOK, PlaceOrder, CountInv, WithinOrders
<1>2. /\ pc'[c] = "out"
      /\ \A t \in Threads : t = c \/ pc'[t] = pc[t] \/ (pc[t] = "get_wait" /\ pc'[t] = "get_woken")
  <2>1. c \in Threads /\ pc[c] # "get_wait" /\ TypeOK
    BY DEF PlaceOrder, Threads, ChilliInv
  <2>2. MoveAndSignal(c, "out", "get_wait", "get_woken")
    BY DEF PlaceOrder
  <2> QED
    BY <2>1, <2>2, Signalled DEF At, TypeOK
<1>3. WithinOrders'
  <2> SUFFICES ASSUME NEW d \in Customers
               PROVE  /\ placed'[d] <= OrdersPerCustomer
                      /\ pc'[d] # "out" => placed'[d] < OrdersPerCustomer
    BY DEF WithinOrders
  <2>1. CASE d = c
    BY <1>1, <1>2, <2>1
  <2>2. CASE d # c
    <3>1. placed'[d] = placed[d]
      BY <1>1, <2>2
    <3>2. pc'[d] # "out" => pc[d] # "out"
      BY <1>2, <2>2 DEF ChilliInv, TypeOK, CustomerPlaces, Threads
    <3> QED
      BY <3>1, <3>2 DEF CountInv, WithinOrders
  <2> QED
    BY <2>1, <2>2
<1>4. Cardinality(PlacedOrders') = Cardinality(PlacedOrders) + 1
  <2> DEFINE new == <<c, placed[c] + 1>>
  <2>1. new \in Turns /\ new \notin PlacedOrders
    BY <1>1 DEF Turns, PlacedOrders
  <2>2. \A o \in Turns : o[2] <= placed'[o[1]] <=> o[2] <= placed[o[1]] \/ o = new
    <3> TAKE o \in Turns
    <3>1. o[1] \in Customers /\ o[2] \in Nat /\ o = <<o[1], o[2]>>
      BY <1>1 DEF Turns
    <3>2. CASE o[1] = c
      BY <1>1, <3>1, <3>2
    <3>3. CASE o[1] # c
      BY <1>1, <3>1, <3>3
    <3> QED
      BY <3>2, <3>3
  <2> HIDE DEF new
  <2>3. PlacedOrders' = PlacedOrders \cup {new}
    BY <2>1, <2>2 DEF PlacedOrders, Turns
  <2> QED
    BY <2>1, <2>3, TurnsExpected, FS_AddElement
<1>5. \A k \in Cooks : pc'[k] = "done" => handled' = Expected
  BY <1>1, <1>2 DEF CountInv, Threads
<1> QED
  BY <1>1, <1>3, <1>4, <1>5, TurnsExpected DEF CountInv

(* As long as an order can be taken, fewer than expected have been, and no cook  *)
(* has gone.                                                                     *)
LEMMA TakeOrderCounts ==
  ASSUME ChilliInv, CountInv, NEW k \in Cooks, TakeOrder(k)
  PROVE  CountInv'
<1>1. /\ placed' = placed /\ nextNumber' = nextNumber
      /\ nextNumber = handled + currentSize + 1 /\ currentSize # 0 /\ currentSize \in Nat /\ handled \in Nat
  BY DEF ChilliInv, TypeOK, QueueInOrder, TakeOrder
<1>2. /\ pc'[k] = "cooking"
      /\ \A t \in Threads : t = k \/ pc'[t] = pc[t] \/ (pc[t] = "add_wait" /\ pc'[t] = "add_woken")
  <2>1. k \in Threads /\ pc[k] # "add_wait" /\ TypeOK
    BY DEF TakeOrder, Threads, ChilliInv
  <2>2. MoveAndSignal(k, "cooking", "add_wait", "add_woken")
    BY DEF TakeOrder
  <2> QED
    BY <2>1, <2>2, Signalled DEF At, TypeOK
<1>3. handled # Expected
  BY <1>1, TurnsExpected DEF CountInv
<1>4. WithinOrders'
  BY <1>1, <1>2 DEF CountInv, WithinOrders, ChilliInv, TypeOK, CustomerPlaces, Threads
<1>5. \A l \in Cooks : pc'[l] # "done"
  BY <1>2, <1>3 DEF CountInv, Threads
<1> QED
  BY <1>1, <1>4, <1>5 DEF CountInv, PlacedOrders

LEMMA NextCountInv == ChilliInv /\ CountInv /\ [Next]_vars => CountInv'
<1> SUFFICES ASSUME ChilliInv, CountInv, [Next]_vars PROVE CountInv'
  OBVIOUS
<1> USE DEF ChilliInv, TypeOK, WithinOrders, Threads
<1>1. ASSUME NEW c \in Customers, EnterAdd(c) \/ WaitForRoom(c) \/ CustomerRelocks(c) \/ CustomerWakes(c)
      PROVE  CountInv'
  <2>1. PICK place \in {"adding", "add_wait", "add_woken"} :
           pc' = [pc EXCEPT ![c] = place] /\ placed[c] < OrdersPerCustomer
    BY <1>1 DEF EnterAdd, WaitForRoom, CustomerRelocks, CustomerWakes, Relock, Rewoken, CountInv
  <2>2. WithinOrders' /\ UNCHANGED <<placed, nextNumber, handled>>
    BY <1>1, <2>1 DEF EnterAdd, WaitForRoom, CustomerRelocks, CustomerWakes, Relock, Rewoken, CountInv
  <2> QED
    BY <2>1, <2>2, CountAlone
<1>2. ASSUME NEW k \in Cooks, EnterGet(k) \/ WaitForOrder(k) \/ CookRelocks(k) \/ CookWakes(k) \/ Check(k) \/ Fulfil(k)
      PROVE  CountInv'
  <2>1. PICK place \in CookPlaces :
           pc' = [pc EXCEPT ![k] = place] /\ (place = "done" => handled = Expected)
    BY <1>2 DEF EnterGet, WaitForOrder, CookRelocks, CookWakes, Check, Fulfil, Relock, Rewoken, CookPlaces
  <2>2. WithinOrders' /\ UNCHANGED <<placed, nextNumber, handled>>
    BY <1>2, <2>1 DEF EnterGet, WaitForOrder, CookRelocks, CookWakes, Check, Fulfil, Relock, Rewoken, CountInv
  <2> QED
    BY <2>1, <2>2, CountAlone
<1>3. CASE CloseRestaurant \/ UNCHANGED vars
  <2>1. WithinOrders' /\ UNCHANGED <<placed, nextNumber, handled, pc>>
    BY <1>3 DEF CloseRestaurant, vars, CountInv
  <2> QED
    BY <2>1, CountAlone
<1> QED
  BY <1>1, <1>2, <1>3, PlaceOrderCounts, TakeOrderCounts DEF Next, CustomerStep, CookStep

LEMMA InitCountInv == Init => CountInv
<1> SUFFICES ASSUME Init PROVE CountInv
  OBVIOUS
<1>1. PlacedOrders = {}
  BY DEF Init, PlacedOrders, Turns
<1>2. Cardinality(PlacedOrders) = 0
  BY <1>1, FS_EmptySet
<1> QED
  BY <1>2 DEF Init, CountInv, WithinOrders, Threads

(* CloseRestaurant, which does not look, finds every expected order handled and   *)
(* nothing left in the queue (BENSCHILLIBOWL.h 61-63): a cook goes only when all  *)
(* expected orders have been handed out, and no more than these are ever placed.  *)
THEOREM ClosesComplete == Spec => []ClosedComplete
<1>1. ChilliInv /\ CountInv => ClosedComplete
  <2> SUFFICES ASSUME ChilliInv, CountInv, ~open PROVE handled = Expected /\ currentSize = 0
    BY DEF ClosedComplete
  <2>1. handled = Expected
    BY DEF ChilliInv, ClosedIsQuiet, CooksDone, CountInv
  <2>2. nextNumber = handled + currentSize + 1 /\ currentSize \in Nat
    BY DEF ChilliInv, QueueInOrder, TypeOK
  <2> QED
    BY <2>1, <2>2, TurnsExpected DEF CountInv
<1>2. Spec => []CountInv
  BY InitCountInv, NextCountInv, ChilliInvariant, PTL DEF Spec
<1> QED
  BY <1>1, <1>2, ChilliInvariant, PTL

-----------------------------------------------------------------------------
(* A cook that is not cooking has nothing in its hands. *)
EmptyHands == \A k \in Cooks : pc[k] # "cooking" => hand[k] = NoOrder

LEMMA NextEmptyHands == ChilliInv /\ EmptyHands /\ [Next]_vars => EmptyHands'
<1> SUFFICES ASSUME ChilliInv, EmptyHands, [Next]_vars PROVE EmptyHands'
  OBVIOUS
<1>0. /\ pc \in [Threads -> CustomerPlaces \cup CookPlaces] /\ hand \in [Cooks -> Order \cup {NoOrder}]
      /\ \A c \in Customers : pc[c] \in CustomerPlaces
      /\ Customers \cap Cooks = {} /\ Cooks \subseteq Threads /\ Customers \subseteq Threads
  BY DEF ChilliInv, TypeOK, Threads
<1>1. ASSUME NEW c \in Customers, EnterAdd(c) \/ WaitForRoom(c) \/ CustomerRelocks(c) \/ CustomerWakes(c)
      PROVE  EmptyHands'
  BY <1>0, <1>1 DEF EmptyHands, EnterAdd, WaitForRoom, CustomerRelocks, CustomerWakes, Relock, Rewoken
<1>2. ASSUME NEW k \in Cooks, EnterGet(k) \/ WaitForOrder(k) \/ CookRelocks(k) \/ CookWakes(k) \/ Check(k)
      PROVE  EmptyHands'
  BY <1>0, <1>2 DEF EmptyHands, EnterGet, WaitForOrder, CookRelocks, CookWakes, Check, Relock, Rewoken
<1>3. ASSUME NEW k \in Cooks, Fulfil(k) PROVE EmptyHands'
  BY <1>0, <1>3 DEF EmptyHands, Fulfil
<1>4. ASSUME NEW c \in Customers, PlaceOrder(c) PROVE EmptyHands'
  <2>1. \A l \in Cooks : pc'[l] = pc[l] \/ pc[l] = "get_wait"
    <3>1. c \in Threads /\ pc[c] # "get_wait" /\ TypeOK
      BY <1>0, <1>4 DEF PlaceOrder, ChilliInv
    <3>2. MoveAndSignal(c, "out", "get_wait", "get_woken")
      BY <1>4 DEF PlaceOrder
    <3> QED
      BY <1>0, <3>1, <3>2, Signalled DEF At
  <2> QED
    BY <1>4, <2>1 DEF PlaceOrder, EmptyHands
<1>5. ASSUME NEW k \in Cooks, TakeOrder(k) PROVE EmptyHands'
  <2>1. /\ pc'[k] = "cooking"
        /\ \A l \in Cooks : l = k \/ pc'[l] = pc[l] \/ pc[l] = "add_wait"
    <3>1. k \in Threads /\ pc[k] # "add_wait" /\ TypeOK
      BY <1>0, <1>5 DEF TakeOrder, ChilliInv
    <3>2. MoveAndSignal(k, "cooking", "add_wait", "add_woken")
      BY <1>5 DEF TakeOrder
    <3> QED
      BY <1>0, <3>1, <3>2, Signalled DEF At
  <2>2. hand' = [hand EXCEPT ![k] = Head(orders)]
    BY <1>5 DEF TakeOrder
  <2> QED
    BY <1>0, <2>1, <2>2 DEF EmptyHands
<1>6. CASE CloseRestaurant \/ UNCHANGED vars
  BY <1>6 DEF EmptyHands, CloseRestaurant, vars
<1> QED
  BY <1>1, <1>2, <1>3, <1>4, <1>5, <1>6 DEF Next, CustomerStep, CookStep

(* The customers of a queue; then of a longer and of a shorter one. *)
Senders(s) == [i \in 1..Len(s) |-> s[i].customer]

LEMMA SendersTyped ==
  ASSUME NEW s \in Seq(Order)
  PROVE  /\ Senders(s) \in Seq(Customers) /\ Len(Senders(s)) = Len(s)
         /\ \A i \in 1..Len(s) : Senders(s)[i] = s[i].customer
<1>1. Len(s) \in Nat /\ \A i \in 1..Len(s) : s[i].customer \in Customers
  <2>1. ASSUME NEW i \in 1..Len(s) PROVE s[i].customer \in Customers
    <3>1. s[i] \in Order
      OBVIOUS
    <3> QED
      BY <3>1 DEF Order
  <2> QED
    BY <2>1
<1>2. Senders(s) \in [1..Len(s) -> Customers]
  BY <1>1 DEF Senders
<1>3. Senders(s) \in Seq(Customers) /\ Len(Senders(s)) = Len(s)
  BY <1>1, <1>2
<1> QED
  BY <1>3 DEF Senders

LEMMA SendersOfMore ==
  ASSUME NEW s \in Seq(Order), NEW order \in Order
  PROVE  Senders(Append(s, order)) = Append(Senders(s), order.customer)
<1> DEFINE longer == Append(s, order)
<1>1. /\ longer \in Seq(Order) /\ Len(longer) = Len(s) + 1 /\ Len(s) \in Nat
      /\ longer[Len(s) + 1] = order /\ \A i \in 1..Len(s) : longer[i] = s[i]
  OBVIOUS
<1> HIDE DEF longer
<1>2. Senders(s) \in Seq(Customers) /\ Len(Senders(s)) = Len(s)
  BY SendersTyped
<1>3. /\ Append(Senders(s), order.customer) \in Seq(Customers)
      /\ Len(Append(Senders(s), order.customer)) = Len(s) + 1
      /\ Append(Senders(s), order.customer)[Len(s) + 1] = order.customer
      /\ \A i \in 1..Len(s) : Append(Senders(s), order.customer)[i] = Senders(s)[i]
  BY <1>2 DEF Order
<1>4. /\ Senders(longer) \in Seq(Customers) /\ Len(Senders(longer)) = Len(s) + 1
      /\ \A i \in 1..(Len(s) + 1) : Senders(longer)[i] = longer[i].customer
  BY <1>1, SendersTyped
<1>5. ASSUME NEW i \in 1..(Len(s) + 1)
      PROVE  Senders(longer)[i] = Append(Senders(s), order.customer)[i]
  BY <1>1, <1>3, <1>4, SendersTyped
<1> QED
  BY <1>3, <1>4, <1>5 DEF longer

LEMMA SendersOfLess ==
  ASSUME NEW s \in Seq(Order), s # <<>>
  PROVE  /\ Senders(s) # <<>> /\ Head(Senders(s)) = Head(s).customer
         /\ Senders(Tail(s)) = Tail(Senders(s))
<1>1. /\ Len(s) \in Nat /\ Len(s) >= 1 /\ Len(Tail(s)) = Len(s) - 1 /\ Tail(s) \in Seq(Order)
      /\ Head(s) = s[1] /\ \A i \in 1..(Len(s) - 1) : Tail(s)[i] = s[i + 1]
  OBVIOUS
<1>2. Senders(s) \in Seq(Customers) /\ Len(Senders(s)) = Len(s) /\ Senders(s)[1] = s[1].customer
  BY <1>1, SendersTyped
<1>3. Senders(s) # <<>> /\ Head(Senders(s)) = Head(s).customer
  BY <1>1, <1>2
<1>4. /\ Tail(Senders(s)) \in Seq(Customers) /\ Len(Tail(Senders(s))) = Len(s) - 1
      /\ \A i \in 1..(Len(s) - 1) : Tail(Senders(s))[i] = Senders(s)[i + 1]
  BY <1>1, <1>2
<1>5. /\ Senders(Tail(s)) \in Seq(Customers) /\ Len(Senders(Tail(s))) = Len(s) - 1
      /\ \A i \in 1..(Len(s) - 1) : Senders(Tail(s))[i] = Tail(s)[i].customer
  BY <1>1, SendersTyped
<1>6. ASSUME NEW i \in 1..(Len(s) - 1)
      PROVE  Senders(Tail(s))[i] = Tail(Senders(s))[i]
  BY <1>1, <1>4, <1>5, SendersTyped
<1> QED
  BY <1>3, <1>4, <1>5, <1>6

(* Every step of the restaurant is a step of the order book or none. *)
LEMMA StepImplementsBook ==
  ASSUME ChilliInv, CountInv, EmptyHands, [Next]_vars
  PROVE  [Book!Next]_Book!vars
<1>0. /\ nextNumber \in Nat /\ handled \in Nat /\ currentSize \in Nat
      /\ nextNumber = handled + currentSize + 1 /\ currentSize <= MaxSize
      /\ orders \in Seq(Order) /\ (open => currentSize = Len(orders))
      /\ CustomersWaiting = Senders(orders) /\ CustomersWaiting' = Senders(orders')
  BY DEF ChilliInv, TypeOK, QueueInOrder, WithinSize, CustomersWaiting, Senders
<1>1. ASSUME NEW c \in Customers, PlaceOrder(c) PROVE Book!Next
  <2>1. /\ open /\ currentSize # MaxSize /\ nextNumber' = nextNumber + 1 /\ hand' = hand
        /\ orders' = Append(orders, [customer |-> c, number |-> nextNumber])
    BY <1>1 DEF PlaceOrder, AddOrderToBack, IsFull, ChilliInv, ClosedIsQuiet, CustomersDone
  <2>2. [customer |-> c, number |-> nextNumber] \in Order
    BY <1>0 DEF Order
  <2>3. CustomersWaiting' = Append(CustomersWaiting, c)
    BY <1>0, <2>1, <2>2, SendersOfMore
  <2>4. Len(CustomersWaiting) = Len(orders)
    BY <1>0 DEF CustomersWaiting
  <2>5. Len(CustomersWaiting) < MaxSize
    BY <1>0, <2>1, <2>4
  <2>6. Book!Place(c)
    BY <1>0, <2>1, <2>3, <2>5 DEF Book!Place
  <2> QED
    BY <2>6 DEF Book!Next
<1>2. ASSUME NEW k \in Cooks, TakeOrder(k) PROVE Book!Next
  <2>1. /\ open /\ currentSize # 0 /\ nextNumber' = nextNumber /\ pc[k] = "getting"
        /\ hand' = [hand EXCEPT ![k] = Head(orders)] /\ orders' = Tail(orders)
    BY <1>2 DEF TakeOrder, ChilliInv, ClosedIsQuiet, CooksDone
  <2>2. /\ orders # <<>> /\ Head(orders) = orders[1] /\ orders[1] \in Order
        /\ Len(CustomersWaiting) = Len(orders)
    BY <1>0, <2>1 DEF CustomersWaiting
  <2>3. orders[1].number = handled + 1
    BY <1>0, <2>1, <2>2, QueuedIsLater
  <2>4. Book!served + 1 = handled + 1
    BY <1>0, <2>1, <2>2 DEF Book!served
  <2>5. Head(orders) = [customer |-> Head(orders).customer, number |-> handled + 1]
    BY <2>2, <2>3 DEF Order
  <2>6. /\ CustomersWaiting # <<>> /\ Head(CustomersWaiting) = Head(orders).customer
        /\ CustomersWaiting' = Tail(CustomersWaiting)
    BY <1>0, <2>1, <2>2, SendersOfLess
  <2>7. hand[k] = NoOrder
    BY <2>1 DEF EmptyHands
  <2>8. Book!Serve(k)
    BY <2>1, <2>4, <2>5, <2>6, <2>7 DEF Book!Serve
  <2> QED
    BY <2>8 DEF Book!Next
<1>3. ASSUME NEW k \in Cooks, Fulfil(k) PROVE Book!Next
  <2>1. Book!Finish(k)
    BY <1>0, <1>3 DEF Fulfil, Book!Finish
  <2> QED
    BY <2>1 DEF Book!Next
(* main closes a restaurant in which no order waits. *)
<1>4. CASE CloseRestaurant
  <2>1. /\ open /\ (\A k \in Cooks : pc[k] = "done") /\ orders' = <<>>
        /\ UNCHANGED <<nextNumber, hand>>
    BY <1>4 DEF CloseRestaurant, CooksDone
  <2>2. handled = Expected /\ nextNumber - 1 <= Expected
    BY <1>0, <2>1, TurnsExpected DEF CountInv
  <2>3. orders = <<>>
    BY <1>0, <2>1, <2>2, TurnsExpected
  <2> QED
    BY <1>0, <2>1, <2>3 DEF Book!vars
<1>5. ASSUME UNCHANGED <<nextNumber, orders, hand>> PROVE UNCHANGED Book!vars
  BY <1>0, <1>5 DEF Book!vars
<1>6. \/ \E c \in Customers : PlaceOrder(c)
      \/ \E k \in Cooks : TakeOrder(k) \/ Fulfil(k)
      \/ CloseRestaurant
      \/ UNCHANGED <<nextNumber, orders, hand>>
  BY DEF Next, vars, CustomerStep, CookStep, CustomerWakes, CookWakes, Rewoken, CustomerRelocks,
     CookRelocks, Relock, EnterAdd, WaitForRoom, EnterGet, WaitForOrder, Check
<1> QED
  BY <1>1, <1>2, <1>3, <1>4, <1>5, <1>6

(* The monitor keeps the order book: AddOrder puts each order behind the others, a *)
(* cook that has nothing in hand gets from GetOrder the oldest one with its number *)
(* and its customer, each is handed out once, at most max_size wait, and           *)
(* CloseRestaurant throws none away.                                               *)
THEOREM RefinesBook == Spec => ImplementsBook
<1>1. Init => Book!Init
  <2> SUFFICES ASSUME Init PROVE Book!Init
    OBVIOUS
  <2>1. Len(orders) = 0 /\ nextNumber - 1 = 0 /\ hand = [k \in Cooks |-> NoOrder]
    BY DEF Init
  <2>2. CustomersWaiting = <<>>
    BY <2>1 DEF CustomersWaiting
  <2> QED
    BY <2>1, <2>2 DEF Book!Init
<1>2. Init => EmptyHands
  BY DEF Init, EmptyHands
<1>3. Spec => []CountInv
  BY InitCountInv, NextCountInv, ChilliInvariant, PTL DEF Spec
<1>4. Spec => []EmptyHands
  BY <1>2, NextEmptyHands, ChilliInvariant, PTL DEF Spec
<1>5. ChilliInv /\ CountInv /\ EmptyHands /\ [Next]_vars => [Book!Next]_Book!vars
  BY StepImplementsBook
<1> QED
  BY <1>1, <1>3, <1>4, <1>5, ChilliInvariant, PTL DEF Spec, ImplementsBook, Book!Spec
=============================================================================
