--------------------------- MODULE BensChilliBowl ---------------------------
(***************************************************************************)
(* Ben's Chilli Bowl: a bounded queue of orders guarded by one mutex and   *)
(* two condition variables (BENSCHILLIBOWL.c), the customers that fill it, *)
(* the cooks that empty it, and main, which waits for all of them and      *)
(* closes the restaurant (main.c).                                         *)
(*                                                                         *)
(* A step is what a thread does from one lock or unlock to the next; the   *)
(* cooks' test of orders_handled, which holds no lock, is a step of its    *)
(* own.                                                                    *)
(***************************************************************************)
EXTENDS Integers, Sequences, FiniteSets

CONSTANTS Customers, Cooks,
          NoThread,            \* "nobody", the owner of an unlocked mutex
          NoOrder,             \* a cook's empty hands
          MaxSize,             \* BENSCHILLIBOWL_SIZE
          OrdersPerCustomer,   \* ORDERS_PER_CUSTOMER
          MaxSpurious          \* bound: wake-ups that nobody signalled

ASSUME ChilliAssumption ==
  /\ IsFiniteSet(Customers) /\ IsFiniteSet(Cooks) /\ Customers \cap Cooks = {} /\ Cooks # {}
  /\ NoThread \notin Customers \cup Cooks
  /\ MaxSize \in Nat \ {0} /\ OrdersPerCustomer \in Nat /\ MaxSpurious \in Nat

Expected == Cardinality(Customers) * OrdersPerCustomer  \* EXPECTED_NUM_ORDERS

Threads == Customers \cup Cooks

VARIABLES mutex,        \* the thread in the monitor
          orders,       \* the linked list at bcb->orders
          currentSize, nextNumber, handled,  \* current_size, next_order_number, orders_handled
          open,         \* FALSE once CloseRestaurant has run
          pc,
          orderNum,     \* the local order_num of AddOrder, what it will return
          placed,       \* the loop counter of each customer
          hand,         \* the order a cook holds
          spurious      \* wake-ups without a signal so far

vars == <<mutex, orders, currentSize, nextNumber, handled, open, pc, orderNum, placed, hand, spurious>>

(***************************************************************************)
(* Customers: out, before AddOrder; adding, in it and holding the mutex;   *)
(* add_wait, blocked on can_add_orders; add_woken, waiting for the mutex   *)
(* inside pthread_cond_wait.                                               *)
(* Cooks: checking, before the loop condition; hungry, before GetOrder;    *)
(* getting, get_wait, get_woken likewise; cooking, with an order in hand;  *)
(* done.                                                                   *)
(***************************************************************************)
Init == /\ mutex = NoThread
        /\ orders = <<>> /\ currentSize = 0 /\ nextNumber = 1 /\ handled = 0
        /\ open = TRUE
        /\ pc = [t \in Threads |-> IF t \in Customers THEN "out" ELSE "checking"]
        /\ orderNum = [c \in Customers |-> 0]
        /\ placed = [c \in Customers |-> 0]
        /\ hand = [k \in Cooks |-> NoOrder]
        /\ spurious = 0

At(place) == {t \in Threads : pc[t] = place}
IsFull == currentSize = MaxSize

Lock(t) == mutex = NoThread /\ mutex' = t

(* pc after thread t moved to "there" and signalled the condition on which   *)
(* threads wait at "wait": one of them, if there is one, wakes up.           *)
MoveAndSignal(t, there, wait, woken) ==
  IF At(wait) = {} THEN pc' = [pc EXCEPT ![t] = there]
  ELSE \E w \in At(wait) : pc' = [pc EXCEPT ![t] = there, ![w] = woken]

-----------------------------------------------------------------------------
(* Fault: the order is put before the others. *)
AddOrderToFront(order) == orders' = <<order>> \o orders

AddOrderToBack(order) == orders' = Append(orders, order)

(* AddOrder.  order_num is read on entry, before any wait. *)
EnterAdd(c) == /\ pc[c] = "out" /\ placed[c] < OrdersPerCustomer
               /\ Lock(c)
               /\ orderNum' = [orderNum EXCEPT ![c] = nextNumber]
               /\ pc' = [pc EXCEPT ![c] = "adding"]
               /\ UNCHANGED <<orders, currentSize, nextNumber, handled, open, placed, hand, spurious>>

WaitForRoom(c) == /\ pc[c] = "adding" /\ IsFull
                  /\ mutex' = NoThread
                  /\ pc' = [pc EXCEPT ![c] = "add_wait"]
                  /\ UNCHANGED <<orders, currentSize, nextNumber, handled, open, orderNum, placed, hand, spurious>>

(* Fault: nobody is told of the order. *)
PlaceOrderSilently(c) == /\ pc[c] = "adding" /\ ~IsFull
                         /\ AddOrderToBack([customer |-> c, number |-> nextNumber])
                         /\ nextNumber' = nextNumber + 1
                         /\ currentSize' = currentSize + 1
                         /\ pc' = [pc EXCEPT ![c] = "out"]
                         /\ mutex' = NoThread
                         /\ placed' = [placed EXCEPT ![c] = @ + 1]
                         /\ UNCHANGED <<handled, open, orderNum, hand, spurious>>

PlaceOrder(c) == /\ pc[c] = "adding" /\ ~IsFull
                 /\ AddOrderToBack([customer |-> c, number |-> nextNumber])
                 /\ nextNumber' = nextNumber + 1
                 /\ currentSize' = currentSize + 1
                 /\ MoveAndSignal(c, "out", "get_wait", "get_woken")
                 /\ mutex' = NoThread
                 /\ placed' = [placed EXCEPT ![c] = @ + 1]
                 /\ UNCHANGED <<handled, open, orderNum, hand, spurious>>

(* GetOrder. *)
EnterGet(k) == /\ pc[k] = "hungry"
               /\ Lock(k)
               /\ pc' = [pc EXCEPT ![k] = "getting"]
               /\ UNCHANGED <<orders, currentSize, nextNumber, handled, open, orderNum, placed, hand, spurious>>

WaitForOrder(k) == /\ pc[k] = "getting" /\ currentSize = 0
                   /\ mutex' = NoThread
                   /\ pc' = [pc EXCEPT ![k] = "get_wait"]
                   /\ UNCHANGED <<orders, currentSize, nextNumber, handled, open, orderNum, placed, hand, spurious>>

(* Faults: a customer is woken only when the queue was full; the order stays in *)
(* the list.                                                                    *)
TakeOrderSignalsIfFull(k) ==
  /\ pc[k] = "getting" /\ currentSize # 0
  /\ hand' = [hand EXCEPT ![k] = Head(orders)]
  /\ orders' = Tail(orders)
  /\ currentSize' = currentSize - 1
  /\ handled' = handled + 1
  /\ IF IsFull THEN MoveAndSignal(k, "cooking", "add_wait", "add_woken")
     ELSE pc' = [pc EXCEPT ![k] = "cooking"]
  /\ mutex' = NoThread
  /\ UNCHANGED <<nextNumber, open, orderNum, placed, spurious>>

TakeOrderLeavesIt(k) ==
  /\ pc[k] = "getting" /\ currentSize # 0
  /\ hand' = [hand EXCEPT ![k] = Head(orders)]
  /\ currentSize' = currentSize - 1
  /\ handled' = handled + 1
  /\ MoveAndSignal(k, "cooking", "add_wait", "add_woken")
  /\ mutex' = NoThread
  /\ UNCHANGED <<orders, nextNumber, open, orderNum, placed, spurious>>

TakeOrder(k) == /\ pc[k] = "getting" /\ currentSize # 0
                /\ hand' = [hand EXCEPT ![k] = Head(orders)]
                /\ orders' = Tail(orders)
                /\ currentSize' = currentSize - 1
                /\ handled' = handled + 1
                /\ MoveAndSignal(k, "cooking", "add_wait", "add_woken")
                /\ mutex' = NoThread
                /\ UNCHANGED <<nextNumber, open, orderNum, placed, spurious>>

(* The end of pthread_cond_wait: the thread has the mutex again and tests    *)
(* its condition again.  POSIX lets a wait end without a signal.             *)
Rewoken(t, wait, woken) == /\ pc[t] = wait
                           /\ spurious < MaxSpurious /\ spurious' = spurious + 1
                           /\ pc' = [pc EXCEPT ![t] = woken]
                           /\ UNCHANGED <<mutex, orders, currentSize, nextNumber, handled, open, orderNum, placed, hand>>

Relock(t, woken, in) == /\ pc[t] = woken
                        /\ Lock(t)
                        /\ pc' = [pc EXCEPT ![t] = in]
                        /\ UNCHANGED <<orders, currentSize, nextNumber, handled, open, orderNum, placed, hand, spurious>>

CustomerWakes(c) == Rewoken(c, "add_wait", "add_woken")
CookWakes(k)     == Rewoken(k, "get_wait", "get_woken")
CustomerRelocks(c) == Relock(c, "add_woken", "adding")
CookRelocks(k)     == Relock(k, "get_woken", "getting")

-----------------------------------------------------------------------------
(* The cook's loop: orders_handled is read without the mutex. *)
(* Fault: a cook goes when all orders have been placed. *)
CheckPlaced(k) == /\ pc[k] = "checking"
                  /\ pc' = [pc EXCEPT ![k] = IF nextNumber - 1 # Expected THEN "hungry" ELSE "done"]
                  /\ UNCHANGED <<mutex, orders, currentSize, nextNumber, handled, open, orderNum, placed, hand, spurious>>

Check(k) == /\ pc[k] = "checking"
            /\ pc' = [pc EXCEPT ![k] = IF handled # Expected THEN "hungry" ELSE "done"]
            /\ UNCHANGED <<mutex, orders, currentSize, nextNumber, handled, open, orderNum, placed, hand, spurious>>

Fulfil(k) == /\ pc[k] = "cooking"
             /\ pc' = [pc EXCEPT ![k] = "checking"]
             /\ hand' = [hand EXCEPT ![k] = NoOrder]
             /\ UNCHANGED <<mutex, orders, currentSize, nextNumber, handled, open, orderNum, placed, spurious>>

(* main joins every thread, then CloseRestaurant frees what is left. *)
CustomersDone == \A c \in Customers : pc[c] = "out" /\ placed[c] = OrdersPerCustomer
CooksDone == \A k \in Cooks : pc[k] = "done"

CloseRestaurant == /\ open /\ CustomersDone /\ CooksDone
                   /\ open' = FALSE
                   /\ orders' = <<>>
                   /\ UNCHANGED <<mutex, currentSize, nextNumber, handled, pc, orderNum, placed, hand, spurious>>

(* What a thread does when the scheduler lets it. *)
CustomerStep(c) == EnterAdd(c) \/ WaitForRoom(c) \/ PlaceOrder(c) \/ CustomerRelocks(c)
CookStep(k) == \/ EnterGet(k) \/ WaitForOrder(k) \/ TakeOrder(k) \/ CookRelocks(k)
               \/ Check(k) \/ Fulfil(k)

Next == \/ \E c \in Customers : CustomerStep(c) \/ CustomerWakes(c)
        \/ \E k \in Cooks : CookStep(k) \/ CookWakes(k)
        \/ CloseRestaurant

Spec == Init /\ [][Next]_vars

(* The scheduler runs every thread that can run; nothing ever wakes a waiting *)
(* thread but a signal.                                                       *)
FairSpec == /\ Spec
            /\ \A c \in Customers : WF_vars(CustomerStep(c))
            /\ \A k \in Cooks : WF_vars(CookStep(k))
            /\ WF_vars(CloseRestaurant)

-----------------------------------------------------------------------------
CustomerPlaces == {"out", "adding", "add_wait", "add_woken"}
CookPlaces == {"checking", "hungry", "getting", "get_wait", "get_woken", "cooking", "done"}
Order == [customer : Customers, number : Nat]

TypeOK == /\ mutex \in Threads \cup {NoThread}
          /\ orders \in Seq(Order)
          /\ currentSize \in Nat /\ nextNumber \in Nat /\ handled \in Nat /\ spurious \in Nat
          /\ open \in BOOLEAN
          /\ pc \in [Threads -> CustomerPlaces \cup CookPlaces]
          /\ \A c \in Customers : pc[c] \in CustomerPlaces
          /\ \A k \in Cooks : pc[k] \in CookPlaces
          /\ orderNum \in [Customers -> Nat] /\ placed \in [Customers -> Nat]
          /\ hand \in [Cooks -> Order \cup {NoOrder}]

(* The monitor is held by the thread that is working in it. *)
MutexOwner == \A t \in Threads : pc[t] \in {"adding", "getting"} <=> mutex = t

(* The list holds exactly the orders placed and not yet handed out, oldest    *)
(* first and numbered without a gap, and current_size counts them.            *)
QueueInOrder == /\ nextNumber = handled + currentSize + 1
                /\ open => /\ currentSize = Len(orders)
                           /\ \A i \in 1..Len(orders) : orders[i].number = handled + i

(* The restaurant never holds more than its size, wherever its customers wait. *)
WithinSize == currentSize <= MaxSize

(* No wake-up is lost.  A waiting cook has a colleague awake in GetOrder for   *)
(* every order in the queue, and a waiting customer has another one awake in   *)
(* AddOrder for every free place: the signals sent are as many as are needed,  *)
(* although each is sent once and a thread that was not waiting may take what  *)
(* a woken one came for.                                                       *)
AwakeCooks     == At("getting") \cup At("get_woken")
AwakeCustomers == At("adding") \cup At("add_woken")
NoLostWakeup ==
  /\ At("get_wait") # {} => currentSize <= Cardinality(AwakeCooks)
  /\ At("add_wait") # {} => MaxSize - currentSize <= Cardinality(AwakeCustomers)

(* No order is in two places: in the hands of two cooks, who would both free   *)
(* it, or in a cook's hands and still in the queue.                            *)
OneOwner ==
  /\ \A k, l \in Cooks : hand[k] # NoOrder /\ hand[l] # NoOrder /\ k # l
                           => hand[k].number # hand[l].number
  /\ \A k \in Cooks, i \in 1..Len(orders) : hand[k] # NoOrder => hand[k].number # orders[i].number

(* CloseRestaurant finds every expected order handled and nothing in the       *)
(* queue, though it does not look (BENSCHILLIBOWL.h 61-63).                    *)
ClosedComplete == ~open => handled = Expected /\ currentSize = 0

(* Once the restaurant is closed nobody comes near it again. *)
ClosedIsQuiet == ~open => CustomersDone /\ CooksDone

(* What holds between any two steps of AddOrder, GetOrder, the cooks and main:  *)
(* the inductive invariant.                                                    *)
ChilliInv == /\ TypeOK
             /\ MutexOwner
             /\ QueueInOrder
             /\ WithinSize
             /\ NoLostWakeup
             /\ ClosedIsQuiet

CustomersWaiting == [i \in 1..Len(orders) |-> orders[i].customer]

Book == INSTANCE OrderBook WITH placed <- nextNumber - 1, waiting <- CustomersWaiting,
                                cooking <- hand, Nothing <- NoOrder

(* The restaurant keeps the order book: with at most MaxSize waiting, a cook gets *)
(* the oldest order, by its number and its customer, each is handed out once,     *)
(* and none is dropped, CloseRestaurant included.                                 *)
ImplementsBook == Book!Spec

(* Every customer gets rid of its orders and every order reaches a cook,       *)
(* without the help of a spurious wake-up.                                     *)
AllOrdersHandled == <>(CustomersDone /\ handled = Expected)

(* "Wait for all customers and cooks to be done" and "close the restaurant"    *)
(* (main.c 70-71), "notify the other cooks that there are no orders left"      *)
(* (BENSCHILLIBOWL.h 84-85).                                                   *)
RestaurantCloses == <>~open
=============================================================================
