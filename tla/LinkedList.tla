----------------------------- MODULE LinkedList -----------------------------
(***************************************************************************)
(* The linked list of lab 4 (list.c) at the level of its pointers, as the  *)
(* functions change it: a list is a record of its head, its counter, and   *)
(* the nodes it has allocated, with their next pointers and their values.  *)
(* A function returns the new list, or the list and a value.               *)
(*                                                                         *)
(* Addresses are numbers and malloc takes the lowest one that is free: an  *)
(* address that was freed is soon used again.                              *)
(***************************************************************************)
EXTENDS Integers, Sequences, FiniteSets

Null == 0

EmptyList == [head |-> Null, length |-> 0, next |-> <<>>, value |-> <<>>]

Allocated(l) == DOMAIN l.next

(* malloc of a node. *)
Fresh(l) == CHOOSE n \in 1..Cardinality(Allocated(l)) + 1 : n \notin Allocated(l)

(* The node that a pointer reaches which starts at the head and follows next *)
(* so many times.                                                            *)
NodeAt(l, hops) == LET at[i \in 0..hops] == IF i = 0 THEN l.head ELSE l.next[at[i - 1]]
                   IN at[hops]

(* The nodes from the head on; one more than there are if the chain does not end. *)
Chain(l) ==
  LET at[i \in 1..Cardinality(Allocated(l)) + 1] ==
        IF i = 1 THEN l.head
        ELSE IF at[i - 1] \in Allocated(l) THEN l.next[at[i - 1]] ELSE Null
  IN [i \in {i \in DOMAIN at : at[i] \in Allocated(l)} |-> at[i]]

Elements(l) == LET chain == Chain(l) IN [i \in DOMAIN chain |-> l.value[chain[i]]]

-----------------------------------------------------------------------------
(* A new node at the head, or behind a node. *)
With(f, n, x) == [m \in DOMAIN f \cup {n} |-> IF m = n THEN x ELSE f[m]]

PutFirst(l, v) == LET n == Fresh(l)
                  IN [l EXCEPT !.head = n, !.next = With(@, n, l.head), !.value = With(@, n, v)]

PutAfter(l, node, v) ==
  LET n == Fresh(l)
  IN [l EXCEPT !.next = With([@ EXCEPT ![node] = n], n, l.next[node]), !.value = With(@, n, v)]

(* free of a node. *)
Without(l, n) == [l EXCEPT !.next = [m \in DOMAIN @ \ {n} |-> @[m]],
                           !.value = [m \in DOMAIN @ \ {n} |-> @[m]]]

TakeFirst(l)       == Without([l EXCEPT !.head = l.next[l.head]], l.head)
TakeAfter(l, node) == LET n == l.next[node]
                      IN Without([l EXCEPT !.next[node] = l.next[n]], n)

(* The node whose next is NULL, and the one before it. *)
LastNode(l) == CHOOSE n \in Allocated(l) : l.next[n] = Null
LastButOne(l) == CHOOSE n \in Allocated(l) : l.next[n] = LastNode(l)

Counted(l, by) == [l EXCEPT !.length = @ + by]

-----------------------------------------------------------------------------
AddToFront(l, v) == Counted(PutFirst(l, v), 1)

AddToBack(l, v) == Counted(IF l.head = Null THEN PutFirst(l, v) ELSE PutAfter(l, LastNode(l), v), 1)

(* Fault: one hop too many. *)
AddAtIndexTooFar(l, i, v) == IF i < 0 \/ i > l.length THEN l
                             ELSE IF i = 0 THEN AddToFront(l, v)
                             ELSE Counted(PutAfter(l, NodeAt(l, IF i < l.length THEN i ELSE i - 1), v), 1)

(* An index out of range is ignored; 0 goes to AddToFront, which counts. *)
AddAtIndex(l, i, v) == IF i < 0 \/ i > l.length THEN l
                       ELSE IF i = 0 THEN AddToFront(l, v)
                       ELSE Counted(PutAfter(l, NodeAt(l, i - 1), v), 1)

(* What the functions that remove return: the list, and the value or -1. *)
Nothing(l) == [list |-> l, value |-> -1]

RemoveFromFront(l) == IF l.head = Null THEN Nothing(l)
                      ELSE [list |-> Counted(TakeFirst(l), -1), value |-> l.value[l.head]]

RemoveFromBack(l) ==
  IF l.head = Null THEN Nothing(l)
  ELSE IF l.next[l.head] = Null THEN [list |-> Counted(TakeFirst(l), -1), value |-> l.value[l.head]]
  ELSE [list |-> Counted(TakeAfter(l, LastButOne(l)), -1), value |-> l.value[LastNode(l)]]

(* Fault: the counter is forgotten. *)
RemoveAtIndexUncounted(l, i) ==
  IF i < 0 \/ i >= l.length THEN Nothing(l)
  ELSE IF i = 0 THEN RemoveFromFront(l)
  ELSE [list |-> TakeAfter(l, NodeAt(l, i - 1)), value |-> l.value[NodeAt(l, i)]]

RemoveAtIndex(l, i) ==
  IF i < 0 \/ i >= l.length THEN Nothing(l)
  ELSE IF i = 0 THEN RemoveFromFront(l)
  ELSE [list |-> Counted(TakeAfter(l, NodeAt(l, i - 1)), -1), value |-> l.value[NodeAt(l, i)]]

GetElemAt(l, i) == IF i < 0 \/ i >= l.length THEN -1 ELSE l.value[NodeAt(l, i)]

-----------------------------------------------------------------------------
(* The chain of nodes ends, holds every node that was allocated and not freed *)
(* (none is lost, none is used after its free), and the counter is its length.*)
ListIsSound(l) == LET chain == Chain(l)
                  IN /\ {chain[i] : i \in DOMAIN chain} = Allocated(l)
                     /\ Len(chain) = Cardinality(Allocated(l))
                     /\ \A n \in Allocated(l) : l.next[n] \in Allocated(l) \cup {Null}
                     /\ l.length = Len(chain)
=============================================================================
