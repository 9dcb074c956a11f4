------------------------------ MODULE LabList -------------------------------
(***************************************************************************)
(* The other linked list of the repository (Lab : Linked Lists, list.c):   *)
(* positions are counted from 1, and there is no counter, so that the      *)
(* length is counted anew each time.  The same pointers as in LinkedList.  *)
(***************************************************************************)
EXTENDS LinkedList

LabLength(l) == Len(Chain(l))

LabAddToFront(l, v) == PutFirst(l, v)
LabAddToBack(l, v)  == IF l.head = Null THEN PutFirst(l, v) ELSE PutAfter(l, LastNode(l), v)

(* temp starts at the first node as number 1. *)
Numbered(l, number) == NodeAt(l, number - 1)

LabAddAtIndex(l, v, index) ==
  IF index < 1 \/ index > LabLength(l) + 1 THEN l
  ELSE IF index = 1 THEN PutFirst(l, v)
  ELSE PutAfter(l, Numbered(l, index - 1), v)

LabRemoveFromFront(l) == IF l.head = Null THEN Nothing(l)
                         ELSE [list |-> TakeFirst(l), value |-> l.value[l.head]]

LabRemoveFromBack(l) ==
  IF l.head = Null \/ l.next[l.head] = Null THEN LabRemoveFromFront(l)
  ELSE [list |-> TakeAfter(l, LastButOne(l)), value |-> l.value[LastNode(l)]]

(* Fault: the range counts from 0. *)
LabRemoveAtIndexFromZero(l, index) ==
  IF index < 0 \/ index >= LabLength(l) THEN Nothing(l)
  ELSE IF index <= 1 THEN LabRemoveFromFront(l)
  ELSE [list |-> TakeAfter(l, Numbered(l, index - 1)), value |-> l.value[Numbered(l, index)]]

LabRemoveAtIndex(l, index) ==
  IF index < 1 \/ index > LabLength(l) THEN Nothing(l)
  ELSE IF index = 1 THEN LabRemoveFromFront(l)
  ELSE [list |-> TakeAfter(l, Numbered(l, index - 1)), value |-> l.value[Numbered(l, index)]]

LabGetElemAt(l, index) == IF index < 1 \/ index > LabLength(l) THEN -1 ELSE l.value[Numbered(l, index)]

(* The number of the first node with the value, -1 if there is none. *)
LabGetIndexOf(l, v) ==
  LET hits == {i \in 1..LabLength(l) : l.value[Numbered(l, i)] = v}
  IN IF hits = {} THEN -1 ELSE CHOOSE i \in hits : \A j \in hits : i <= j

LabIsIn(l, v) == \E i \in 1..LabLength(l) : l.value[Numbered(l, i)] = v
=============================================================================
