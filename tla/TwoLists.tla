------------------------------ MODULE TwoLists -------------------------------
(***************************************************************************)
(* The two linked lists of the repository side by side: on every list that *)
(* the commands of the server of lab 4 build, the list of the other lab    *)
(* does the same.                                                          *)
(***************************************************************************)
EXTENDS ListServer, LabList

SameList(l, m) == Elements(l) = Elements(m) /\ Allocated(l) = Allocated(m)
SameResult(r, s) == SameList(r.list, s.list) /\ r.value = s.value

(* The functions of both, with the value v and the position i, counted from 0. *)
SameWithValue(l, v) ==
  /\ SameList(LabAddToFront(l, v), AddToFront(l, v))
  /\ SameList(LabAddToBack(l, v), AddToBack(l, v))

SameAtIndex(l, i) ==
  /\ SameResult(LabRemoveAtIndex(l, i + 1), RemoveAtIndex(l, i))
  /\ LabGetElemAt(l, i + 1) = GetElemAt(l, i)

SameAtIndexWithValue(l, i, v) == SameList(LabAddAtIndex(l, v, i + 1), AddAtIndex(l, i, v))

(* What only the list of the lab has finds the first position of a value. *)
FindsFirst(l, v) ==
  LET at == LabGetIndexOf(l, v)
  IN /\ LabIsIn(l, v) <=> at # -1
     /\ at # -1 => /\ GetElemAt(l, at - 1) = v
                   /\ \A i \in 0..at - 2 : GetElemAt(l, i) # v

(* The two lists do the same, positions from 1 in the one and from 0 in the      *)
(* other, at the ends and beyond them too.  (Looked at when a client is at the   *)
(* prompt and nobody waits in the backlog: every list gets there.)               *)
LabListAgrees == (\E c \in Clients : pc[c] = "prompt") /\ backlog = <<>> =>
  /\ LabLength(mylist) = mylist.length
  /\ SameResult(LabRemoveFromFront(mylist), RemoveFromFront(mylist))
  /\ SameResult(LabRemoveFromBack(mylist), RemoveFromBack(mylist))
  /\ \A v \in Values : SameWithValue(mylist, v) /\ FindsFirst(mylist, v)
  /\ \A i \in -1..mylist.length + 1 :
       /\ SameAtIndex(mylist, i)
       /\ \A v \in Values : SameAtIndexWithValue(mylist, i, v)
=============================================================================
