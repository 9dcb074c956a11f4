----------------------------- MODULE OrderBook ------------------------------
(***************************************************************************)
(* What the restaurant promises: orders are numbered in the order in which *)
(* they are placed, at most MaxSize of them wait, and a cook, who has one  *)
(* order at a time, gets the one that has waited longest, as its customer  *)
(* placed it.  So each is served once, in that order, and none is dropped. *)
(***************************************************************************)
EXTENDS Integers, Sequences

CONSTANTS Customers, Cooks, MaxSize, Nothing

VARIABLES placed,   \* how many orders have been placed: numbers 1..placed
          waiting,  \* the customers of the last of them, which wait, oldest first
          cooking   \* the order each cook has, or Nothing

vars == <<placed, waiting, cooking>>

Init == placed = 0 /\ waiting = <<>> /\ cooking = [k \in Cooks |-> Nothing]

Place(c) == /\ Len(waiting) < MaxSize
            /\ placed' = placed + 1
            /\ waiting' = Append(waiting, c)
            /\ UNCHANGED cooking

served == placed - Len(waiting)

Serve(k) == /\ cooking[k] = Nothing /\ waiting # <<>>
            /\ cooking' = [cooking EXCEPT ![k] = [customer |-> Head(waiting), number |-> served + 1]]
            /\ waiting' = Tail(waiting)
            /\ UNCHANGED placed

Finish(k) == /\ cooking' = [cooking EXCEPT ![k] = Nothing]
             /\ UNCHANGED <<placed, waiting>>

Next == \/ \E c \in Customers : Place(c)
        \/ \E k \in Cooks : Serve(k) \/ Finish(k)

Spec == Init /\ [][Next]_vars
=============================================================================
