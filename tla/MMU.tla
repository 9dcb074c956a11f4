-------------------------------- MODULE MMU ---------------------------------
(***************************************************************************)
(* The memory management simulator of lab 8 (mmu.c, list.c): a partition   *)
(* of SIZE addresses, a list of free and a list of allocated blocks, and   *)
(* the three instructions of the input file: allocate, free, coalesce.     *)
(*                                                                         *)
(* A block is a record of the addresses from start to end and a pid, 0     *)
(* when it is free.  The linked lists are sequences.                       *)
(***************************************************************************)
EXTENDS Integers, Sequences, FiniteSets, SequencesExt

CONSTANTS SIZE,     \* PARTITION_SIZE
          Pids,     \* the processes in the input file
          Requests  \* the sizes it asks for: any integers, for nobody looks at them

ASSUME MMUAssumption == /\ SIZE \in Nat \ {0} /\ Pids \subseteq Nat \ {0}
                        /\ Requests \subseteq Int

(* An input file in which nobody asks for less than one address.  What is said  *)
(* of the blocks below is said of such files.                                   *)
AtLeastOne == Requests \subseteq Nat \ {0}

VARIABLES freelist, alloclist,
          policy,     \* the option of the command line: first, best or worst fit
          coalesced   \* history: whether an instruction has coalesced the free list

vars == <<freelist, alloclist, policy, coalesced>>

BlockSize(b) == b.end - b.start + 1

-----------------------------------------------------------------------------
(* list.c.  The index of the first element with a property, and the length    *)
(* and one more if there is none: where an insertion that walks past the      *)
(* other elements ends up.                                                    *)
IndexOrEnd(l, Holds(_)) == LET i == SelectInSeq(l, Holds) IN IF i = 0 THEN Len(l) + 1 ELSE i

AddAscendingByAddress(l, b) == InsertAt(l, IndexOrEnd(l, LAMBDA c : c.start >= b.start), b)

(* Fault: the new block's size is computed without the + 1. *)
AddAscendingMissingOne(l, b) ==
  InsertAt(l, IndexOrEnd(l, LAMBDA c : BlockSize(c) >= BlockSize(b) - 1), b)

AddAscendingByBlocksize(l, b) ==
  InsertAt(l, IndexOrEnd(l, LAMBDA c : BlockSize(c) >= BlockSize(b)), b)

(* Fault: only the new block's size is computed without the + 1. *)
AddDescendingOneShort(l, b) ==
  LET size == BlockSize(b) - 1
  IN InsertAt(l, IndexOrEnd(l, LAMBDA c : size > BlockSize(c)), b)

(* The new block's size is computed without the + 1; so is that of every      *)
(* block it is compared with, except the head of the list.                    *)
AddDescendingByBlocksize(l, b) ==
  LET size == BlockSize(b) - 1
  IN CASE l = <<>> -> <<b>>
       [] l # <<>> /\ size >= BlockSize(Head(l)) -> <<b>> \o l
       [] l # <<>> /\ size < BlockSize(Head(l)) ->
            <<Head(l)>> \o InsertAt(Tail(l), IndexOrEnd(Tail(l), LAMBDA c : size > BlockSize(c) - 1), b)

AddToBack(l, b) == Append(l, b)

(* allocate_memory and deallocate_memory give a free block back by policy. *)
GiveBack(l, b) == CASE policy = "first" -> AddToBack(l, b)
                    [] policy = "best"  -> AddAscendingByBlocksize(l, b)
                    [] policy = "worst" -> AddDescendingByBlocksize(l, b)

(* Fault: the second of two adjacent blocks is dropped and the first is not *)
(* lengthened.                                                              *)
MergeForgetsEnd(kept, b) ==
  IF kept # <<>> /\ Last(kept).end + 1 = b.start THEN kept ELSE Append(kept, b)

(* list_coalese_nodes, block by block: one that begins where the last one     *)
(* kept ends lengthens it.                                                    *)
Merge(kept, b) ==
  IF kept # <<>> /\ Last(kept).end + 1 = b.start
  THEN [kept EXCEPT ![Len(kept)].end = b.end]
  ELSE Append(kept, b)

CoalesceNodes(l) ==
  LET kept[i \in 0..Len(l)] == IF i = 0 THEN <<>> ELSE Merge(kept[i - 1], l[i])
  IN kept[Len(l)]

(* Fault: the list is taken as it is. *)
Unsorted(l) == l
SortByAddress(l) ==
  LET sorted[i \in 0..Len(l)] == IF i = 0 THEN <<>> ELSE AddAscendingByAddress(sorted[i - 1], l[i])
  IN sorted[Len(l)]

-----------------------------------------------------------------------------
Init == /\ freelist = <<[pid |-> 0, start |-> 0, end |-> SIZE - 1]>>
        /\ alloclist = <<>>
        /\ policy \in {"first", "best", "worst"}
        /\ coalesced = FALSE

(* The free block that an allocation takes: the first that is large enough,   *)
(* 0 if there is none.                                                        *)
Chosen(blocksize) == SelectInSeq(freelist, LAMBDA b : blocksize <= BlockSize(b))

(* Without a block that is large enough nothing changes.  A request of less     *)
(* than one address is not refused: of 0 it makes an empty block, and a         *)
(* negative one gives back what lies in front of the block found.               *)
Allocate(pid, blocksize) ==
  /\ Chosen(blocksize) # 0
  /\ LET index == Chosen(blocksize)
         found == freelist[index]
         blk   == [pid |-> pid, start |-> found.start, end |-> found.start + blocksize - 1]
         rest  == RemoveAt(freelist, index)
     IN /\ alloclist' = AddAscendingByAddress(alloclist, blk)
        /\ freelist' = IF blk.end < found.end
                       THEN GiveBack(rest, [pid |-> 0, start |-> blk.end + 1, end |-> found.end])
                       ELSE rest
  /\ UNCHANGED <<policy, coalesced>>

(* The process's block of lowest address, 0 if it has none. *)
BlockOf(pid) == SelectInSeq(alloclist, LAMBDA b : b.pid = pid)

(* Frees one block of the process; it may have others. *)
Deallocate(pid) ==
  LET index == BlockOf(pid)
  IN /\ index # 0
     /\ alloclist' = RemoveAt(alloclist, index)
     /\ freelist' = GiveBack(freelist, [alloclist[index] EXCEPT !.pid = 0])
     /\ UNCHANGED <<policy, coalesced>>

Coalesce == /\ freelist' = CoalesceNodes(SortByAddress(freelist))
            /\ coalesced' = TRUE
            /\ UNCHANGED <<alloclist, policy>>

(* The instructions that find what they need; the others print an error. *)
Next == \/ \E pid \in Pids, blocksize \in Requests : Allocate(pid, blocksize)
        \/ \E pid \in Pids : Deallocate(pid)
        \/ Coalesce

Spec == Init /\ [][Next]_vars

-----------------------------------------------------------------------------
Block(pids) == [pid : pids, start : 0..SIZE-1, end : 0..SIZE-1]

(* Free blocks carry no pid and allocated ones do, whatever list they come from. *)
BlocksAreTyped == /\ freelist \in Seq(Block({0}))
                  /\ alloclist \in Seq(Block(Pids))
                  /\ policy \in {"first", "best", "worst"} /\ coalesced \in BOOLEAN

Addresses(b) == b.start .. b.end
Covered(l) == UNION {Addresses(l[i]) : i \in DOMAIN l}

Apart(l) == \A i, j \in DOMAIN l : i # j => Addresses(l[i]) \cap Addresses(l[j]) = {}
NoneEmpty(l) == \A i \in DOMAIN l : l[i].start <= l[i].end

ByAddress(l) == \A i, j \in DOMAIN l : i < j => l[i].start < l[j].start
BySize(l) == \A i, j \in DOMAIN l : i < j => BlockSize(l[i]) <= BlockSize(l[j])
ByFallingSize(l) == \A i, j \in DOMAIN l : i < j => BlockSize(l[i]) >= BlockSize(l[j])

(* The blocks of the two lists are not empty, do not overlap and cover the      *)
(* partition.                                                                   *)
ListsCoverMemory == /\ NoneEmpty(freelist) /\ NoneEmpty(alloclist)
                    /\ Apart(freelist) /\ Apart(alloclist)
                    /\ Covered(freelist) \cap Covered(alloclist) = {}
                    /\ Covered(freelist) \cup Covered(alloclist) = 0..SIZE-1

(* Until it is coalesced the free list is in the order of its policy. *)
OrderedByPolicy == ~coalesced => /\ policy = "best" => BySize(freelist)
                                 /\ policy = "worst" => ByFallingSize(freelist)

(* The inductive invariant.  Splitting, moving and merging blocks neither loses *)
(* an address nor gives it out twice, and every insertion finds the list it     *)
(* walks through in the order that it relies on.                                *)
MMUInv == /\ BlocksAreTyped /\ ListsCoverMemory
          /\ ByAddress(alloclist) /\ OrderedByPolicy

Blocks == freelist \o alloclist

Partitioned ==
  \A a \in 0..SIZE-1 : Cardinality({i \in DOMAIN Blocks : a \in Addresses(Blocks[i])}) = 1

(* Every address is in exactly one block of the two lists: none is lost when a  *)
(* block is split, moved or merged, and none is given out twice.  Free blocks   *)
(* have no pid and allocated ones do, and the allocated ones are in the order   *)
(* of their addresses.                                                          *)
MemoryIsPartitioned == BlocksAreTyped /\ Partitioned /\ ByAddress(alloclist)

(* Until the free list is coalesced, an allocation gets the smallest block that *)
(* is large enough under best fit, and the largest of all under worst fit.      *)
(* Afterwards the list is in the order of the addresses, and neither holds.     *)
FitsPolicy ==
  ~coalesced => \A blocksize \in Requests :
    Chosen(blocksize) # 0 =>
      LET size == BlockSize(freelist[Chosen(blocksize)])
          others == {BlockSize(b) : b \in ToSet(freelist)}
      IN /\ policy = "best"  => \A other \in others : other >= blocksize => size <= other
         /\ policy = "worst" => \A other \in others : size >= other

FullyMerged(l) == \A i, j \in DOMAIN l : i < j => l[i].end + 1 < l[j].start

(* What coalesce leaves is in order and cannot be coalesced further, so an      *)
(* allocation fails only if no stretch of free memory is long enough.           *)
CoalesceMergesAll == [][Coalesce => FullyMerged(freelist')]_vars
=============================================================================
