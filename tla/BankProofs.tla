----------------------------- MODULE BankProofs -----------------------------
(***************************************************************************)
(* Proofs about the two bank programs, for any sums.                       *)
(*                                                                         *)
(* BankSemaphore, for any number of processes and of runs: the semaphore's *)
(* token is accounted for across kills and restarts, no update is lost,    *)
(* and the balance stays within its bounds.                                *)
(*                                                                         *)
(* BankTurns, for any number of rounds: a process acts in its own turn     *)
(* only, and gives the turn away afterwards; so while one waits and the    *)
(* other has not yet acted in its turn, the copy of the one that waits is  *)
(* exact, and one act makes it stale by one write.                         *)
(***************************************************************************)
EXTENDS BankSemaphore, BankTurns, FiniteSetTheorems, TLAPS

USE BankAssumption, SumsAssumption

(* The processes are finitely many, so those inside can be counted. *)
LEMMA InsideFinite == IsFiniteSet(Inside) /\ Cardinality(Inside) \in Nat
<1>1. IsFiniteSet(Processes)
  <2>1. IsFiniteSet({Dad} \cup Mothers)
    BY FS_Singleton, FS_Union
  <2> QED
    BY <2>1, FS_Union DEF Processes
<1>2. Inside \subseteq Processes
  BY DEF Inside
<1> QED
  BY <1>1, <1>2, FS_Subset, FS_CardinalityType

(* Entering and leaving change the count by one. *)
LEMMA Enters ==
  ASSUME NEW p, p \notin Inside, Inside' = Inside \cup {p}
  PROVE  Cardinality(Inside') = Cardinality(Inside) + 1
BY InsideFinite, FS_AddElement

LEMMA Goes ==
  ASSUME NEW p, p \in Inside, Inside' = Inside \ {p}
  PROVE  Cardinality(Inside') = Cardinality(Inside) - 1 /\ Cardinality(Inside') \in Nat
<1>1. IsFiniteSet(Inside \ {p})
  BY InsideFinite, FS_Subset
<1> QED
  BY <1>1, InsideFinite, FS_RemoveElement, FS_CardinalityType

(* Nobody inside counts for nothing, and somebody for at least one. *)
LEMMA NobodyInside == Cardinality(Inside) = 0 <=> Inside = {}
BY InsideFinite, FS_EmptySet

(* Two processes inside would count for two. *)
LEMMA AloneInside ==
  ASSUME NEW p \in Inside, NEW q \in Inside, Cardinality(Inside) <= 1
  PROVE  p = q
<1> SUFFICES ASSUME p # q PROVE FALSE
  OBVIOUS
<1>1. Cardinality(Inside \ {p}) = Cardinality(Inside) - 1
  BY InsideFinite, FS_RemoveElement
<1>2. IsFiniteSet(Inside \ {p}) /\ q \in Inside \ {p}
  BY InsideFinite, FS_Subset
<1>3. Cardinality(Inside \ {p}) \in Nat /\ Cardinality(Inside \ {p}) # 0
  BY <1>2, FS_EmptySet, FS_CardinalityType
<1> QED
  BY <1>1, <1>3, InsideFinite

(* Before the first run there is nothing to account for. *)
LEMMA InitBankInv == Init => BankInv
<1> SUFFICES ASSUME Init PROVE BankInv
  OBVIOUS
<1> USE DEF Init
<1>1. TypeOK
  <2>1. pc \in [Processes -> {"away", "entered", "looked", "acted", "dead"}]
    OBVIOUS
  <2>2. local \in [Processes -> Int]
    OBVIOUS
  <2>3. running \in BOOLEAN
    OBVIOUS
  <2>4. sem \in {Unlinked, 0, 1} /\ balance \in Int /\ killed \in Nat /\ runs \in Nat
    OBVIOUS
  <2> QED
    BY <2>1, <2>2, <2>3, <2>4 DEF TypeOK
<1>2. TokenAccounted /\ NobodyWithout /\ FreshBalance
  BY DEF TokenAccounted, NobodyWithout, FreshBalance, Unlinked
<1>3. WithinMeans
  BY DEF WithinMeans, Highest
<1> QED
  BY <1>1, <1>2, <1>3 DEF BankInv

(* A visit leaves the account between nothing and Highest if it found it so. *)
LEMMA VisitWithinMeans ==
  ASSUME NEW p \in Processes, NEW found \in Int, 0 <= found, found <= Highest,
         NEW b \in AfterVisit(p, found)
  PROVE  b \in Int /\ 0 <= b /\ b <= Highest
<1>1. CASE p = Dad
  <2>1. b \in AfterDad(found)
    BY <1>1 DEF AfterVisit
  <2> QED
    BY <2>1 DEF AfterDad, Highest
<1>2. CASE p \in Mothers
  <2>1. b \in AfterMom(found)
    BY <1>2 DEF AfterVisit
  <2> QED
    BY <2>1 DEF AfterMom, Highest
<1>3. CASE p \in Students
  <2>1. b \in AfterStudent(found)
    BY <1>3 DEF AfterVisit
  <2> QED
    BY <2>1 DEF AfterStudent, Highest
<1> QED
  BY <1>1, <1>2, <1>3 DEF Processes

(* A new run takes over what the last one left of the semaphore. *)
LEMMA RunKeepsInv == BankInv /\ Run => BankInv'
<1> SUFFICES ASSUME BankInv, Run PROVE BankInv'
  OBVIOUS
<1> USE DEF BankInv, Run
<1>1. Inside' = {}
  BY DEF Inside
<1>2. Cardinality(Inside') = 0
  BY <1>1, FS_EmptySet
<1>3. Inside = {}
  BY DEF NobodyWithout, Inside
<1>4. Cardinality(Inside) = 0
  BY <1>3, FS_EmptySet
<1>5. TypeOK'
  BY DEF TypeOK, Unlinked
<1>6. TokenAccounted'
  BY <1>2, <1>4 DEF TypeOK, TokenAccounted, NobodyWithout, Unlinked
<1>7. NobodyWithout' /\ FreshBalance' /\ WithinMeans'
  BY DEF NobodyWithout, FreshBalance, WithinMeans, Highest, Unlinked, TypeOK
<1> QED
  BY <1>5, <1>6, <1>7

(* A run whose fork fails leaves no semaphore and nobody behind. *)
LEMMA ForkFailsKeepsInv == BankInv /\ ForkFails => BankInv'
<1> SUFFICES ASSUME BankInv, ForkFails PROVE BankInv'
  OBVIOUS
<1> USE DEF BankInv, ForkFails
<1>1. TypeOK'
  BY DEF TypeOK, Unlinked
<1>2. TokenAccounted' /\ NobodyWithout'
  BY DEF TokenAccounted, NobodyWithout, Unlinked
<1>3. FreshBalance' /\ WithinMeans'
  BY DEF FreshBalance, NobodyWithout, WithinMeans, Highest
<1> QED
  BY <1>1, <1>2, <1>3

(* Taking the token: nobody was inside. *)
LEMMA SemWaitKeepsInv ==
  ASSUME BankInv, NEW p \in Processes, SemWait(p)
  PROVE  BankInv'
<1> USE DEF BankInv, SemWait
<1>1. p \notin Inside /\ Inside' = Inside \cup {p}
  BY DEF TypeOK, Inside
<1>2. Cardinality(Inside') = Cardinality(Inside) + 1
  BY <1>1, Enters
<1>3. sem = 1
  BY DEF TypeOK, Unlinked
<1>4. TypeOK' /\ TokenAccounted'
  BY <1>2, <1>3, InsideFinite DEF TypeOK, TokenAccounted, Unlinked
<1>5. NobodyWithout' /\ FreshBalance' /\ WithinMeans'
  BY <1>3 DEF TypeOK, NobodyWithout, FreshBalance, WithinMeans, Unlinked
<1> QED
  BY <1>4, <1>5

(* Looking at the balance. *)
LEMMA LookKeepsInv ==
  ASSUME BankInv, NEW p \in Processes, Look(p)
  PROVE  BankInv'
<1> USE DEF BankInv, Look
<1>1. Inside' = Inside
  BY DEF TypeOK, Inside
<1>2. TypeOK' /\ TokenAccounted'
  BY <1>1 DEF TypeOK, TokenAccounted
<1>3. NobodyWithout' /\ FreshBalance' /\ WithinMeans'
  BY DEF TypeOK, NobodyWithout, FreshBalance, WithinMeans
<1> QED
  BY <1>2, <1>3

(* Acting on it: nobody else is inside, so nobody else's look grows stale. *)
LEMMA ActKeepsInv ==
  ASSUME BankInv, NEW p \in Processes, Act(p)
  PROVE  BankInv'
<1> USE DEF BankInv, Act
<1>1. Inside' = Inside /\ p \in Inside
  BY DEF TypeOK, Inside
<1>2. local[p] = balance /\ balance \in Int
  BY DEF FreshBalance, TypeOK
<1>3. balance' \in Int /\ 0 <= balance' /\ balance' <= Highest /\ local' \in [Processes -> Int]
  <2>1. CASE UNCHANGED <<balance, local>>
    BY <1>2, <2>1 DEF WithinMeans, TypeOK
  <2>2. CASE \E b \in AfterVisit(p, local[p]) : balance' = b /\ local' = [local EXCEPT ![p] = b]
    BY <1>2, <2>2, VisitWithinMeans DEF WithinMeans, TypeOK
  <2> QED
    BY <2>1, <2>2
<1>4. TypeOK' /\ TokenAccounted'
  <2>1. pc' \in [Processes -> {"away", "entered", "looked", "acted", "dead"}]
    BY DEF TypeOK
  <2>2. running' \in BOOLEAN
    BY DEF TypeOK
  <2> QED
    BY <1>1, <1>3, <2>1, <2>2 DEF TypeOK, TokenAccounted
<1>5. sem # Unlinked
  BY <1>1 DEF NobodyWithout, Inside
<1>6. Cardinality(Inside) <= 1
  BY <1>5, InsideFinite DEF TokenAccounted, TypeOK, Unlinked
<1>7. \A q \in Processes : pc[q] = "looked" => q = p
  BY <1>1, <1>6, AloneInside DEF Inside
<1>8. FreshBalance'
  BY <1>7 DEF TypeOK, FreshBalance
<1>9. NobodyWithout' /\ WithinMeans'
  BY <1>3 DEF TypeOK, NobodyWithout, WithinMeans, Highest
<1> QED
  BY <1>4, <1>8, <1>9

(* Giving the token back. *)
LEMMA SemPostKeepsInv ==
  ASSUME BankInv, NEW p \in Processes, SemPost(p)
  PROVE  BankInv'
<1> USE DEF BankInv, SemPost
<1>1. p \in Inside /\ Inside' = Inside \ {p}
  BY DEF TypeOK, Inside
<1>2. Cardinality(Inside') = Cardinality(Inside) - 1 /\ Cardinality(Inside') \in Nat
  BY <1>1, Goes
<1>3. sem # Unlinked
  BY <1>1 DEF NobodyWithout, Inside
<1>4. sem = 0 /\ TokenAccounted'
  BY <1>2, <1>3, InsideFinite DEF TypeOK, TokenAccounted, Unlinked
<1>5. TypeOK'
  BY <1>4 DEF TypeOK
<1>6. NobodyWithout' /\ FreshBalance' /\ WithinMeans'
  BY <1>4 DEF TypeOK, NobodyWithout, FreshBalance, WithinMeans, Unlinked
<1> QED
  BY <1>4, <1>5, <1>6

(* A process that is killed takes the token with it if it has it. *)
LEMMA KillKeepsInv ==
  ASSUME BankInv, NEW p \in Processes, Kill(p)
  PROVE  BankInv'
<1> USE DEF BankInv, Kill
<1>1. TypeOK'
  BY DEF TypeOK
<1>2. NobodyWithout'
  <2>1. p \in Inside => sem # Unlinked
    BY DEF NobodyWithout, Inside
  <2> QED
    BY <2>1 DEF TypeOK, NobodyWithout
<1>3. FreshBalance' /\ WithinMeans'
  BY DEF TypeOK, FreshBalance, WithinMeans
<1>4. CASE p \in Inside
  <2>1. Inside' = Inside \ {p}
    BY DEF TypeOK, Inside
  <2>2. Cardinality(Inside') = Cardinality(Inside) - 1 /\ Cardinality(Inside') \in Nat
    BY <1>4, <2>1, Goes
  <2>3. TokenAccounted'
    BY <1>4, <2>2, InsideFinite DEF TypeOK, TokenAccounted, Unlinked
  <2> QED
    BY <1>1, <1>2, <1>3, <2>3
<1>5. CASE p \notin Inside
  <2>1. Inside' = Inside
    BY <1>5 DEF TypeOK, Inside
  <2>2. TokenAccounted'
    BY <1>5, <2>1, InsideFinite DEF TypeOK, TokenAccounted, Unlinked
  <2> QED
    BY <1>1, <1>2, <1>3, <2>2
<1> QED
  BY <1>4, <1>5

(* Ctrl-C leaves the semaphore as it is, with whatever token it then has. *)
LEMMA KillAllKeepsInv == BankInv /\ KillAll => BankInv'
<1> SUFFICES ASSUME BankInv, KillAll PROVE BankInv'
  OBVIOUS
<1> USE DEF BankInv, KillAll
<1>1. Inside' = {}
  BY DEF Inside
<1>2. Cardinality(Inside') = 0
  BY <1>1, FS_EmptySet
<1>3. TypeOK'
  <2>1. killed' \in Nat
    BY InsideFinite DEF TypeOK
  <2>2. pc' \in [Processes -> {"away", "entered", "looked", "acted", "dead"}]
    OBVIOUS
  <2>3. local' \in [Processes -> Int]
    OBVIOUS
  <2> QED
    BY <2>1, <2>2, <2>3 DEF TypeOK
<1>4. TokenAccounted'
  BY <1>2, InsideFinite DEF TypeOK, TokenAccounted, Unlinked
<1>5. NobodyWithout' /\ FreshBalance' /\ WithinMeans'
  BY DEF TypeOK, NobodyWithout, FreshBalance, WithinMeans
<1> QED
  BY <1>3, <1>4, <1>5

(* cleanup takes the semaphore away, lost token and all. *)
LEMMA CleanupKeepsInv == BankInv /\ Cleanup => BankInv'
<1> SUFFICES ASSUME BankInv, Cleanup PROVE BankInv'
  OBVIOUS
<1> USE DEF BankInv, Cleanup
<1>1. TypeOK'
  BY DEF TypeOK, Unlinked
<1>2. TokenAccounted' /\ NobodyWithout'
  BY DEF TokenAccounted, NobodyWithout, Unlinked
<1>3. FreshBalance' /\ WithinMeans'
  BY DEF FreshBalance, WithinMeans
<1> QED
  BY <1>1, <1>2, <1>3

(* A step in which nothing happens. *)
LEMMA StutterKeepsInv == BankInv /\ UNCHANGED vars => BankInv'
BY DEF vars, BankInv, TypeOK, TokenAccounted, NobodyWithout, FreshBalance, WithinMeans, Inside

-----------------------------------------------------------------------------
(* The token of /bank_mutex is accounted for in every run, the balance a      *)
(* process acts on is the balance there is, and it stays between 0 and        *)
(* Highest (shm_processes.c 133-164, 177-198).                                *)
THEOREM BankInvariant == Spec => []BankInv
<1>1. Init => BankInv
  BY InitBankInv
<1>2. BankInv /\ [Next]_vars => BankInv'
  <2> SUFFICES ASSUME BankInv, [Next]_vars PROVE BankInv'
    OBVIOUS
  <2>1. ASSUME NEW p \in Processes, Visit(p) \/ Kill(p) PROVE BankInv'
    BY <2>1, SemWaitKeepsInv, LookKeepsInv, ActKeepsInv, SemPostKeepsInv, KillKeepsInv DEF Visit
  <2> QED
    BY <2>1, RunKeepsInv, ForkFailsKeepsInv, KillAllKeepsInv, CleanupKeepsInv, StutterKeepsInv DEF Next
<1> QED
  BY <1>1, <1>2, PTL DEF Spec

-----------------------------------------------------------------------------
USE DEF DadTurn, StudentTurn, Turns

(* What each process writes is within the bounds: Dad gives only to a balance *)
(* that is not over the limit, the student takes only what there is.          *)
LEMMA WritesWithinMeans ==
  ASSUME NEW found \in 0..Most
  PROVE  DadWrites(found) \subseteq 0..Most /\ StudentWrites(found) \subseteq 0..Most
BY TurnsAssumption DEF Most, DadWrites, StudentWrites

LEMMA TurnsInitKeeps == ASSUME TurnsInit PROVE TurnsInv
<1>1. TurnsTypeOK
  <2>1. 0 \in 0..Most /\ 0 \in 0..Rounds
    BY TurnsAssumption DEF Most
  <2>2. /\ account \in [Turns -> 0..Most]
        /\ rounds \in [Turns -> 0..Rounds]
        /\ at \in [Turns -> {"sleeping", "waiting", "writing", "done"}]
    BY <2>1 DEF TurnsInit
  <2>3. BankAccount \in 0..Most /\ before \in 0..Most /\ Turn \in Turns /\ removed \in BOOLEAN
    BY <2>1 DEF TurnsInit
  <2> QED
    BY <2>2, <2>3 DEF TurnsTypeOK
<1>2. TurnsAlternate
  BY TurnsAssumption DEF TurnsInit, TurnsAlternate
<1>3. StaleByOneTurn /\ ExactUntilActed
  BY DEF TurnsInit, StaleByOneTurn, ExactUntilActed
<1> QED
  BY <1>1, <1>2, <1>3 DEF TurnsInv

LEMMA CopyKeeps ==
  ASSUME TurnsInv, NEW p \in Turns, Copy(p)
  PROVE  TurnsInv'
<1>1. TurnsTypeOK'
  BY DEF TurnsInv, TurnsTypeOK, Copy
<1>2. TurnsAlternate'
  BY DEF TurnsInv, TurnsTypeOK, TurnsAlternate, Copy
<1>3. StaleByOneTurn' /\ ExactUntilActed'
  BY DEF TurnsInv, TurnsTypeOK, StaleByOneTurn, ExactUntilActed, Copy
<1> QED
  BY <1>1, <1>2, <1>3 DEF TurnsInv

LEMMA TakeTurnKeeps ==
  ASSUME TurnsInv, NEW p \in Turns, TakeTurn(p)
  PROVE  TurnsInv'
<1>1. BankAccount' \in 0..Most
  <2>1. account[p] \in 0..Most
    BY DEF TurnsInv, TurnsTypeOK
  <2> QED
    BY <2>1, WritesWithinMeans DEF TakeTurn
<1>2. TurnsTypeOK'
  BY <1>1 DEF TurnsInv, TurnsTypeOK, TakeTurn
<1>3. TurnsAlternate'
  BY DEF TurnsInv, TurnsTypeOK, TurnsAlternate, TakeTurn
(* The other's copy was exact until this step. *)
<1>4. ASSUME NEW q \in Turns, q # p, at[q] = "waiting"
      PROVE  account[q] = BankAccount
  BY <1>4 DEF TurnsInv, ExactUntilActed, TakeTurn
<1>5. StaleByOneTurn'
  BY <1>4 DEF TurnsInv, TurnsTypeOK, StaleByOneTurn, TakeTurn
<1>6. ExactUntilActed'
  BY DEF TurnsInv, TurnsTypeOK, ExactUntilActed, TakeTurn
<1> QED
  BY <1>2, <1>3, <1>5, <1>6 DEF TurnsInv

LEMMA HandOverKeeps ==
  ASSUME TurnsInv, NEW p \in Turns, HandOver(p)
  PROVE  TurnsInv'
<1>1. Turn = p /\ rounds[p] \in 0..Rounds /\ rounds[p] # Rounds
  BY DEF TurnsInv, TurnsTypeOK, TurnsAlternate, HandOver
<1>2. TurnsTypeOK'
  BY <1>1, TurnsAssumption DEF TurnsInv, TurnsTypeOK, HandOver
<1>3. TurnsAlternate'
  BY <1>1, TurnsAssumption DEF TurnsInv, TurnsTypeOK, TurnsAlternate, HandOver
<1>4. StaleByOneTurn'
  BY DEF TurnsInv, TurnsTypeOK, StaleByOneTurn, HandOver
(* The turn is the other's now, and p does not wait. *)
<1>5. ExactUntilActed'
  BY <1>1 DEF TurnsInv, TurnsTypeOK, ExactUntilActed, HandOver
<1> QED
  BY <1>2, <1>3, <1>4, <1>5 DEF TurnsInv

LEMMA TurnsNextKeeps ==
  ASSUME TurnsInv, [TurnsNext]_turnsVars
  PROVE  TurnsInv'
<1>1. CASE RemoveMemory
  BY <1>1 DEF RemoveMemory, TurnsInv, TurnsTypeOK, TurnsAlternate, StaleByOneTurn,
              ExactUntilActed
<1>2. ASSUME NEW p \in Turns, Step(p) PROVE TurnsInv'
  BY <1>2, CopyKeeps, TakeTurnKeeps, HandOverKeeps DEF Step
<1>3. CASE UNCHANGED turnsVars
  BY <1>3 DEF turnsVars, TurnsInv, TurnsTypeOK, TurnsAlternate, StaleByOneTurn, ExactUntilActed
<1> QED
  BY <1>1, <1>2, <1>3 DEF TurnsNext

(* Whatever is overwritten (bank_account.c copies the balance before it waits), *)
(* the account stays within its bounds and the turns alternate, for any number  *)
(* of rounds that is not 0.                                                     *)
THEOREM TurnsInvariant == TurnsSpec => []TurnsInv
<1>1. TurnsInit => TurnsInv
  BY TurnsInitKeeps
<1>2. TurnsInv /\ [TurnsNext]_turnsVars => TurnsInv'
  BY TurnsNextKeeps
<1> QED
  BY <1>1, <1>2, PTL DEF TurnsSpec

(* A copy is never staler than the other's last turn. *)
THEOREM CopiesStaleByOneTurn == TurnsSpec => []StaleByOneTurn
<1>1. TurnsInv => StaleByOneTurn
  BY DEF TurnsInv
<1> QED
  BY <1>1, TurnsInvariant, PTL
=============================================================================
