--------------------------- MODULE ChatLockProofs ---------------------------
(***************************************************************************)
(* Proofs about ChatLock, for any finite set of threads.  LockInv is       *)
(* inductive; exclusion follows from it, and with it the refinement of the *)
(* readers/writer lock of RWExclusion.                                     *)
(***************************************************************************)
EXTENDS ChatLock, FiniteSetTheorems, TLAPS

USE ThreadsAssumption

(* The set of counted threads is finite, so numReaders can be its size.    *)
LEMMA CountedFinite ==
  /\ IsFiniteSet(Counted)
  /\ Cardinality(Counted) \in Nat
  /\ Cardinality(Counted) = 0 <=> Counted = {}
<1>1. Counted \subseteq Threads
  BY DEF Counted
<1>2. IsFiniteSet(Counted)
  BY <1>1, FS_Subset
<1> QED
  BY <1>2, FS_CardinalityType, FS_EmptySet

(* A thread that announces itself adds one to the number of counted threads. *)
LEMMA CountedGrows ==
  ASSUME NEW t \in Threads, t \notin Counted, Counted' = Counted \cup {t}
  PROVE  Cardinality(Counted') = Cardinality(Counted) + 1
BY CountedFinite, FS_AddElement

(* A thread that withdraws takes one away. *)
LEMMA CountedShrinks ==
  ASSUME NEW t \in Threads, t \in Counted, Counted' = Counted \ {t}
  PROVE  Cardinality(Counted') = Cardinality(Counted) - 1
BY CountedFinite, FS_RemoveElement

(* Initially nobody holds or wants anything (server.c 17-19). *)
LEMMA InitLockInv == Init => LockInv
<1> SUFFICES ASSUME Init PROVE LockInv
  OBVIOUS
<1> USE DEF Init
<1>1. Counted = {} /\ Covered = {} /\ Writing = {}
  BY DEF Counted, Covered, Writing
<1>2. TypeOK
  BY DEF TypeOK, Places
<1>3. CountIsExact
  BY <1>1, FS_EmptySet DEF CountIsExact
<1>4. MutexOwner /\ FirstIsAlone /\ LastIsAlone
  BY DEF MutexOwner, HoldsMutex, FirstIsAlone, LastIsAlone
<1> QED
  BY <1>1, <1>2, <1>3, <1>4 DEF LockInv, WriterOwnsLock, ReadersCovered, LockIsWanted

(* A step that leaves the counted threads and numReaders alone keeps the count exact. *)
LEMMA SameCount ==
  ASSUME CountIsExact, numReaders' = numReaders, Counted' = Counted
  PROVE  CountIsExact'
BY DEF CountIsExact

(* Asking for the lock, as a writer or as a reader, changes nothing but the place. *)
LEMMA WantKeepsInv ==
  ASSUME LockInv, NEW t \in Threads, WantWrite(t) \/ WantRead(t)
  PROVE  LockInv'
<1> USE DEF Goto, LockInv
<1>1. PICK w \in {"w_want", "r_want"} :
        /\ pc[t] = "idle" /\ pc' = [pc EXCEPT ![t] = w]
        /\ mutex' = mutex /\ rwLock' = rwLock /\ numReaders' = numReaders
  BY DEF WantWrite, WantRead
<1>2. TypeOK'
  BY <1>1 DEF TypeOK, Places
<1>3. Counted' = Counted /\ Covered' = Covered /\ Writing' = Writing
  BY <1>1 DEF TypeOK, Counted, Covered, Writing
<1>4. CountIsExact'
  BY <1>1, <1>3, SameCount
<1>5. WriterOwnsLock' /\ ReadersCovered' /\ LockIsWanted'
  BY <1>1, <1>3 DEF WriterOwnsLock, ReadersCovered, LockIsWanted
<1>6. MutexOwner'
  BY <1>1 DEF TypeOK, MutexOwner, HoldsMutex
<1>7. FirstIsAlone' /\ LastIsAlone'
  BY <1>1, <1>3 DEF TypeOK, FirstIsAlone, LastIsAlone
<1> QED
  BY <1>2, <1>4, <1>5, <1>6, <1>7

(* A writer gets in when rw_lock is free: then no reader is covered. *)
LEMMA BeginWriteKeepsInv ==
  ASSUME LockInv, NEW t \in Threads, BeginWrite(t)
  PROVE  LockInv'
<1> USE DEF Goto, LockInv, BeginWrite
<1>1. TypeOK'
  BY DEF TypeOK, Places
<1>2. Counted' = Counted /\ Covered' = Covered /\ Writing' = Writing \cup {t}
  BY DEF TypeOK, Counted, Covered, Writing
<1>3. CountIsExact'
  BY <1>2, SameCount
<1>4. Writing = {} /\ Covered = {}
  BY DEF WriterOwnsLock, ReadersCovered, Writing
<1>5. WriterOwnsLock' /\ ReadersCovered' /\ LockIsWanted'
  BY <1>2, <1>4 DEF WriterOwnsLock, ReadersCovered, LockIsWanted
<1>6. MutexOwner'
  BY DEF TypeOK, MutexOwner, HoldsMutex
<1>7. FirstIsAlone' /\ LastIsAlone'
  BY <1>2 DEF TypeOK, FirstIsAlone, LastIsAlone
<1> QED
  BY <1>1, <1>3, <1>5, <1>6, <1>7

(* A writer that leaves was the only one covered by rw_lock. *)
LEMMA EndWriteKeepsInv ==
  ASSUME LockInv, NEW t \in Threads, EndWrite(t)
  PROVE  LockInv'
<1> USE DEF Goto, LockInv, EndWrite
<1>1. TypeOK'
  BY DEF TypeOK, Places
<1>2. Counted' = Counted /\ Covered' = Covered /\ Writing' = Writing \ {t}
  BY DEF TypeOK, Counted, Covered, Writing
<1>3. CountIsExact'
  BY <1>2, SameCount
<1>4. t \in Writing /\ Covered = {}
  BY DEF ReadersCovered, Writing
<1>5. Writing' = {}
  BY <1>2, <1>4 DEF WriterOwnsLock
<1>6. WriterOwnsLock' /\ ReadersCovered' /\ LockIsWanted'
  BY <1>2, <1>4, <1>5 DEF WriterOwnsLock, ReadersCovered, LockIsWanted
<1>7. MutexOwner'
  BY DEF TypeOK, MutexOwner, HoldsMutex
<1>8. FirstIsAlone' /\ LastIsAlone'
  BY <1>2 DEF TypeOK, FirstIsAlone, LastIsAlone
<1> QED
  BY <1>1, <1>3, <1>6, <1>7, <1>8

(* A reader that counts itself in is the first exactly when nobody is counted. *)
LEMMA CountInKeepsInv ==
  ASSUME LockInv, NEW t \in Threads, CountIn(t)
  PROVE  LockInv'
<1> USE DEF Goto, LockInv, CountIn
<1>1. TypeOK'
  BY DEF TypeOK, Places
<1>2. t \notin Counted /\ Counted' = Counted \cup {t} /\ Writing' = Writing
  BY DEF TypeOK, Counted, Writing
<1>3. CountIsExact'
  BY <1>2, CountedGrows DEF CountIsExact
<1>4. numReaders = 0 <=> Counted = {}
  BY CountedFinite DEF CountIsExact
<1>5. \A u \in Threads : pc[u] \notin HoldsMutex
  BY DEF MutexOwner
<1>6. MutexOwner'
  BY <1>5 DEF TypeOK, MutexOwner, HoldsMutex
<1>7. LastIsAlone'
  BY <1>5 DEF TypeOK, LastIsAlone, HoldsMutex
<1>8. numReaders \in Nat
  BY DEF TypeOK
<1>9. CASE numReaders + 1 = 1
  <2>1. pc' = [pc EXCEPT ![t] = "r_first"] /\ Counted' = {t}
    BY <1>2, <1>4, <1>8, <1>9
  <2>2. Covered' = Covered
    BY <2>1 DEF TypeOK, Covered
  <2>3. FirstIsAlone'
    <3>1. \A u \in Threads : pc'[u] = "r_first" => u = t
      BY <2>1, <1>5 DEF TypeOK, HoldsMutex
    <3> QED
      BY <2>1, <3>1 DEF FirstIsAlone
  <2>4. WriterOwnsLock' /\ ReadersCovered' /\ LockIsWanted'
    BY <1>2, <2>2 DEF WriterOwnsLock, ReadersCovered, LockIsWanted
  <2> QED
    BY <1>1, <1>3, <1>6, <1>7, <2>3, <2>4
<1>10. CASE numReaders + 1 # 1
  <2>1. pc' = [pc EXCEPT ![t] = "r_entered"]
    BY <1>10
  <2>2. Covered' = Covered \cup {t}
    BY <2>1 DEF TypeOK, Covered
  <2>3. Covered # {}
    BY <1>4, <1>5, <1>8, <1>10 DEF Counted, Covered, HoldsMutex
  <2>4. FirstIsAlone'
    BY <2>1, <1>5 DEF TypeOK, FirstIsAlone, HoldsMutex
  <2>5. WriterOwnsLock' /\ ReadersCovered' /\ LockIsWanted'
    BY <1>2, <2>2, <2>3 DEF WriterOwnsLock, ReadersCovered, LockIsWanted
  <2> QED
    BY <1>1, <1>3, <1>6, <1>7, <2>4, <2>5
<1> QED
  BY <1>9, <1>10

(* The first reader gets rw_lock: no writer is in, and nobody was covered. *)
LEMMA FirstReaderKeepsInv ==
  ASSUME LockInv, NEW t \in Threads, FirstReaderLocks(t)
  PROVE  LockInv'
<1> USE DEF Goto, LockInv, FirstReaderLocks
<1>1. TypeOK'
  BY DEF TypeOK, Places
<1>2. Counted' = Counted /\ Covered' = Covered \cup {t} /\ Writing' = Writing
  BY DEF TypeOK, Counted, Covered, Writing
<1>3. CountIsExact'
  BY <1>2, SameCount
<1>4. Writing = {}
  BY DEF WriterOwnsLock, Writing
<1>5. WriterOwnsLock' /\ ReadersCovered' /\ LockIsWanted'
  BY <1>2, <1>4 DEF WriterOwnsLock, ReadersCovered, LockIsWanted
<1>6. MutexOwner'
  BY DEF TypeOK, MutexOwner, HoldsMutex
<1>7. FirstIsAlone' /\ LastIsAlone'
  BY <1>2 DEF TypeOK, FirstIsAlone, LastIsAlone
<1> QED
  BY <1>1, <1>3, <1>5, <1>6, <1>7

(* Unlocking mutex on the way in: the reader stays counted and covered. *)
LEMMA BeginReadKeepsInv ==
  ASSUME LockInv, NEW t \in Threads, BeginRead(t)
  PROVE  LockInv'
<1> USE DEF Goto, LockInv, BeginRead
<1>1. TypeOK'
  BY DEF TypeOK, Places
<1>2. Counted' = Counted /\ Covered' = Covered /\ Writing' = Writing
  BY DEF TypeOK, Counted, Covered, Writing
<1>3. CountIsExact'
  BY <1>2, SameCount
<1>4. WriterOwnsLock' /\ ReadersCovered' /\ LockIsWanted'
  BY <1>2 DEF WriterOwnsLock, ReadersCovered, LockIsWanted
<1>5. \A u \in Threads : pc[u] \in HoldsMutex => u = t
  BY DEF MutexOwner, HoldsMutex
<1>6. MutexOwner'
  BY <1>5 DEF TypeOK, MutexOwner, HoldsMutex
<1>7. FirstIsAlone' /\ LastIsAlone'
  BY <1>2 DEF TypeOK, FirstIsAlone, LastIsAlone
<1> QED
  BY <1>1, <1>3, <1>4, <1>6, <1>7

(* The end of the reader's operation: it stays counted and covered. *)
LEMMA EndReadKeepsInv ==
  ASSUME LockInv, NEW t \in Threads, EndRead(t)
  PROVE  LockInv'
<1> USE DEF Goto, LockInv, EndRead
<1>1. TypeOK'
  BY DEF TypeOK, Places
<1>2. Counted' = Counted /\ Covered' = Covered /\ Writing' = Writing
  BY DEF TypeOK, Counted, Covered, Writing
<1>3. CountIsExact'
  BY <1>2, SameCount
<1>4. WriterOwnsLock' /\ ReadersCovered' /\ LockIsWanted'
  BY <1>2 DEF WriterOwnsLock, ReadersCovered, LockIsWanted
<1>5. MutexOwner'
  BY DEF TypeOK, MutexOwner, HoldsMutex
<1>6. FirstIsAlone' /\ LastIsAlone'
  BY <1>2 DEF TypeOK, FirstIsAlone, LastIsAlone
<1> QED
  BY <1>1, <1>3, <1>4, <1>5, <1>6

(* A reader that counts itself out is the last exactly when it alone was counted. *)
LEMMA CountOutKeepsInv ==
  ASSUME LockInv, NEW t \in Threads, CountOut(t)
  PROVE  LockInv'
<1> USE DEF Goto, LockInv, CountOut
<1>1. t \in Counted /\ Counted' = Counted \ {t} /\ Writing' = Writing
  BY DEF TypeOK, Counted, Writing
<1>2. numReaders' = Cardinality(Counted')
  BY <1>1, CountedShrinks DEF CountIsExact
<1>3. IsFiniteSet(Counted') /\ numReaders' \in Nat
  <2>1. IsFiniteSet(Counted \ {t})
    BY CountedFinite, FS_Subset
  <2> QED
    BY <1>1, <1>2, <2>1, FS_CardinalityType
<1>4. TypeOK'
  BY <1>3 DEF TypeOK, Places
<1>5. numReaders' = 0 <=> Counted' = {}
  BY <1>1, <1>2, <1>3, FS_EmptySet
<1>6. \A u \in Threads : pc[u] \notin HoldsMutex
  BY DEF MutexOwner
<1>7. MutexOwner'
  BY <1>6 DEF TypeOK, MutexOwner, HoldsMutex
<1>8. FirstIsAlone'
  BY <1>6 DEF TypeOK, FirstIsAlone, HoldsMutex
<1>9. t \in Covered
  BY DEF Covered
<1>10. CASE numReaders' = 0
  <2>1. pc' = [pc EXCEPT ![t] = "x_last"]
    BY <1>10
  <2>2. Covered' = Covered
    BY <2>1 DEF TypeOK, Covered
  <2>3. WriterOwnsLock' /\ ReadersCovered' /\ LockIsWanted'
    BY <1>1, <2>2 DEF WriterOwnsLock, ReadersCovered, LockIsWanted
  <2>4. LastIsAlone'
    BY <1>5, <1>10 DEF LastIsAlone
  <2> QED
    BY <1>2, <1>4, <1>7, <1>8, <2>3, <2>4 DEF CountIsExact
<1>11. CASE numReaders' # 0
  <2>1. pc' = [pc EXCEPT ![t] = "x_exit"]
    BY <1>11
  <2>2. Covered' = Covered \ {t}
    BY <2>1 DEF TypeOK, Covered
  <2>3. Covered' # {}
    <3>1. PICK u \in Counted : u # t
      BY <1>1, <1>5, <1>11
    <3>2. u \in Covered
      BY <3>1, <1>6 DEF Counted, Covered, HoldsMutex
    <3> QED
      BY <2>2, <3>1, <3>2
  <2>4. WriterOwnsLock' /\ ReadersCovered' /\ LockIsWanted'
    BY <1>1, <1>9, <2>2, <2>3 DEF WriterOwnsLock, ReadersCovered, LockIsWanted
  <2>5. LastIsAlone'
    BY <2>1, <1>6 DEF TypeOK, LastIsAlone, HoldsMutex
  <2> QED
    BY <1>2, <1>4, <1>7, <1>8, <2>4, <2>5 DEF CountIsExact
<1> QED
  BY <1>10, <1>11

(* The last reader unlocks rw_lock: nobody is covered any more. *)
LEMMA LastReaderKeepsInv ==
  ASSUME LockInv, NEW t \in Threads, LastReaderUnlocks(t)
  PROVE  LockInv'
<1> USE DEF Goto, LockInv, LastReaderUnlocks
<1>1. TypeOK'
  BY DEF TypeOK, Places
<1>2. Counted' = Counted /\ Writing' = Writing
  BY DEF TypeOK, Counted, Writing
<1>3. CountIsExact'
  BY <1>2, SameCount
<1>4. Counted = {} /\ Writing = {}
  BY DEF LastIsAlone, ReadersCovered, Covered
<1>5. \A u \in Threads : pc[u] \in HoldsMutex => u = t
  BY DEF MutexOwner, HoldsMutex
<1>6. Covered' = {}
  BY <1>4, <1>5 DEF TypeOK, Counted, Covered, HoldsMutex
<1>7. WriterOwnsLock' /\ ReadersCovered' /\ LockIsWanted'
  BY <1>2, <1>4, <1>6 DEF WriterOwnsLock, ReadersCovered, LockIsWanted
<1>8. MutexOwner'
  BY DEF TypeOK, MutexOwner, HoldsMutex
<1>9. FirstIsAlone' /\ LastIsAlone'
  BY <1>2, <1>4 DEF TypeOK, FirstIsAlone, LastIsAlone
<1> QED
  BY <1>1, <1>3, <1>7, <1>8, <1>9

(* Unlocking mutex on the way out, uncounted already. *)
LEMMA ReleaseMutexKeepsInv ==
  ASSUME LockInv, NEW t \in Threads, ReleaseMutex(t)
  PROVE  LockInv'
<1> USE DEF Goto, LockInv, ReleaseMutex
<1>1. TypeOK'
  BY DEF TypeOK, Places
<1>2. Counted' = Counted /\ Covered' = Covered /\ Writing' = Writing
  BY DEF TypeOK, Counted, Covered, Writing
<1>3. CountIsExact'
  BY <1>2, SameCount
<1>4. WriterOwnsLock' /\ ReadersCovered' /\ LockIsWanted'
  BY <1>2 DEF WriterOwnsLock, ReadersCovered, LockIsWanted
<1>5. \A u \in Threads : pc[u] \in HoldsMutex => u = t
  BY DEF MutexOwner, HoldsMutex
<1>6. MutexOwner'
  BY <1>5 DEF TypeOK, MutexOwner, HoldsMutex
<1>7. FirstIsAlone' /\ LastIsAlone'
  BY <1>2 DEF TypeOK, FirstIsAlone, LastIsAlone
<1> QED
  BY <1>1, <1>3, <1>4, <1>6, <1>7

-----------------------------------------------------------------------------
(* Every step of the protocol preserves the invariant. *)
LEMMA NextLockInv == LockInv /\ [Next]_vars => LockInv'
<1> SUFFICES ASSUME LockInv, [Next]_vars PROVE LockInv'
  OBVIOUS
<1>1. CASE UNCHANGED vars
  BY <1>1 DEF vars, LockInv, TypeOK, WriterOwnsLock, MutexOwner, CountIsExact, ReadersCovered,
     FirstIsAlone, LastIsAlone, LockIsWanted, Counted, Covered, Writing
<1>2. ASSUME NEW t \in Threads, WantWrite(t) \/ WantRead(t) \/ Proceed(t)
      PROVE  LockInv'
  BY <1>2, WantKeepsInv, BeginWriteKeepsInv, EndWriteKeepsInv, CountInKeepsInv,
     FirstReaderKeepsInv, BeginReadKeepsInv, EndReadKeepsInv, CountOutKeepsInv,
     LastReaderKeepsInv, ReleaseMutexKeepsInv DEF Proceed
<1> QED
  BY <1>1, <1>2 DEF Next

(* The lock state is consistent in every reachable state: numReaders is the *)
(* number of readers, mutex and rw_lock are held by those who should hold   *)
(* them (server.c 17-19 as used by server_client.c).                        *)
THEOREM LockInvariant == Spec => []LockInv
<1>1. Init => LockInv
  BY InitLockInv
<1>2. LockInv /\ [Next]_vars => LockInv'
  BY NextLockInv
<1> QED
  BY <1>1, <1>2, PTL DEF Spec

(* A thread that changes the chat lists under rw_lock is alone with them.   *)
THEOREM ExclusionTheorem == Spec => []Exclusion
<1>1. LockInv => Exclusion
  <2> SUFFICES ASSUME LockInv PROVE Exclusion
    OBVIOUS
  <2>1. \A t, u \in Writing : t = u
    BY DEF LockInv, WriterOwnsLock
  <2>2. Writing = {} \/ Reading = {}
    BY DEF LockInv, ReadersCovered, Covered, Reading
  <2> QED
    BY <2>1, <2>2 DEF Exclusion
<1> QED
  BY <1>1, LockInvariant, PTL

-----------------------------------------------------------------------------
(* Initially nobody reads and nobody writes. *)
LEMMA InitImplementsRW == Init => RW!Init
BY DEF Init, RW!Init, Reading, Writing

(* Every step of the protocol is a step of the abstract lock or none. *)
LEMMA StepImplementsRW == LockInv /\ [Next]_vars => [RW!Next]_RW!vars
<1> SUFFICES ASSUME LockInv, [Next]_vars PROVE [RW!Next]_RW!vars
  OBVIOUS
<1> USE DEF RW!vars, Goto
<1>0. pc \in [Threads -> Places]
  BY DEF LockInv, TypeOK
<1>1. CASE UNCHANGED vars
  BY <1>1 DEF vars, Reading, Writing
<1>2. ASSUME NEW t \in Threads, WantWrite(t) \/ WantRead(t) \/ Proceed(t)
      PROVE  [RW!Next]_RW!vars
  <2>1. CASE BeginWrite(t)
    <3>1. Writing = {} /\ Reading = {}
      BY <2>1 DEF BeginWrite, LockInv, WriterOwnsLock, ReadersCovered, Covered, Reading, Writing
    <3>2. Writing' = {t} /\ Reading' = Reading
      BY <1>0, <2>1, <3>1 DEF BeginWrite, Reading, Writing
    <3> QED
      BY <3>1, <3>2 DEF RW!Next, RW!BeginWrite
  <2>2. CASE EndWrite(t)
    <3>1. t \in Writing /\ Writing' = Writing \ {t} /\ Reading' = Reading
      BY <1>0, <2>2 DEF EndWrite, Reading, Writing
    <3> QED
      BY <3>1 DEF RW!Next, RW!EndWrite
  <2>3. CASE BeginRead(t)
    <3>1. t \notin Reading /\ Reading' = Reading \cup {t} /\ Writing' = Writing
      BY <1>0, <2>3 DEF BeginRead, Reading, Writing
    <3>2. Writing = {}
      BY <2>3 DEF BeginRead, LockInv, ReadersCovered, Covered
    <3> QED
      BY <3>1, <3>2 DEF RW!Next, RW!BeginRead
  <2>4. CASE EndRead(t)
    <3>1. t \in Reading /\ Reading' = Reading \ {t} /\ Writing' = Writing
      BY <1>0, <2>4 DEF EndRead, Reading, Writing
    <3> QED
      BY <3>1 DEF RW!Next, RW!EndRead
  <2>5. CASE \/ WantWrite(t) \/ WantRead(t) \/ CountIn(t) \/ FirstReaderLocks(t)
             \/ CountOut(t) \/ LastReaderUnlocks(t) \/ ReleaseMutex(t)
    <3>1. Reading' = Reading /\ Writing' = Writing
      BY <1>0, <2>5 DEF WantWrite, WantRead, CountIn, FirstReaderLocks, CountOut,
         LastReaderUnlocks, ReleaseMutex, Reading, Writing
    <3> QED
      BY <3>1
  <2> QED
    BY <1>2, <2>1, <2>2, <2>3, <2>4, <2>5 DEF Proceed
<1> QED
  BY <1>1, <1>2 DEF Next

(* The two mutexes and the counter together are a readers/writer lock, for  *)
(* any number of client threads.                                            *)
THEOREM RefinesRW == Spec => ImplementsRW
<1>1. Init => RW!Init
  BY InitImplementsRW
<1>2. LockInv /\ [Next]_vars => [RW!Next]_RW!vars
  BY StepImplementsRW
<1> QED
  BY <1>1, <1>2, LockInvariant, PTL DEF Spec, ImplementsRW, RW!Spec
=============================================================================
