------------------------------ MODULE ChatLock ------------------------------
(***************************************************************************)
(* The locking protocol of the chat server: how a client thread takes and  *)
(* releases the two pthread mutexes around an operation on the shared user *)
(* and room lists (server.c 17-19, server_client.c).                       *)
(*                                                                         *)
(* A writer (create, join, leave, connect, disconnect, login, register,    *)
(* cleanup, and the SIGINT handler) takes rw_lock for itself.  A reader    *)
(* (rooms, users, a message) counts itself in numReaders under mutex; the  *)
(* first one in takes rw_lock for all readers while it still holds mutex,  *)
(* and the last one out unlocks it, whoever had locked it.                 *)
(***************************************************************************)
EXTENDS Integers, FiniteSets

CONSTANTS Threads,   \* the threads of the server
          NoThread   \* "nobody", the owner of an unlocked mutex

ASSUME ThreadsAssumption == IsFiniteSet(Threads) /\ NoThread \notin Threads

VARIABLES mutex,       \* the thread holding mutex, or NoThread
          rwLock,      \* the thread that locked rw_lock, or NoThread
          numReaders,  \* the reader count, only touched under mutex
          pc           \* where each thread is in the protocol

vars == <<mutex, rwLock, numReaders, pc>>

(***************************************************************************)
(* idle       outside every critical section                               *)
(* w_want     blocked in pthread_mutex_lock(&rw_lock) as a writer          *)
(* w_in       writing                                                      *)
(* r_want     blocked in pthread_mutex_lock(&mutex) on the way in          *)
(* r_first    the first reader: holds mutex, blocked on rw_lock            *)
(* r_entered  counted and covered by rw_lock, about to unlock mutex        *)
(* r_in       reading                                                      *)
(* x_want     blocked in pthread_mutex_lock(&mutex) on the way out         *)
(* x_last     the last reader: holds mutex, about to unlock rw_lock        *)
(* x_exit     uncounted, about to unlock mutex                             *)
(***************************************************************************)
Places == {"idle", "w_want", "w_in", "r_want", "r_first", "r_entered", "r_in",
           "x_want", "x_last", "x_exit"}

Init == /\ mutex = NoThread
        /\ rwLock = NoThread
        /\ numReaders = 0
        /\ pc = [t \in Threads |-> "idle"]

Goto(t, from, to) == pc[t] = from /\ pc' = [pc EXCEPT ![t] = to]

(* Writers: lock(rw_lock); operation; unlock(rw_lock). *)
WantWrite(t) == Goto(t, "idle", "w_want") /\ UNCHANGED <<mutex, rwLock, numReaders>>

BeginWrite(t) == /\ rwLock = NoThread
                 /\ Goto(t, "w_want", "w_in")
                 /\ rwLock' = t
                 /\ UNCHANGED <<mutex, numReaders>>

EndWrite(t) == /\ Goto(t, "w_in", "idle")
               /\ rwLock' = NoThread
               /\ UNCHANGED <<mutex, numReaders>>

(* Readers, on the way in: lock(mutex); numReaders++; if first, lock(rw_lock). *)
WantRead(t) == Goto(t, "idle", "r_want") /\ UNCHANGED <<mutex, rwLock, numReaders>>

(* Fault: the second reader locks rw_lock, not the first. *)
CountInLate(t) == /\ mutex = NoThread
                  /\ mutex' = t
                  /\ numReaders' = numReaders + 1
                  /\ Goto(t, "r_want", IF numReaders + 1 = 2 THEN "r_first" ELSE "r_entered")
                  /\ UNCHANGED rwLock

CountIn(t) == /\ mutex = NoThread
              /\ mutex' = t
              /\ numReaders' = numReaders + 1
              /\ Goto(t, "r_want", IF numReaders + 1 = 1 THEN "r_first" ELSE "r_entered")
              /\ UNCHANGED rwLock

FirstReaderLocks(t) == /\ rwLock = NoThread
                       /\ rwLock' = t
                       /\ Goto(t, "r_first", "r_entered")
                       /\ UNCHANGED <<mutex, numReaders>>

BeginRead(t) == /\ Goto(t, "r_entered", "r_in")
                /\ mutex' = NoThread
                /\ UNCHANGED <<rwLock, numReaders>>

(* Readers, on the way out: lock(mutex); numReaders--; if last, unlock(rw_lock). *)
EndRead(t) == Goto(t, "r_in", "x_want") /\ UNCHANGED <<mutex, rwLock, numReaders>>

(* Faults: a reader uncounts itself without the mutex; the last but one reader *)
(* unlocks rw_lock.                                                            *)
CountOutUnlocked(t) == /\ mutex' = t
                       /\ numReaders' = numReaders - 1
                       /\ Goto(t, "x_want", IF numReaders - 1 = 0 THEN "x_last" ELSE "x_exit")
                       /\ UNCHANGED rwLock

CountOutEarly(t) == /\ mutex = NoThread
                    /\ mutex' = t
                    /\ numReaders' = numReaders - 1
                    /\ Goto(t, "x_want", IF numReaders - 1 = 1 THEN "x_last" ELSE "x_exit")
                    /\ UNCHANGED rwLock

CountOut(t) == /\ mutex = NoThread
               /\ mutex' = t
               /\ numReaders' = numReaders - 1
               /\ Goto(t, "x_want", IF numReaders - 1 = 0 THEN "x_last" ELSE "x_exit")
               /\ UNCHANGED rwLock

(* Fault: the last reader leaves rw_lock locked. *)
LastReaderForgets(t) == Goto(t, "x_last", "x_exit") /\ UNCHANGED <<mutex, rwLock, numReaders>>

LastReaderUnlocks(t) == /\ Goto(t, "x_last", "x_exit")
                        /\ rwLock' = NoThread
                        /\ UNCHANGED <<mutex, numReaders>>

ReleaseMutex(t) == /\ Goto(t, "x_exit", "idle")
                   /\ mutex' = NoThread
                   /\ UNCHANGED <<rwLock, numReaders>>

(* What a thread does on its own account once it has asked for the lock. *)
Proceed(t) == \/ BeginWrite(t) \/ EndWrite(t)
              \/ CountIn(t) \/ FirstReaderLocks(t) \/ BeginRead(t)
              \/ EndRead(t) \/ CountOut(t) \/ LastReaderUnlocks(t) \/ ReleaseMutex(t)

Next == \E t \in Threads : WantWrite(t) \/ WantRead(t) \/ Proceed(t)

Spec == Init /\ [][Next]_vars

(***************************************************************************)
(* A client may stay silent for ever, so nothing makes a thread ask for    *)
(* the lock.  A thread that can take a step of the protocol takes it in    *)
(* the end: the scheduler is fair to runnable threads, and an operation    *)
(* under the lock ends (send() does not block for ever).  Nothing more is  *)
(* assumed of the mutexes: a waiting thread may be overtaken again and     *)
(* again.                                                                  *)
(***************************************************************************)
FairSpec == Spec /\ \A t \in Threads : WF_vars(Proceed(t))

-----------------------------------------------------------------------------
TypeOK == /\ mutex \in Threads \cup {NoThread}
          /\ rwLock \in Threads \cup {NoThread}
          /\ numReaders \in Nat
          /\ pc \in [Threads -> Places]

Reading == {t \in Threads : pc[t] = "r_in"}
Writing == {t \in Threads : pc[t] = "w_in"}

(* A writer excludes the readers and the other writers, although the reader *)
(* that unlocks rw_lock is seldom the one that locked it.                   *)
Exclusion == /\ \A t, u \in Writing : t = u
             /\ Writing = {} \/ Reading = {}

(* A writer that holds rw_lock is the thread that locked it: no reader ever *)
(* unlocks it under the writer's feet.                                      *)
WriterOwnsLock == \A t \in Writing : rwLock = t

(* mutex serialises the counting: it is held exactly while some thread is   *)
(* between counting and unlocking.                                          *)
HoldsMutex == {"r_first", "r_entered", "x_last", "x_exit"}
MutexOwner == \A t \in Threads : pc[t] \in HoldsMutex <=> mutex = t

(* numReaders counts the threads that announced themselves and did not      *)
(* withdraw.                                                                *)
Counted == {t \in Threads : pc[t] \in {"r_first", "r_entered", "r_in", "x_want"}}
CountIsExact == numReaders = Cardinality(Counted)

(* Readers that are through are covered by a locked rw_lock, and the only   *)
(* counted thread that is not covered is the first reader.                  *)
Covered == {t \in Threads : pc[t] \in {"r_entered", "r_in", "x_want", "x_last"}}
ReadersCovered == Covered # {} => rwLock # NoThread /\ Writing = {}

(* The first reader is alone: nobody else is counted while it waits.        *)
FirstIsAlone == \A t, u \in Threads : pc[t] = "r_first" /\ u \in Counted => u = t

(* The last reader to leave is alone too: it unlocks rw_lock for nobody.    *)
LastIsAlone == \A t \in Threads : pc[t] = "x_last" => Counted = {}

(* A locked rw_lock has a thread answerable for it: the writer, or a reader *)
(* that has still to leave.  It is never left locked behind everybody.      *)
LockIsWanted == rwLock # NoThread => Writing # {} \/ Covered # {}

(* What holds between any two steps of the lock protocol of client_receive: the *)
(* inductive invariant.                                                         *)
LockInv == /\ TypeOK
           /\ WriterOwnsLock
           /\ MutexOwner
           /\ CountIsExact
           /\ ReadersCovered
           /\ FirstIsAlone
           /\ LastIsAlone
           /\ LockIsWanted

-----------------------------------------------------------------------------
RW == INSTANCE RWExclusion WITH readers <- Reading, writers <- Writing

(* mutex, rw_lock and numReaders together implement a readers/writer lock. *)
ImplementsRW == RW!Spec

Waiting == {t \in Threads : pc[t] \in {"w_want", "r_want"}}

(* The two mutexes are taken in one order only, so whenever a thread waits   *)
(* some thread gets to its operation.  Which one is up to the scheduler: a   *)
(* writer may wait behind readers for ever.                                  *)
SomebodyIsServed == Waiting # {} ~> Reading \cup Writing # {}
=============================================================================
