---------------------------- MODULE RWExclusion ----------------------------
(***************************************************************************)
(* What a readers/writer lock promises: any number of threads read         *)
(* together, a thread writes alone.  The chat server's rw_lock, mutex and  *)
(* numReaders (server.c 17-19) are one way to keep the promise; the module *)
(* ChatLock describes it and ChatLockProofs proves that it does.           *)
(***************************************************************************)
CONSTANT Threads

VARIABLES readers,   \* the threads between a reader's entry and its exit
          writers    \* the threads between a writer's lock and its unlock

vars == <<readers, writers>>

Init == readers = {} /\ writers = {}

BeginRead(t) == /\ t \notin readers
                /\ writers = {}
                /\ readers' = readers \cup {t}
                /\ UNCHANGED writers

EndRead(t) == /\ t \in readers
              /\ readers' = readers \ {t}
              /\ UNCHANGED writers

BeginWrite(t) == /\ readers = {}
                 /\ writers = {}
                 /\ writers' = {t}
                 /\ UNCHANGED readers

EndWrite(t) == /\ t \in writers
               /\ writers' = writers \ {t}
               /\ UNCHANGED readers

Next == \E t \in Threads : BeginRead(t) \/ EndRead(t) \/ BeginWrite(t) \/ EndWrite(t)

Spec == Init /\ [][Next]_vars
=============================================================================
