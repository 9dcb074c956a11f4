--------------------------- MODULE BankSemaphore ----------------------------
(***************************************************************************)
(* The bank of project 2, part 1 (shm_processes.c): Dad, perhaps Mom, and  *)
(* the students share a balance in memory, each visit to it between        *)
(* sem_wait and sem_post on the named semaphore "/bank_mutex".             *)
(*                                                                         *)
(* The processes loop for ever.  What ends them is a signal: one process   *)
(* can be killed, or the whole program from the terminal, anywhere.  The   *)
(* shared memory is private to a run of the program; the semaphore lives   *)
(* in the system under its name until some run unlinks it.                 *)
(***************************************************************************)
EXTENDS Bank, FiniteSets

CONSTANTS Students,      \* the num_children students
          Mothers,       \* {} or a single process: num_parents - 1 of them
          Dad,
          MomGives,      \* 125: the most Mom deposits
          MaxRuns        \* bound: runs of the program

Processes == {Dad} \cup Mothers \cup Students

ASSUME BankAssumption ==
  /\ IsFiniteSet(Students) /\ IsFiniteSet(Mothers)
  /\ Dad \notin Mothers \cup Students /\ Mothers \cap Students = {}
  /\ MomGives \in Nat /\ MaxRuns \in Nat

VARIABLES sem,      \* the value of the semaphore; -1 while no semaphore has the name
          running,  \* whether the program is running
          balance,  \* *SharedMem
          pc,       \* away, entered, looked (at the balance), acted, dead
          local,    \* localBalance of each process, 0 outside its scope
          killed,   \* visits that a kill cut short since the semaphore was created
          runs

vars == <<sem, running, balance, pc, local, killed, runs>>

Unlinked == -1

Init == /\ sem = Unlinked /\ running = FALSE /\ balance = 0
        /\ pc = [p \in Processes |-> "dead"]
        /\ local = [p \in Processes |-> 0]
        /\ killed = 0 /\ runs = 0

Inside == {p \in Processes : pc[p] \in {"entered", "looked", "acted"}}

-----------------------------------------------------------------------------
(* main: sem_open with O_CREAT makes a semaphore of value 1 only if there is  *)
(* none of that name; one that is left over keeps its value.                  *)
Run == /\ ~running /\ runs < MaxRuns
       /\ running' = TRUE
       /\ runs' = runs + 1
       /\ balance' = 0
       /\ sem' = IF sem = Unlinked THEN 1 ELSE sem
       /\ pc' = [p \in Processes |-> "away"]
       /\ UNCHANGED <<local, killed>>

(* One of main's forks fails: cleanup unlinks the semaphore, this run's or the *)
(* one that it found, and main exits.  The children made so far are not       *)
(* followed: the memory they go on with is that run's own.                    *)
ForkFails == /\ ~running /\ runs < MaxRuns
             /\ runs' = runs + 1
             /\ balance' = 0
             /\ sem' = Unlinked
             /\ killed' = 0
             /\ UNCHANGED <<running, pc, local>>

SemWait(p) == /\ pc[p] = "away" /\ sem > 0
              /\ sem' = sem - 1
              /\ pc' = [pc EXCEPT ![p] = "entered"]
              /\ UNCHANGED <<running, balance, local, killed, runs>>

Look(p) == /\ pc[p] = "entered"
           /\ local' = [local EXCEPT ![p] = balance]
           /\ pc' = [pc EXCEPT ![p] = "looked"]
           /\ UNCHANGED <<sem, running, balance, killed, runs>>

(* Fault: a student does not ask what there is. *)
AfterStudentOnCredit(found) == {found - need : need \in 0..StudentNeeds}

(* What a visit may write, given what it found: the dice decide how much.     *)
AfterDad(found)     == IF found < Limit THEN found .. found + DadGives ELSE {}
AfterMom(found)     == IF found <= Limit THEN found .. found + MomGives ELSE {}
AfterStudent(found) == {found - need : need \in {n \in 0..StudentNeeds : n <= found}}

AfterVisit(p, found) == CASE p = Dad -> AfterDad(found)
                          [] p \in Mothers -> AfterMom(found)
                          [] p \in Students -> AfterStudent(found)

(* The dice also decide whether the process writes at all. *)
Act(p) == /\ pc[p] = "looked"
          /\ \/ UNCHANGED <<balance, local>>
             \/ \E b \in AfterVisit(p, local[p]) : balance' = b /\ local' = [local EXCEPT ![p] = b]
          /\ pc' = [pc EXCEPT ![p] = "acted"]
          /\ UNCHANGED <<sem, running, killed, runs>>

(* Fault: the semaphore is not raised again. *)
SemPostForgotten(p) == /\ pc[p] = "acted"
                       /\ pc' = [pc EXCEPT ![p] = "away"]
                       /\ local' = [local EXCEPT ![p] = 0]
                       /\ UNCHANGED <<sem, running, balance, killed, runs>>

SemPost(p) == /\ pc[p] = "acted"
              /\ sem' = sem + 1
              /\ pc' = [pc EXCEPT ![p] = "away"]
              /\ local' = [local EXCEPT ![p] = 0]
              /\ UNCHANGED <<running, balance, killed, runs>>

-----------------------------------------------------------------------------
(* A signal ends one process. *)
Kill(p) == /\ pc[p] # "dead"
           /\ killed' = killed + (IF p \in Inside THEN 1 ELSE 0)
           /\ pc' = [pc EXCEPT ![p] = "dead"]
           /\ local' = [local EXCEPT ![p] = 0]
           /\ UNCHANGED <<sem, running, balance, runs>>

(* Ctrl-C ends them all, main included: cleanup does not run. *)
KillAll == /\ running
           /\ running' = FALSE
           /\ killed' = killed + Cardinality(Inside)
           /\ pc' = [p \in Processes |-> "dead"]
           /\ local' = [p \in Processes |-> 0]
           /\ UNCHANGED <<sem, balance, runs>>

(* main has waited for all its children; cleanup unlinks the semaphore. *)
Cleanup == /\ running /\ \A p \in Processes : pc[p] = "dead"
           /\ running' = FALSE
           /\ sem' = Unlinked
           /\ killed' = 0
           /\ UNCHANGED <<balance, pc, local, runs>>

Visit(p) == SemWait(p) \/ Look(p) \/ Act(p) \/ SemPost(p)

Next == \/ Run \/ ForkFails \/ KillAll \/ Cleanup
        \/ \E p \in Processes : Visit(p) \/ Kill(p)

Spec == Init /\ [][Next]_vars

(* A process that can go on goes on. *)
FairSpec == Spec /\ \A p \in Processes : WF_vars(Visit(p))

-----------------------------------------------------------------------------
Highest == Limit + (IF DadGives > MomGives THEN DadGives ELSE MomGives)

TypeOK == /\ sem \in {Unlinked, 0, 1} /\ running \in BOOLEAN
          /\ balance \in Int
          /\ pc \in [Processes -> {"away", "entered", "looked", "acted", "dead"}]
          /\ local \in [Processes -> Int]
          /\ killed \in Nat /\ runs \in Nat

(* The semaphore's one token is in the semaphore, with the process inside, or  *)
(* lost to a kill.  So at most one process is inside, in every run; a visit    *)
(* that was cut short locks out that run and every later one, and only         *)
(* unlinking the name heals it.                                                *)
TokenAccounted == sem # Unlinked => sem + Cardinality(Inside) + killed = 1
NobodyWithout  == /\ sem = Unlinked => ~running /\ killed = 0
                  /\ ~running => \A p \in Processes : pc[p] = "dead"

(* What a process found is still true when it acts on it: no deposit or        *)
(* withdrawal is overwritten.                                                  *)
FreshBalance == \A p \in Processes : pc[p] = "looked" => local[p] = balance

(* The account is never overdrawn, and the parents never fill it beyond their  *)
(* largest deposit over the limit.                                             *)
WithinMeans == 0 <= balance /\ balance <= Highest

(* What holds between any two steps of main, the visits and the kills: the      *)
(* inductive invariant.                                                        *)
BankInv == TypeOK /\ TokenAccounted /\ NobodyWithout /\ FreshBalance /\ WithinMeans

Stopped == ~running \/ killed > 0 \/ \A p \in Processes : pc[p] = "dead"

(* As long as no kill takes the token away, the bank is visited again and again  *)
(* and no visit lasts for ever: nobody keeps the semaphore, and a process that    *)
(* finds it taken is not the last to be served.                                   *)
VisitsGoOn == []<>(Inside # {} \/ Stopped) /\ []<>(Inside = {} \/ Stopped)
=============================================================================
