----------------------------- MODULE BankTurns ------------------------------
(***************************************************************************)
(* The bank account of lab 3, part 2 (bank_account.c): Dad and the student *)
(* share a balance and take turns by busy-waiting on a shared variable.    *)
(* Each copies the balance before it waits for its turn, acts on the copy, *)
(* and writes the copy back: it may overwrite what the other did meanwhile.*)
(*                                                                         *)
(* Each access to the shared memory is a step; the program is compiled     *)
(* without optimisation, and an aligned int is read and written whole.     *)
(***************************************************************************)
EXTENDS Bank

CONSTANT Rounds  \* 25: the turns each process takes

ASSUME TurnsAssumption == Rounds \in Nat \ {0}

(* The processes are named by the value Turn has when it is theirs. *)
DadTurn == 0
StudentTurn == 1
Turns == {DadTurn, StudentTurn}

VARIABLES BankAccount, Turn,  \* the shared memory
          at,        \* sleeping, waiting (for its turn), writing (it has), done
          account,   \* the local copy of each process
          rounds,    \* the turns each has taken
          before,    \* history: the balance before the last write
          removed    \* main has removed the shared memory

turnsVars == <<BankAccount, Turn, at, account, rounds, before, removed>>

TurnsInit == /\ BankAccount = 0 /\ Turn = 0
             /\ at = [p \in Turns |-> "sleeping"]
             /\ account = [p \in Turns |-> 0]
             /\ rounds = [p \in Turns |-> 0]
             /\ before = 0
             /\ removed = FALSE

Copy(p) == /\ at[p] = "sleeping"
           /\ account' = [account EXCEPT ![p] = BankAccount]
           /\ at' = [at EXCEPT ![p] = "waiting"]
           /\ UNCHANGED <<BankAccount, Turn, rounds, before, removed>>

(* Fault: Dad does not ask whether there is enough. *)
DadWritesAnyway(found) == {found} \cup {found + sum : sum \in {n \in 0..DadGives : n % 2 = 0}}

DadWrites(found) == {found} \cup {found + sum : sum \in {n \in 0..DadGives : found <= Limit /\ n % 2 = 0}}
StudentWrites(found) == {found} \cup {found - need : need \in {n \in 0..StudentNeeds : n <= found}}

(* The end of the busy wait, the decision and the write. *)
TakeTurn(p) == /\ at[p] = "waiting" /\ Turn = p
               /\ BankAccount' \in IF p = DadTurn THEN DadWrites(account[p]) ELSE StudentWrites(account[p])
               /\ account' = [account EXCEPT ![p] = BankAccount']
               /\ before' = BankAccount
               /\ at' = [at EXCEPT ![p] = "writing"]
               /\ UNCHANGED <<Turn, rounds, removed>>

(* Faults: the turn is kept; Dad makes a round less. *)
HandOverWith(p, turn, last) ==
  /\ at[p] = "writing"
  /\ Turn' = turn
  /\ rounds' = [rounds EXCEPT ![p] = @ + 1]
  /\ at' = [at EXCEPT ![p] = IF rounds[p] + 1 < last THEN "sleeping" ELSE "done"]
  /\ UNCHANGED <<BankAccount, account, before, removed>>

HandOverToSelf(p)   == HandOverWith(p, p, Rounds)
HandOverShort(p)    == HandOverWith(p, 1 - p, IF p = DadTurn THEN Rounds - 1 ELSE Rounds)

HandOver(p) == /\ at[p] = "writing"
               /\ Turn' = 1 - p
               /\ rounds' = [rounds EXCEPT ![p] = @ + 1]
               /\ at' = [at EXCEPT ![p] = IF rounds[p] + 1 < Rounds THEN "sleeping" ELSE "done"]
               /\ UNCHANGED <<BankAccount, account, before, removed>>

(* main is Dad: it waits for the student and removes the memory. *)
RemoveMemory == /\ \A p \in Turns : at[p] = "done"
                /\ ~removed /\ removed' = TRUE
                /\ UNCHANGED <<BankAccount, Turn, at, account, rounds, before>>

Step(p) == Copy(p) \/ TakeTurn(p) \/ HandOver(p)

TurnsNext == RemoveMemory \/ \E p \in Turns : Step(p)

TurnsSpec == TurnsInit /\ [][TurnsNext]_turnsVars

TurnsFairSpec == TurnsSpec /\ WF_turnsVars(RemoveMemory) /\ \A p \in Turns : WF_turnsVars(Step(p))

-----------------------------------------------------------------------------
Most == Limit + DadGives

(* The values of the variables.  Whatever is lost, neither the account nor a  *)
(* copy is overdrawn or grows beyond the largest deposit over the limit.      *)
TurnsTypeOK == /\ BankAccount \in 0..Most /\ before \in 0..Most
               /\ Turn \in Turns /\ removed \in BOOLEAN
               /\ at \in [Turns -> {"sleeping", "waiting", "writing", "done"}]
               /\ account \in [Turns -> 0..Most]
               /\ rounds \in [Turns -> 0..Rounds]

(* The processes alternate strictly, Dad first: so neither waits for a turn   *)
(* that the other, having finished, will never give.                          *)
TurnsAlternate == /\ rounds[DadTurn] = rounds[StudentTurn] + Turn
                  /\ \A p \in Turns : /\ at[p] = "done" <=> rounds[p] = Rounds
                                      /\ at[p] = "writing" => Turn = p

(* A process acts on the balance there is, or on the balance before the       *)
(* other's last turn: its copy is never staler than that, although it was     *)
(* taken before the wait.                                                     *)
StaleByOneTurn == \A p \in Turns : at[p] = "waiting" => account[p] \in {BankAccount, before}

(* Until the other has acted in its turn, a waiting process's copy is exact.  *)
ExactUntilActed ==
  \A p, q \in Turns :
    (at[p] = "waiting" /\ Turn = q /\ q # p /\ at[q] # "writing") => account[p] = BankAccount

(* The inductive invariant: the account is within its bounds, the turns       *)
(* alternate, and copies are as stale as the last turn makes them.            *)
TurnsInv == TurnsTypeOK /\ TurnsAlternate /\ StaleByOneTurn /\ ExactUntilActed

(* Both take all their turns and the memory is removed. *)
BothFinish == <>removed
=============================================================================
