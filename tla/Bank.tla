-------------------------------- MODULE Bank --------------------------------
(* The sums of both bank programs, shm_processes.c and bank_account.c. *)
EXTENDS Integers

CONSTANTS Limit,         \* 100: the balance with which the student has enough
          DadGives,      \* 100: the most Dad deposits
          StudentNeeds   \* 50: the most a student withdraws

ASSUME SumsAssumption == Limit \in Nat /\ DadGives \in Nat /\ StudentNeeds \in Nat
=============================================================================
