---------------------------- MODULE MCBankTurns -----------------------------
(* BankTurns with all its rounds and small sums. *)
EXTENDS BankTurns
=============================================================================
