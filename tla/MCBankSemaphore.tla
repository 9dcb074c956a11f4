-------------------------- MODULE MCBankSemaphore ---------------------------
(* BankSemaphore with the sums of the program and a few processes. *)
EXTENDS BankSemaphore
=============================================================================
