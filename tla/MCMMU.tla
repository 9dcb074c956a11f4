------------------------------- MODULE MCMMU --------------------------------
(* MMU on a small partition, for an input file that asks for every size that *)
(* could be granted.                                                         *)
EXTENDS MMU

EverySize == 1..SIZE
=============================================================================
