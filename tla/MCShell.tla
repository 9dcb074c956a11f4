------------------------------ MODULE MCShell -------------------------------
(* Shell with a few process numbers, so that they are soon used again. *)
EXTENDS Shell, TLC

MCSymmetry == Permutations(Pids)
=============================================================================
