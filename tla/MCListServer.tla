---------------------------- MODULE MCListServer ----------------------------
(* ListServer with two clients, and both linked lists of the repository on *)
(* every list that the commands of the server build.                       *)
EXTENDS TwoLists, TLC

CONSTANTS c1, c2

MCClients == {c1, c2}
MCIndices == 0..2
MCMaxCommands == (c1 :> 3) @@ (c2 :> 1)
=============================================================================
