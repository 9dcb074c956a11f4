------------------------------ MODULE MCPipes -------------------------------
(* Pipes on a file of four lines, of which grep lets three through in an order *)
(* that sort has to change.                                                    *)
EXTENDS Pipes

MCScores == <<3, 4, 1, 2>>
=============================================================================
