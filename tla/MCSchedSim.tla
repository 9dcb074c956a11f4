----------------------------- MODULE MCSchedSim -----------------------------
(* SchedSim on every file of a few short processes. *)
EXTENDS SchedSim

MCJobs == [bt : 1..3, art : {0, 1, 4}, pri : {0, 1}]
=============================================================================
