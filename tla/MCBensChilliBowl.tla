-------------------------- MODULE MCBensChilliBowl --------------------------
(* BensChilliBowl with a few customers and cooks and a queue that fills up. *)
EXTENDS BensChilliBowl
=============================================================================
