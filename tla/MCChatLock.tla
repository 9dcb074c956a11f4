----------------------------- MODULE MCChatLock -----------------------------
(* ChatLock on a few threads. *)
EXTENDS ChatLock
=============================================================================
