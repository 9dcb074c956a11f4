---------------------------- MODULE MCChatServer ----------------------------
(* ChatServer on a few threads, descriptors, rooms and names. *)
EXTENDS ChatServer, TLC

MCFds == {4, 5}

(* A name is a stem and a number, so that "guest4" is the guest of descriptor 4. *)
MCGuest == [c \in MCFds \cup {-1} |-> <<"guest", c>>]
LoginAsGuest5 == {<<"guest", 5>>}

MCSymmetry == Permutations(ClientThreads)
=============================================================================
