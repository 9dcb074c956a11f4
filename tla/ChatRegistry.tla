---------------------------- MODULE ChatRegistry ----------------------------
(***************************************************************************)
(* The shared lists of the chat server and the functions of server.c that  *)
(* read and change them, each a single step because its caller holds       *)
(* rw_lock.  The two lists are one value, db:                              *)
(*                                                                         *)
(*   db.users  the list at user_head, in list order (new users in front);  *)
(*             a record per User: its socket, its name, how often each     *)
(*             room stands in its room list, the names in its list of      *)
(*             direct connections                                          *)
(*   db.rooms  the list at room_head: for each room, the names in its list *)
(*             of RoomUsers.  addUserToRoom and addRoom refuse duplicates, *)
(*             and no function depends on the order, so these are a        *)
(*             function and sets                                           *)
(*                                                                         *)
(* A RoomUser and a DirectConn hold a copy of a name, not a pointer to the *)
(* User: every function finds its way from one list to the other by name.  *)
(***************************************************************************)
EXTENDS Integers, Sequences, FiniteSets, SequencesExt

CONSTANTS RoomNames,  \* the room names that clients use
          Lobby       \* DEFAULT_ROOM

NoRooms == [r \in RoomNames |-> 0]

EmptyDb == [users |-> <<>>, rooms |-> [r \in {} |-> {}]]

(* The first record of a list that satisfies a condition, 0 for NULL. *)
FirstWhere(us, Holds(_)) == LET hits == {i \in DOMAIN us : Holds(us[i])}
                            IN IF hits = {} THEN 0 ELSE CHOOSE i \in hits : \A j \in hits : i <= j

FindUserBySocket(db, c) == FirstWhere(db.users, LAMBDA u : u.sock = c)
FindUserByName(db, n)   == FirstWhere(db.users, LAMBDA u : u.name = n)
RoomExists(db, r)       == r \in DOMAIN db.rooms

AddRoom(db, r) == IF RoomExists(db, r) THEN db
                  ELSE [db EXCEPT !.rooms = [q \in DOMAIN @ \cup {r} |-> IF q = r THEN {} ELSE @[q]]]

(* No check that the name is free. *)
AddUser(db, c, n) ==
  [db EXCEPT !.users = <<[sock |-> c, name |-> n, rooms |-> NoRooms, dms |-> {}]>> \o @]

(* A user's own list of rooms: nothing keeps a room from being in it twice. *)
AddRoomToUserList(u, r)      == [u EXCEPT !.rooms[r] = @ + 1]
RemoveRoomFromUserList(u, r) == IF u.rooms[r] = 0 THEN u ELSE [u EXCEPT !.rooms[r] = @ - 1]

AddUserToRoom(db, n, r) ==
  LET i == FindUserByName(db, n)
  IN IF ~RoomExists(db, r) \/ i = 0 \/ n \in db.rooms[r] THEN db
     ELSE [db EXCEPT !.rooms[r] = @ \cup {n}, !.users[i] = AddRoomToUserList(@, r)]

(* Fault: the user's own list is not searched for the room. *)
RemoveUserFromRoomBlindly(db, n, r) ==
  LET i == FindUserByName(db, n)
  IN [rooms |-> [q \in DOMAIN db.rooms |-> IF q = r THEN db.rooms[q] \ {n} ELSE db.rooms[q]],
      users |-> IF i = 0 THEN db.users ELSE [db.users EXCEPT ![i].rooms[r] = @ - 1]]

(* The two halves are independent: either list may lack the entry. *)
RemoveUserFromRoom(db, n, r) ==
  LET i == FindUserByName(db, n)
  IN [rooms |-> [q \in DOMAIN db.rooms |-> IF q = r THEN db.rooms[q] \ {n} ELSE db.rooms[q]],
      users |-> IF i = 0 THEN db.users ELSE [db.users EXCEPT ![i] = RemoveRoomFromUserList(@, r)]]

(* Fault: the other end is connected too. *)
AddConnectionBothWays(db, from, to) ==
  LET i == FindUserByName(db, from)
      j == FindUserByName(db, to)
  IN IF i = 0 \/ j = 0 THEN db
     ELSE [db EXCEPT !.users[i].dms = @ \cup {to}, !.users[j].dms = @ \cup {from}]

AddDirectConnection(db, from, to) ==
  LET i == FindUserByName(db, from)
  IN IF i = 0 THEN db ELSE [db EXCEPT !.users[i].dms = @ \cup {to}]

RemoveDirectConnection(db, from, to) ==
  LET i == FindUserByName(db, from)
  IN IF i = 0 THEN db ELSE [db EXCEPT !.users[i].dms = @ \ {to}]

(* Fault: nobody looks whether the name is free. *)
RenameUserUnchecked(db, c, n) ==
  LET i == FindUserBySocket(db, c) IN IF i = 0 THEN db ELSE [db EXCEPT !.users[i].name = n]

(* Only the User is renamed: the copies of its old name stay where they are. *)
RenameUser(db, c, n) ==
  LET i == FindUserBySocket(db, c)
  IN IF FindUserByName(db, n) # 0 \/ i = 0 THEN db ELSE [db EXCEPT !.users[i].name = n]

(* Faults: the rooms keep the user's name; every record of the socket goes. *)
RemoveUserFromListOnly(db, c) ==
  LET i == FindUserBySocket(db, c)
  IN IF i = 0 THEN db ELSE [db EXCEPT !.users = RemoveAt(@, i)]

RemoveEveryRecord(db, c) == [db EXCEPT !.users = SelectSeq(@, LAMBDA u : u.sock # c)]

(* Takes the user's present name out of the rooms in its own room list. *)
RemoveUser(db, c) ==
  LET i == FindUserBySocket(db, c)
  IN IF i = 0 THEN db
     ELSE LET u == db.users[i]
          IN [users |-> RemoveAt(db.users, i),
              rooms |-> [r \in DOMAIN db.rooms |->
                           IF u.rooms[r] > 0 THEN db.rooms[r] \ {u.name} ELSE db.rooms[r]]]

(* Fault: the receiver's list of rooms is not searched. *)
SharesRoomOfSender(u, v) == \E r \in RoomNames : u.rooms[r] > 0

SharesRoom(u, v) == \E r \in RoomNames : u.rooms[r] > 0 /\ v.rooms[r] > 0

(* The sockets to which broadcastMessage sends a message of the i-th user. *)
BroadcastTo(db, i) ==
  LET u == db.users[i]
  IN {v.sock : v \in {w \in ToSet(db.users) : /\ w.sock # u.sock
                                              /\ w.name \in u.dms \/ SharesRoom(u, w)}}
=============================================================================
